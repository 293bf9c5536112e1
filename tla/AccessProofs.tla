---------------------------- MODULE AccessProofs ----------------------------
(***************************************************************************)
(* Proofs about the two ways in: the requests of native conversations and  *)
(* the relay; and, from these and the proofs about the other services, the *)
(* types of all of them side by side.                                      *)
(***************************************************************************)
EXTENDS MCServices, BudgetProofs, SandboxProofs, ScheduleProofs, TLAPS

----------------------------------------------------------------------------
(* Conversations: the inductive invariant *)

\* A request has one Job, made after the request was recorded.
OneJobEach ==
    /\ \A i, j \in 1..MaxConvJobs :
          cvJobs[i].key = cvJobs[j].key /\ cvJobs[i].key # "" => i = j
    /\ \A j \in 1..MaxConvJobs :
          /\ cvJobs[j].key = "" => cvJobs[j] = NoConvJob
          /\ cvJobs[j].key # "" => cvJobs[j].state # "none" /\ cvRows[cvJobs[j].key].state # "none"

RowFine(k) ==
    /\ cvRows[k].state = "none" => cvRows[k].hash = ""
    /\ cvRows[k].job = 0 => cvRows[k].state \in {"none", "PENDING"}
    /\ cvRows[k].job # 0 => cvJobs[cvRows[k].job].key = k /\ cvRows[k].state # "none"

\* A call knows the Job of its own request, and once it waits the row does.
CallFine(c) ==
    /\ cvCalls[c].pc # "idle" => cvCalls[c].key # "" /\ cvRows[cvCalls[c].key].state # "none"
    /\ cvCalls[c].pc \in {"bind", "wait", "settle"} =>
          cvCalls[c].job # 0 /\ cvJobs[cvCalls[c].job].key = cvCalls[c].key
    /\ cvCalls[c].pc \in {"wait", "settle"} => cvRows[cvCalls[c].key].job = cvCalls[c].job
    /\ cvCalls[c].pc = "settle" /\ cvCalls[c].seen = "SUCCEEDED" =>
          cvJobs[cvCalls[c].job].state = "SUCCEEDED"

AnswersFine ==
    \A a \in cvAnswers : cvJobs[a.job].key = a.key /\ cvJobs[a.job].state = "SUCCEEDED"

\* The active requests whose Job nobody has retried: these the limit bounds.
Unretried == {k \in Active : \A j \in 1..MaxConvJobs : cvJobs[j].key = k => ~cvJobs[j].retried}

ConversationsInv ==
    /\ ConversationsTypeOK
    /\ OneJobEach
    /\ \A k \in ConvKeys : RowFine(k)
    /\ \A c \in ConvCallers : CallFine(c)
    /\ AnswersFine
    /\ Cardinality(Unretried) <= MaxActive

----------------------------------------------------------------------------
(* Conversations: what is typed, and what is counted *)

ConvIds == 1..MaxConvJobs

LEMMA ConvTypes ==
    ASSUME ConversationsTypeOK
    PROVE  /\ \A k \in ConvKeys : cvRows[k] \in ConvRow /\ cvRows[k].job \in 0..MaxConvJobs
           /\ \A j \in ConvIds : cvJobs[j] \in ConvJobRow /\ cvJobs[j].key \in ConvKeys \cup {""}
           /\ \A c \in ConvCallers :
                 /\ cvCalls[c] \in ConvCallRow /\ cvCalls[c].key \in ConvKeys \cup {""}
                 /\ cvCalls[c].job \in 0..MaxConvJobs
           /\ DOMAIN cvJobs = ConvIds
<1>1. \A k \in ConvKeys : cvRows[k] \in ConvRow
    BY DEF ConversationsTypeOK
<1>2. \A r \in ConvRow : r.job \in 0..MaxConvJobs
    BY DEF ConvRow
<1>3. \A j \in ConvIds : cvJobs[j] \in ConvJobRow
    BY DEF ConversationsTypeOK, ConvIds
<1>4. \A r \in ConvJobRow : r.key \in ConvKeys \cup {""}
    BY DEF ConvJobRow
<1>5. \A c \in ConvCallers : cvCalls[c] \in ConvCallRow
    BY DEF ConversationsTypeOK
<1>6. \A r \in ConvCallRow : r.key \in ConvKeys \cup {""} /\ r.job \in 0..MaxConvJobs
    BY DEF ConvCallRow
<1>7. DOMAIN cvJobs = ConvIds
    BY DEF ConversationsTypeOK, ConvIds
<1> QED BY <1>1, <1>2, <1>3, <1>4, <1>5, <1>6, <1>7

LEMMA JobId ==
    ASSUME NEW n \in 0..MaxConvJobs, n # 0
    PROVE  n \in ConvIds
<1>1. MaxConvJobs \in Nat
    BY ConversationAssumption
<1> QED BY <1>1 DEF ConvIds

LEMMA IdNumber ==
    ASSUME NEW j \in ConvIds
    PROVE  j \in 0..MaxConvJobs /\ j # 0
<1>1. MaxConvJobs \in Nat
    BY ConversationAssumption
<1> QED BY <1>1 DEF ConvIds

\* The conjuncts, over ConvIds.
LEMMA ConvFacts ==
    ASSUME ConversationsInv
    PROVE  /\ \A i, j \in ConvIds :
                 cvJobs[i].key = cvJobs[j].key /\ cvJobs[i].key # "" => i = j
           /\ \A j \in ConvIds :
                 /\ cvJobs[j].key = "" => cvJobs[j] = NoConvJob
                 /\ cvJobs[j].key # "" =>
                       cvJobs[j].state # "none" /\ cvRows[cvJobs[j].key].state # "none"
           /\ \A k \in ConvKeys : RowFine(k)
           /\ \A c \in ConvCallers : CallFine(c)
           /\ AnswersFine
           /\ "" \notin ConvKeys
BY ConversationAssumption DEF ConversationsInv, OneJobEach, ConvIds

LEMMA ActiveIff ==
    ASSUME NEW k
    PROVE  k \in Active <=>
              /\ k \in ConvKeys
              /\ cvRows[k].job = 0 => cvRows[k].state = "PENDING"
              /\ cvRows[k].job # 0 => cvJobs[cvRows[k].job].state \notin ConvTerminal
BY DEF Active

LEMMA ActiveIffNext ==
    ASSUME NEW k
    PROVE  k \in Active' <=>
              /\ k \in ConvKeys
              /\ cvRows'[k].job = 0 => cvRows'[k].state = "PENDING"
              /\ cvRows'[k].job # 0 => cvJobs'[cvRows'[k].job].state \notin ConvTerminal
BY DEF Active

LEMMA UnretriedIff ==
    ASSUME NEW k
    PROVE  /\ k \in Unretried <=>
                 /\ k \in Active
                 /\ \A j \in ConvIds : cvJobs[j].key = k => ~cvJobs[j].retried
           /\ k \in Unretried' <=>
                 /\ k \in Active'
                 /\ \A j \in ConvIds : cvJobs'[j].key = k => ~cvJobs'[j].retried
BY DEF Unretried, ConvIds

LEMMA KeysFinite ==
    /\ IsFiniteSet(Active) /\ IsFiniteSet(Unretried) /\ IsFiniteSet(Unretried')
    /\ Cardinality(Unretried) <= Cardinality(Active)
    /\ Cardinality(Active) \in Nat /\ Cardinality(Unretried) \in Nat
    /\ Cardinality(Unretried') \in Nat
<1>1. Active \in SUBSET ConvKeys /\ Unretried \in SUBSET Active
    BY DEF Active, Unretried
<1>2. Unretried' \in SUBSET ConvKeys
    BY DEF Active, Unretried
<1>3. IsFiniteSet(ConvKeys)
    BY ConversationAssumption
<1>4. IsFiniteSet(Active) /\ IsFiniteSet(Unretried')
    BY <1>1, <1>2, <1>3, FS_Subset
<1>5. IsFiniteSet(Unretried) /\ Cardinality(Unretried) <= Cardinality(Active)
    BY <1>1, <1>4, FS_Subset
<1> QED BY <1>4, <1>5, FS_CardinalityType

LEMMA CountStays ==
    ASSUME ConversationsInv, Unretried' \subseteq Unretried
    PROVE  Cardinality(Unretried') <= MaxActive
<1>1. Cardinality(Unretried) <= MaxActive
    BY DEF ConversationsInv
<1>2. Cardinality(Unretried') <= Cardinality(Unretried)
    BY KeysFinite, FS_Subset
<1>3. Cardinality(Unretried) \in Nat /\ Cardinality(Unretried') \in Nat /\ MaxActive \in Nat
    BY KeysFinite, ConversationAssumption
<1> QED BY <1>1, <1>2, <1>3

----------------------------------------------------------------------------
(* Conversations: the steps *)

\* Only calls move.
LEMMA CallsStep ==
    ASSUME ConversationsInv, UNCHANGED <<cvRows, cvJobs, cvAnswers>>,
           cvCalls' \in [ConvCallers -> ConvCallRow],
           \A c \in ConvCallers : cvCalls'[c] = cvCalls[c] \/ cvCalls'[c].pc = "idle" \/ CallFine(c)'
    PROVE  ConversationsInv'
<1>1. ConversationsTypeOK'
    BY DEF ConversationsInv, ConversationsTypeOK
<1>2. OneJobEach'
    <2>1. OneJobEach /\ NoConvJob' = NoConvJob
        BY DEF ConversationsInv, NoConvJob
    <2> QED BY <2>1 DEF OneJobEach
<1>3. \A k \in ConvKeys : RowFine(k)'
    BY DEF ConversationsInv, RowFine
<1>4. ASSUME NEW c \in ConvCallers PROVE CallFine(c)'
    <2>1. CASE cvCalls'[c] = cvCalls[c]
        BY <2>1 DEF ConversationsInv, CallFine
    <2>2. CASE cvCalls'[c].pc = "idle"
        BY <2>2 DEF CallFine
    <2> QED BY <2>1, <2>2
<1>5. AnswersFine'
    BY DEF ConversationsInv, AnswersFine
<1>6. Unretried' = Unretried
    BY DEF Unretried, Active
<1>7. Cardinality(Unretried') <= MaxActive
    BY <1>6, CountStays
<1> QED BY <1>1, <1>2, <1>3, <1>4, <1>5, <1>7 DEF ConversationsInv

LEMMA IdleTyped == IdleCall \in ConvCallRow /\ IdleCall.pc = "idle"
<1>1. 0 \in 0..MaxConvJobs
    <2>1. MaxConvJobs \in Nat
        BY ConversationAssumption
    <2> QED BY <2>1
<1> QED BY <1>1 DEF IdleCall, ConvCallRow

\* One call moves to call r.
LEMMA CallStep ==
    ASSUME ConversationsInv, UNCHANGED <<cvRows, cvJobs, cvAnswers>>,
           NEW c \in ConvCallers, NEW r \in ConvCallRow, cvCalls' = [cvCalls EXCEPT ![c] = r],
           r.pc = "idle" \/ CallFine(c)'
    PROVE  ConversationsInv'
<1>1. cvCalls \in [ConvCallers -> ConvCallRow]
    BY DEF ConversationsInv, ConversationsTypeOK
<1>2. cvCalls' \in [ConvCallers -> ConvCallRow]
    BY <1>1
<1>3. \A b \in ConvCallers : cvCalls'[b] = IF b = c THEN r ELSE cvCalls[b]
    BY <1>1
<1> QED BY <1>2, <1>3, CallsStep

LEMMA LeaveStep ==
    ASSUME ConversationsInv, ServerStops \/ (\E c \in ConvCallers : CallEndsEarly(c))
    PROVE  ConversationsInv'
<1>1. CASE ServerStops
    <2>1. /\ UNCHANGED <<cvRows, cvJobs, cvAnswers>>
          /\ cvCalls' = [c \in ConvCallers |-> IdleCall]
        BY <1>1 DEF ServerStops
    <2>2. cvCalls' \in [ConvCallers -> ConvCallRow] /\ \A c \in ConvCallers : cvCalls'[c].pc = "idle"
        BY <2>1, IdleTyped
    <2> QED BY <2>1, <2>2, CallsStep
<1>2. ASSUME NEW c \in ConvCallers, CallEndsEarly(c)
      PROVE  ConversationsInv'
    BY <1>2, IdleTyped, CallStep DEF CallEndsEarly
<1> QED BY <1>1, <1>2

LEMMA ObserveStep ==
    ASSUME ConversationsInv, NEW c \in ConvCallers, NEW k \in ConvKeys, ObserveRequest(c, k)
    PROVE  ConversationsInv'
<1>1. PICK r : r = [pc |-> "wait", key |-> k, job |-> cvRows[k].job, seen |-> ""]
    OBVIOUS
<1>2. cvRows[k].job \in 0..MaxConvJobs /\ RowFine(k) /\ "" \notin ConvKeys
    BY ConvTypes, ConvFacts DEF ConversationsInv
<1>3. /\ r \in ConvCallRow /\ r.pc = "wait" /\ r.key = k /\ r.job = cvRows[k].job
    BY <1>1, <1>2 DEF ConvCallRow
<1>4. /\ cvCalls' = [cvCalls EXCEPT ![c] = r] /\ UNCHANGED <<cvRows, cvJobs, cvAnswers>>
      /\ cvRows[k].job # 0
    BY <1>1 DEF ObserveRequest
<1>5. cvCalls'[c] = r
    BY <1>4 DEF ConversationsInv, ConversationsTypeOK
<1>6. CallFine(c)'
    BY <1>2, <1>3, <1>4, <1>5 DEF CallFine, RowFine
<1> QED BY <1>3, <1>4, <1>6, CallStep

LEMMA SeeEndStep ==
    ASSUME ConversationsInv, NEW c \in ConvCallers, SeeJobEnd(c)
    PROVE  ConversationsInv'
<1>1. PICK s : s = cvJobs[cvCalls[c].job].state
    OBVIOUS
<1>2. PICK r : r = [cvCalls[c] EXCEPT !.pc = "settle", !.seen = s]
    OBVIOUS
<1>3. cvCalls[c] \in ConvCallRow /\ CallFine(c)
    BY ConvTypes, ConvFacts DEF ConversationsInv
<1>4. /\ UNCHANGED <<cvRows, cvJobs, cvAnswers>> /\ cvCalls[c].pc = "wait" /\ s \in ConvTerminal
      /\ cvCalls' = [cvCalls EXCEPT ![c].pc = "settle", ![c].seen = s]
    BY <1>1 DEF SeeJobEnd
<1>5. /\ r \in ConvCallRow /\ r.pc = "settle" /\ r.key = cvCalls[c].key /\ r.job = cvCalls[c].job
      /\ r.seen = s
    BY <1>2, <1>3, <1>4 DEF ConvCallRow
<1>6. cvCalls \in [ConvCallers -> ConvCallRow]
    BY DEF ConversationsInv, ConversationsTypeOK
<1>7. cvCalls' = [cvCalls EXCEPT ![c] = r] /\ cvCalls'[c] = r
    BY <1>2, <1>4, <1>6
<1>8. CallFine(c)'
    BY <1>1, <1>3, <1>4, <1>5, <1>7 DEF CallFine
<1> QED BY <1>4, <1>5, <1>7, <1>8, CallStep

\* A request is begun again, or for the first time.
LEMMA BeginStep ==
    ASSUME ConversationsInv, NEW c \in ConvCallers, NEW k \in ConvKeys, NEW body \in ConvBodies,
           BeginRequest(c, k, body)
    PROVE  ConversationsInv'
<1>1. PICK r : r = [IdleCall EXCEPT !.pc = "submit", !.key = k]
    OBVIOUS
<1>2. r \in ConvCallRow /\ r.pc = "submit" /\ r.key = k
    BY <1>1, IdleTyped DEF ConvCallRow
<1>3. /\ cvCalls' = [cvCalls EXCEPT ![c] = r] /\ UNCHANGED <<cvJobs, cvAnswers>>
    BY <1>1 DEF BeginRequest
<1>4. /\ cvCalls \in [ConvCallers -> ConvCallRow] /\ cvRows \in [ConvKeys -> ConvRow]
      /\ "" \notin ConvKeys /\ "" \notin ConvBodies
    BY ConversationAssumption DEF ConversationsInv, ConversationsTypeOK
<1>5. cvCalls'[c] = r /\ \A b \in ConvCallers : b # c => cvCalls'[b] = cvCalls[b]
    BY <1>3, <1>4
<1>6. CASE cvRows[k].hash = body /\ UNCHANGED cvRows
    <2>1. cvRows[k].state # "none"
        BY <1>4, <1>6, ConvFacts DEF RowFine
    <2>2. CallFine(c)'
        BY <1>2, <1>4, <1>5, <1>6, <2>1 DEF CallFine
    <2> QED BY <1>2, <1>3, <1>6, <2>2, CallStep
<1>7. CASE /\ cvRows[k].state = "none" /\ Cardinality(Active) < MaxActive
           /\ cvRows' = [cvRows EXCEPT ![k] = [hash |-> body, state |-> "PENDING", job |-> 0]]
    <2>1. PICK x : x = [hash |-> body, state |-> "PENDING", job |-> 0]
        OBVIOUS
    <2>2. x \in ConvRow /\ x.hash = body /\ x.state = "PENDING" /\ x.job = 0
        <3>1. 0 \in 0..MaxConvJobs
            BY IdleTyped DEF IdleCall, ConvCallRow
        <3> QED BY <2>1, <3>1 DEF ConvRow
    <2>3. /\ cvRows' \in [ConvKeys -> ConvRow] /\ cvRows'[k] = x
          /\ \A h \in ConvKeys : h # k => cvRows'[h] = cvRows[h]
        BY <1>4, <1>7, <2>1, <2>2
    <2>4. ConversationsTypeOK'
        BY <1>2, <1>3, <1>4, <2>3 DEF ConversationsInv, ConversationsTypeOK
    <2>5. \A j \in ConvIds : cvJobs[j].key # k
        BY <1>4, <1>7, ConvFacts
    <2>6. OneJobEach'
        <3>1. \A j \in ConvIds : cvJobs[j].key # "" =>
                 cvJobs[j].state # "none" /\ cvRows'[cvJobs[j].key].state # "none"
            BY <2>3, <2>5, ConvFacts, ConvTypes DEF ConversationsInv
        <3>2. OneJobEach /\ NoConvJob' = NoConvJob
            BY DEF ConversationsInv, NoConvJob
        <3> QED BY <1>3, <3>1, <3>2 DEF OneJobEach, ConvIds
    <2>7. ASSUME NEW h \in ConvKeys PROVE RowFine(h)'
        <3>1. CASE h = k
            BY <2>2, <2>3, <3>1 DEF RowFine
        <3>2. CASE h # k
            BY <1>3, <2>3, <3>2, ConvFacts DEF RowFine
        <3> QED BY <3>1, <3>2
    <2>8. ASSUME NEW b \in ConvCallers PROVE CallFine(b)'
        <3>1. CASE b = c
            BY <1>2, <1>4, <1>5, <2>2, <2>3, <3>1 DEF CallFine
        <3>2. CASE b # c
            <4>1. CallFine(b) /\ cvCalls[b].key \in ConvKeys \cup {""} /\ cvCalls'[b] = cvCalls[b]
                BY <1>5, <3>2, ConvFacts, ConvTypes DEF ConversationsInv
            <4>2. CASE cvCalls[b].pc = "idle"
                BY <4>1, <4>2 DEF CallFine
            <4>3. CASE cvCalls[b].pc # "idle"
                <5>1. cvCalls[b].key # k /\ cvCalls[b].key \in ConvKeys
                    BY <1>7, <4>1, <4>3 DEF CallFine
                <5>2. cvRows'[cvCalls[b].key] = cvRows[cvCalls[b].key]
                    BY <2>3, <5>1
                <5> QED BY <1>3, <4>1, <5>2 DEF CallFine
            <4> QED BY <4>2, <4>3
        <3> QED BY <3>1, <3>2
    <2>9. AnswersFine'
        BY <1>3 DEF ConversationsInv, AnswersFine
    <2>10. Cardinality(Unretried') <= MaxActive
        <3>1. Unretried' \in SUBSET (Unretried \cup {k})
            <4>1. ASSUME NEW h \in Unretried', h # k PROVE h \in Unretried
                <5>1. h \in ConvKeys
                    BY <4>1, UnretriedIff, ActiveIffNext
                <5>2. cvRows'[h] = cvRows[h] /\ cvJobs' = cvJobs
                    BY <1>3, <2>3, <4>1, <5>1
                <5> QED BY <4>1, <5>2, UnretriedIff, ActiveIff, ActiveIffNext
            <4> QED BY <4>1
        <3>2. IsFiniteSet(Unretried) /\ Cardinality(Unretried) \in Nat
            BY KeysFinite
        <3>3. /\ IsFiniteSet(Unretried \cup {k}) /\ Cardinality(Unretried \cup {k}) \in Nat
              /\ Cardinality(Unretried \cup {k}) <= Cardinality(Unretried) + 1
            <4>1. /\ IsFiniteSet(Unretried \cup {k})
                  /\ Cardinality(Unretried \cup {k}) =
                        IF k \in Unretried THEN Cardinality(Unretried) ELSE Cardinality(Unretried) + 1
                BY <3>2, FS_AddElement
            <4> QED BY <3>2, <4>1
        <3>4. Cardinality(Unretried') <= Cardinality(Unretried \cup {k})
            BY <3>1, <3>3, FS_Subset
        <3>5. /\ Cardinality(Unretried) <= Cardinality(Active) /\ Cardinality(Active) < MaxActive
              /\ Cardinality(Active) \in Nat /\ Cardinality(Unretried') \in Nat /\ MaxActive \in Nat
            BY <1>7, KeysFinite, ConversationAssumption
        <3> QED BY <3>2, <3>3, <3>4, <3>5
    <2> QED BY <2>4, <2>6, <2>7, <2>8, <2>9, <2>10 DEF ConversationsInv
<1> QED BY <1>6, <1>7 DEF BeginRequest

\* A Job changes its state.
LEMMA JobMoves ==
    ASSUME ConversationsInv, UNCHANGED <<cvRows, cvCalls, cvAnswers>>,
           NEW j \in ConvIds, NEW r \in ConvJobRow, cvJobs' = [cvJobs EXCEPT ![j] = r],
           r.key = cvJobs[j].key, r.state # "none", cvJobs[j].state \notin {"none", "SUCCEEDED"},
           \/ r.retried
           \/ /\ cvJobs[j].retried => r.retried
              /\ cvJobs[j].state \in ConvTerminal => r.state \in ConvTerminal
    PROVE  ConversationsInv'
<1>1. cvJobs \in [ConvIds -> ConvJobRow]
    BY DEF ConversationsInv, ConversationsTypeOK, ConvIds
<1>2. /\ cvJobs' \in [ConvIds -> ConvJobRow] /\ cvJobs'[j] = r
      /\ \A i \in ConvIds : i # j => cvJobs'[i] = cvJobs[i]
      /\ \A i \in ConvIds : cvJobs'[i].key = cvJobs[i].key
    BY <1>1
<1>3. NoConvJob.state = "none" /\ NoConvJob' = NoConvJob
    BY DEF NoConvJob
<1>4. cvJobs[j].key # ""
    BY <1>3, ConvFacts
<1>5. ConversationsTypeOK'
    BY <1>2 DEF ConversationsInv, ConversationsTypeOK, ConvIds
<1>6. OneJobEach'
    <2>1. \A i \in ConvIds :
             /\ cvJobs'[i].key = "" => cvJobs'[i] = NoConvJob
             /\ cvJobs'[i].key # "" =>
                   cvJobs'[i].state # "none" /\ cvRows'[cvJobs'[i].key].state # "none"
        <3> SUFFICES ASSUME NEW i \in ConvIds
                     PROVE  /\ cvJobs'[i].key = "" => cvJobs'[i] = NoConvJob
                            /\ cvJobs'[i].key # "" =>
                                  cvJobs'[i].state # "none" /\ cvRows'[cvJobs'[i].key].state # "none"
            OBVIOUS
        <3>1. /\ cvJobs[i].key = "" => cvJobs[i] = NoConvJob
              /\ cvJobs[i].key # "" => cvJobs[i].state # "none" /\ cvRows[cvJobs[i].key].state # "none"
            BY ConvFacts
        <3>2. cvJobs'[i].key = cvJobs[i].key /\ cvRows' = cvRows
            BY <1>2
        <3>3. CASE i = j
            BY <1>2, <1>4, <3>1, <3>2, <3>3
        <3>4. CASE i # j
            <4>1. cvJobs'[i] = cvJobs[i]
                BY <1>2, <3>4
            <4> QED BY <3>1, <3>2, <4>1
        <3> QED BY <3>3, <3>4
    <2>2. \A i, h \in ConvIds : cvJobs'[i].key = cvJobs'[h].key /\ cvJobs'[i].key # "" => i = h
        <3>1. \A i, h \in ConvIds : cvJobs[i].key = cvJobs[h].key /\ cvJobs[i].key # "" => i = h
            BY ConvFacts
        <3>2. \A i \in ConvIds : cvJobs'[i].key = cvJobs[i].key
            BY <1>2
        <3> QED BY ZenonT(60), <3>1, <3>2
    <2> QED BY <1>3, <2>1, <2>2 DEF OneJobEach, ConvIds
<1>7. ASSUME NEW k \in ConvKeys PROVE RowFine(k)'
    <2>1. RowFine(k) /\ (cvRows[k].job # 0 => cvRows[k].job \in ConvIds)
        BY ConvFacts, ConvTypes, JobId DEF ConversationsInv
    <2> QED BY <1>2, <2>1 DEF RowFine
<1>8. ASSUME NEW c \in ConvCallers PROVE CallFine(c)'
    <2>1. CallFine(c) /\ (cvCalls[c].job # 0 => cvCalls[c].job \in ConvIds)
        BY ConvFacts, ConvTypes, JobId DEF ConversationsInv
    <2>2. cvCalls[c].pc = "settle" /\ cvCalls[c].seen = "SUCCEEDED" => cvCalls[c].job # j
        BY <2>1 DEF CallFine
    <2> QED BY <1>2, <2>1, <2>2 DEF CallFine
<1>9. AnswersFine'
    <2>1. \A a \in cvAnswers : a.job \in ConvIds
        BY DEF ConversationsInv, ConversationsTypeOK, ConvIds
    <2>2. \A a \in cvAnswers : a.job # j
        BY ConvFacts DEF AnswersFine
    <2> QED BY <1>2, <2>1, <2>2, ConvFacts DEF AnswersFine
<1>10. ASSUME NEW k \in Unretried' PROVE k \in Unretried
    <2>1. k \in ConvKeys /\ \A i \in ConvIds : cvJobs'[i].key = k => ~cvJobs'[i].retried
        BY UnretriedIff, ActiveIffNext
    <2>2. RowFine(k) /\ (cvRows[k].job # 0 => cvRows[k].job \in ConvIds)
        BY <2>1, ConvFacts, ConvTypes, JobId DEF ConversationsInv
    <2>3. cvJobs[j].key = k => ~r.retried
        BY <1>2, <2>1
    <2>4. \A i \in ConvIds : cvJobs[i].key = k => ~cvJobs[i].retried
        BY <1>2, <2>1, <2>3
    <2>5. k \in Active
        <3>1. /\ cvRows[k].job = 0 => cvRows[k].state = "PENDING"
              /\ cvRows[k].job # 0 => cvJobs'[cvRows[k].job].state \notin ConvTerminal
            BY UnretriedIff, ActiveIffNext
        <3>2. CASE cvRows[k].job = 0
            BY <2>1, <3>1, <3>2, ActiveIff
        <3>3. CASE cvRows[k].job # 0
            <4>1. cvRows[k].job = j => ~r.retried
                BY <2>2, <2>3, <3>3 DEF RowFine
            <4>2. cvJobs[cvRows[k].job].state \notin ConvTerminal
                BY <1>2, <2>2, <3>1, <3>3, <4>1
            <4> QED BY <2>1, <3>3, <4>2, ActiveIff
        <3> QED BY <3>2, <3>3
    <2> QED BY <2>4, <2>5, UnretriedIff
<1>11. Cardinality(Unretried') <= MaxActive
    BY <1>10, CountStays
<1> QED BY <1>5, <1>6, <1>7, <1>8, <1>9, <1>11 DEF ConversationsInv

LEMMA JobsMove ==
    ASSUME ConversationsInv,
           \/ \E k \in ConvKeys : CancelRequest(k)
           \/ \E j \in DOMAIN cvJobs : JobEnds(j) \/ JobRetried(j)
    PROVE  ConversationsInv'
<1>1. DOMAIN cvJobs = ConvIds /\ cvJobs \in [ConvIds -> ConvJobRow]
    BY ConvTypes DEF ConversationsInv, ConversationsTypeOK, ConvIds
<1>2. ASSUME NEW k \in ConvKeys, CancelRequest(k)
      PROVE  ConversationsInv'
    <2>1. PICK j : j = cvRows[k].job
        OBVIOUS
    <2>2. j \in ConvIds
        BY <1>2, <2>1, ConvTypes, JobId DEF CancelRequest, ConversationsInv
    <2>3. PICK r : r = [cvJobs[j] EXCEPT !.state = "CANCELING"]
        OBVIOUS
    <2>4. /\ r \in ConvJobRow /\ r.key = cvJobs[j].key /\ r.state = "CANCELING"
          /\ r.retried = cvJobs[j].retried
        BY <1>1, <2>2, <2>3 DEF ConvJobRow
    <2>5. /\ UNCHANGED <<cvRows, cvCalls, cvAnswers>> /\ cvJobs[j].state = "QUEUED"
          /\ cvJobs' = [cvJobs EXCEPT ![j] = r]
        BY <1>1, <1>2, <2>1, <2>2, <2>3 DEF CancelRequest
    <2> QED BY <2>2, <2>4, <2>5, JobMoves DEF ConvTerminal
<1>3. ASSUME NEW j \in ConvIds, JobEnds(j)
      PROVE  ConversationsInv'
    <2>1. PICK end \in ConvTerminal : cvJobs' = [cvJobs EXCEPT ![j].state = end]
        BY <1>3 DEF JobEnds, ConvTerminal
    <2>2. PICK r : r = [cvJobs[j] EXCEPT !.state = end]
        OBVIOUS
    <2>3. /\ r \in ConvJobRow /\ r.key = cvJobs[j].key /\ r.state = end
          /\ r.retried = cvJobs[j].retried
        BY <1>1, <1>3, <2>2 DEF ConvJobRow
    <2>4. /\ UNCHANGED <<cvRows, cvCalls, cvAnswers>>
          /\ cvJobs[j].state \in {"QUEUED", "CANCELING"}
          /\ cvJobs' = [cvJobs EXCEPT ![j] = r]
        BY <1>1, <1>3, <2>1, <2>2 DEF JobEnds
    <2>5. end # "none"
        BY DEF ConvTerminal
    <2> QED BY <1>3, <2>3, <2>4, <2>5, JobMoves
<1>4. ASSUME NEW j \in ConvIds, JobRetried(j)
      PROVE  ConversationsInv'
    <2>1. PICK r : r = [cvJobs[j] EXCEPT !.state = "QUEUED", !.retried = TRUE]
        OBVIOUS
    <2>2. r \in ConvJobRow /\ r.key = cvJobs[j].key /\ r.state = "QUEUED" /\ r.retried = TRUE
        BY <1>1, <1>4, <2>1 DEF ConvJobRow
    <2>3. /\ UNCHANGED <<cvRows, cvCalls, cvAnswers>> /\ cvJobs[j].state = "FAILED"
          /\ cvJobs' = [cvJobs EXCEPT ![j] = r]
        BY <1>1, <1>4, <2>1 DEF JobRetried
    <2> QED BY <1>4, <2>2, <2>3, JobMoves
<1> QED BY <1>1, <1>2, <1>3, <1>4

\* SubmitJob finds the Job of the request, or makes it.
LEMMA SubmitStep ==
    ASSUME ConversationsInv, NEW c \in ConvCallers, SubmitConversationJob(c)
    PROVE  ConversationsInv'
<1>1. /\ DOMAIN cvJobs = ConvIds /\ cvJobs \in [ConvIds -> ConvJobRow]
      /\ cvCalls \in [ConvCallers -> ConvCallRow]
    BY ConvTypes DEF ConversationsInv, ConversationsTypeOK, ConvIds
<1>2. PICK K : K = cvCalls[c].key
    OBVIOUS
<1>3. PICK j \in ConvIds :
         /\ \/ cvJobs[j].key = K /\ UNCHANGED cvJobs
            \/ /\ \A i \in ConvIds : cvJobs[i].key # K
               /\ cvJobs[j] = NoConvJob
               /\ cvJobs' = [cvJobs EXCEPT ![j] = [NoConvJob EXCEPT !.key = K, !.state = "QUEUED"]]
         /\ cvCalls' = [cvCalls EXCEPT ![c].pc = "bind", ![c].job = j]
    BY <1>1, <1>2 DEF SubmitConversationJob, JobsOf
<1>4. cvCalls[c].pc = "submit" /\ UNCHANGED <<cvRows, cvAnswers>>
    BY DEF SubmitConversationJob
<1>5. CallFine(c) /\ cvCalls[c] \in ConvCallRow /\ K \in ConvKeys \cup {""}
    BY <1>1, <1>2, ConvFacts, ConvTypes DEF ConversationsInv
<1>6. K \in ConvKeys /\ K # "" /\ cvRows[K].state # "none"
    BY <1>2, <1>4, <1>5 DEF CallFine
<1>7. PICK x : x = [cvCalls[c] EXCEPT !.pc = "bind", !.job = j]
    OBVIOUS
<1>8. x \in ConvCallRow /\ x.pc = "bind" /\ x.key = K /\ x.job = j /\ j # 0
    BY <1>2, <1>5, <1>7, IdNumber DEF ConvCallRow
<1>9. cvCalls' = [cvCalls EXCEPT ![c] = x] /\ cvCalls'[c] = x
    BY <1>1, <1>3, <1>7
<1>10. CASE cvJobs[j].key = K /\ UNCHANGED cvJobs
    <2>1. CallFine(c)'
        BY <1>4, <1>6, <1>8, <1>9, <1>10 DEF CallFine
    <2> QED BY <1>4, <1>8, <1>9, <1>10, <2>1, CallStep
<1>11. CASE /\ \A i \in ConvIds : cvJobs[i].key # K
            /\ cvJobs[j] = NoConvJob
            /\ cvJobs' = [cvJobs EXCEPT ![j] = [NoConvJob EXCEPT !.key = K, !.state = "QUEUED"]]
    <2>1. PICK r : r = [NoConvJob EXCEPT !.key = K, !.state = "QUEUED"]
        OBVIOUS
    <2>2. r \in ConvJobRow /\ r.key = K /\ r.state = "QUEUED" /\ r.retried = FALSE
        <3>1. NoConvJob \in ConvJobRow /\ NoConvJob.retried = FALSE
            BY DEF NoConvJob, ConvJobRow
        <3> QED BY <1>6, <2>1, <3>1 DEF ConvJobRow
    <2>3. cvJobs[j].key = "" /\ NoConvJob' = NoConvJob
        <3>1. NoConvJob.key = "" /\ NoConvJob' = NoConvJob
            BY DEF NoConvJob
        <3> QED BY <1>11, <3>1
    <2>4. /\ cvJobs' \in [ConvIds -> ConvJobRow] /\ cvJobs'[j] = r
          /\ \A i \in ConvIds : i # j => cvJobs'[i] = cvJobs[i]
        BY <1>1, <1>11, <2>1, <2>2
    <2>5. ConversationsTypeOK'
        BY <1>1, <1>4, <1>8, <1>9, <2>4 DEF ConversationsInv, ConversationsTypeOK, ConvIds
    <2>6. OneJobEach'
        <3>1. \A i \in ConvIds :
                 /\ cvJobs'[i].key = "" => cvJobs'[i] = NoConvJob
                 /\ cvJobs'[i].key # "" =>
                       cvJobs'[i].state # "none" /\ cvRows'[cvJobs'[i].key].state # "none"
            BY <1>4, <1>6, <2>2, <2>4, ConvFacts
        <3>2. ASSUME NEW i \in ConvIds, NEW h \in ConvIds,
                     cvJobs'[i].key = cvJobs'[h].key, cvJobs'[i].key # ""
              PROVE  i = h
            <4>1. CASE i = j \/ h = j
                BY <1>11, <2>2, <2>4, <3>2, <4>1
            <4>2. CASE i # j /\ h # j
                BY <2>4, <3>2, <4>2, ConvFacts
            <4> QED BY <4>1, <4>2
        <3> QED BY <2>3, <3>1, <3>2 DEF OneJobEach, ConvIds
    <2>7. ASSUME NEW k \in ConvKeys PROVE RowFine(k)'
        <3>1. RowFine(k) /\ (cvRows[k].job # 0 => cvRows[k].job \in ConvIds) /\ k # ""
            BY ConvFacts, ConvTypes, JobId DEF ConversationsInv
        <3>2. cvRows[k].job # 0 => cvRows[k].job # j
            BY <2>3, <3>1 DEF RowFine
        <3> QED BY <1>4, <2>4, <3>1, <3>2 DEF RowFine
    <2>8. ASSUME NEW b \in ConvCallers PROVE CallFine(b)'
        <3>1. CASE b = c
            BY <1>4, <1>6, <1>8, <1>9, <2>2, <2>4, <3>1 DEF CallFine
        <3>2. CASE b # c
            <4>1. /\ CallFine(b) /\ (cvCalls[b].job # 0 => cvCalls[b].job \in ConvIds)
                  /\ cvCalls'[b] = cvCalls[b]
                BY <1>1, <1>9, <3>2, ConvFacts, ConvTypes, JobId DEF ConversationsInv
            <4>2. CASE cvCalls[b].pc \in {"bind", "wait", "settle"}
                <5>1. cvCalls[b].job # 0 /\ cvCalls[b].job # j
                    BY <2>3, <4>1, <4>2 DEF CallFine
                <5>2. cvJobs'[cvCalls[b].job] = cvJobs[cvCalls[b].job]
                    BY <2>4, <4>1, <5>1
                <5> QED BY <1>4, <4>1, <5>2 DEF CallFine
            <4>3. CASE cvCalls[b].pc \notin {"bind", "wait", "settle"}
                BY <1>4, <4>1, <4>3 DEF CallFine
            <4> QED BY <4>2, <4>3
        <3> QED BY <3>1, <3>2
    <2>9. AnswersFine'
        <3>1. \A a \in cvAnswers : a.job \in ConvIds /\ a.key # ""
            BY ConvFacts DEF ConversationsInv, ConversationsTypeOK, ConvIds
        <3>2. \A a \in cvAnswers : cvJobs[a.job].key = a.key /\ cvJobs[a.job].state = "SUCCEEDED"
            BY ConvFacts DEF AnswersFine
        <3>3. ASSUME NEW a \in cvAnswers PROVE a.job # j
            <4>1. a.key # "" /\ cvJobs[a.job].key = a.key
                BY <3>1, <3>2
            <4> QED BY <2>3, <4>1
        <3> QED BY <1>4, <2>4, <3>1, <3>2, <3>3 DEF AnswersFine
    <2>10. ASSUME NEW k \in Unretried' PROVE k \in Unretried
        <3>1. k \in ConvKeys /\ \A i \in ConvIds : cvJobs'[i].key = k => ~cvJobs'[i].retried
            BY UnretriedIff, ActiveIffNext
        <3>2. RowFine(k) /\ (cvRows[k].job # 0 => cvRows[k].job \in ConvIds) /\ k # ""
            BY <3>1, ConvFacts, ConvTypes, JobId DEF ConversationsInv
        <3>3. cvRows[k].job # 0 => cvRows[k].job # j
            BY <2>3, <3>2 DEF RowFine
        <3>4. k \in Active
            BY <1>4, <2>4, <3>1, <3>2, <3>3, UnretriedIff, ActiveIff, ActiveIffNext
        <3>5. \A i \in ConvIds : cvJobs[i].key = k => ~cvJobs[i].retried
            BY <2>3, <2>4, <3>1, <3>2
        <3> QED BY <3>4, <3>5, UnretriedIff
    <2>11. Cardinality(Unretried') <= MaxActive
        BY <2>10, CountStays
    <2> QED BY <2>5, <2>6, <2>7, <2>8, <2>9, <2>11 DEF ConversationsInv
<1> QED BY <1>3, <1>10, <1>11

\* The row of a request changes; its Job stays, or is now the one it has.
LEMMA RowMoves ==
    ASSUME ConversationsInv, UNCHANGED cvJobs,
           NEW c \in ConvCallers, NEW x \in ConvCallRow, cvCalls' = [cvCalls EXCEPT ![c] = x],
           NEW k \in ConvKeys, NEW r \in ConvRow, cvRows' = [cvRows EXCEPT ![k] = r],
           cvRows[k].state # "none", r.state # "none", r.job \in ConvIds, cvJobs[r.job].key = k,
           x.pc = "idle" \/ (x.pc = "wait" /\ x.key = k /\ x.job = r.job),
           AnswersFine', cvAnswers' \subseteq [key : ConvKeys, job : 1..MaxConvJobs]
    PROVE  ConversationsInv'
<1>1. /\ cvRows \in [ConvKeys -> ConvRow] /\ cvCalls \in [ConvCallers -> ConvCallRow]
      /\ "" \notin ConvKeys
    BY ConversationAssumption DEF ConversationsInv, ConversationsTypeOK
<1>2. /\ cvRows' \in [ConvKeys -> ConvRow] /\ cvRows'[k] = r
      /\ \A h \in ConvKeys : h # k => cvRows'[h] = cvRows[h]
      /\ cvCalls' \in [ConvCallers -> ConvCallRow] /\ cvCalls'[c] = x
      /\ \A b \in ConvCallers : b # c => cvCalls'[b] = cvCalls[b]
    BY <1>1
<1>3. r.job # 0
    BY IdNumber
<1>4. cvRows[k].job # 0 => cvRows[k].job = r.job
    <2>1. RowFine(k) /\ (cvRows[k].job # 0 => cvRows[k].job \in ConvIds)
        BY ConvFacts, ConvTypes, JobId DEF ConversationsInv
    <2> QED BY <1>1, <2>1, ConvFacts DEF RowFine
<1>5. ConversationsTypeOK'
    BY <1>2 DEF ConversationsInv, ConversationsTypeOK
<1>6. OneJobEach'
    <2>1. OneJobEach /\ NoConvJob' = NoConvJob
        BY DEF ConversationsInv, NoConvJob
    <2>2. \A j \in ConvIds : cvJobs[j].key # "" => cvRows'[cvJobs[j].key].state # "none"
        BY <1>2, ConvFacts, ConvTypes DEF ConversationsInv
    <2> QED BY <2>1, <2>2 DEF OneJobEach, ConvIds
<1>7. ASSUME NEW h \in ConvKeys PROVE RowFine(h)'
    <2>1. CASE h = k
        BY <1>2, <1>3, <2>1 DEF RowFine
    <2>2. CASE h # k
        BY <1>2, <2>2, ConvFacts DEF RowFine
    <2> QED BY <2>1, <2>2
<1>8. ASSUME NEW b \in ConvCallers PROVE CallFine(b)'
    <2>1. CASE b = c
        BY <1>1, <1>2, <1>3, <2>1 DEF CallFine
    <2>2. CASE b # c
        <3>1. /\ CallFine(b) /\ cvCalls'[b] = cvCalls[b] /\ cvCalls[b].key \in ConvKeys \cup {""}
              /\ (cvCalls[b].job # 0 => cvCalls[b].job \in ConvIds)
            BY <1>2, <2>2, ConvFacts, ConvTypes, JobId DEF ConversationsInv
        <3>2. CASE cvCalls[b].key = k
            <4>1. cvCalls[b].pc \in {"bind", "wait", "settle"} => cvCalls[b].job = r.job
                BY <1>1, <3>1, <3>2, ConvFacts DEF CallFine
            <4> QED BY <1>1, <1>2, <3>1, <3>2, <4>1 DEF CallFine
        <3>3. CASE cvCalls[b].key # k
            <4>1. cvCalls[b].pc # "idle" => cvRows'[cvCalls[b].key] = cvRows[cvCalls[b].key]
                BY <1>2, <3>1, <3>3 DEF CallFine
            <4> QED BY <3>1, <4>1 DEF CallFine
        <3> QED BY <3>2, <3>3
    <2> QED BY <2>1, <2>2
<1>9. ASSUME NEW h \in Unretried' PROVE h \in Unretried
    <2>1. h \in ConvKeys /\ \A i \in ConvIds : cvJobs[i].key = h => ~cvJobs[i].retried
        BY UnretriedIff, ActiveIffNext
    <2>2. /\ cvRows'[h].job = 0 => cvRows'[h].state = "PENDING"
          /\ cvRows'[h].job # 0 => cvJobs[cvRows'[h].job].state \notin ConvTerminal
        BY UnretriedIff, ActiveIffNext
    <2>3. CASE h = k
        <3>1. cvRows[k].job = 0 => cvRows[k].state = "PENDING"
            BY ConvFacts DEF RowFine
        <3> QED BY <1>2, <1>3, <1>4, <2>1, <2>2, <2>3, <3>1, UnretriedIff, ActiveIff
    <2>4. CASE h # k
        BY <1>2, <2>1, <2>2, <2>4, UnretriedIff, ActiveIff
    <2> QED BY <2>3, <2>4
<1>10. Cardinality(Unretried') <= MaxActive
    BY <1>9, CountStays
<1> QED BY <1>5, <1>6, <1>7, <1>8, <1>10 DEF ConversationsInv

LEMMA BindStep ==
    ASSUME ConversationsInv, NEW c \in ConvCallers, BindConversationJob(c)
    PROVE  ConversationsInv'
<1>1. PICK k : k = cvCalls[c].key
    OBVIOUS
<1>2. PICK x : x = [cvCalls[c] EXCEPT !.pc = "wait"]
    OBVIOUS
<1>3. /\ cvCalls[c].pc = "bind" /\ UNCHANGED <<cvJobs, cvAnswers>>
      /\ cvRows' = [cvRows EXCEPT ![k].job = cvCalls[c].job, ![k].state = "SUBMITTED"]
      /\ cvCalls' = [cvCalls EXCEPT ![c].pc = "wait"]
    BY <1>1 DEF BindConversationJob
<1>4. /\ CallFine(c) /\ cvCalls[c] \in ConvCallRow /\ k \in ConvKeys \cup {""}
      /\ cvCalls[c].job \in 0..MaxConvJobs
    BY <1>1, ConvFacts, ConvTypes DEF ConversationsInv
<1>5. k \in ConvKeys /\ cvRows[k].state # "none" /\ cvCalls[c].job # 0 /\ cvJobs[cvCalls[c].job].key = k
    BY <1>1, <1>3, <1>4 DEF CallFine
<1>6. cvCalls[c].job \in ConvIds
    BY <1>4, <1>5, JobId
<1>7. PICK r : r = [cvRows[k] EXCEPT !.job = cvCalls[c].job, !.state = "SUBMITTED"]
    OBVIOUS
<1>8. r \in ConvRow /\ r.job = cvCalls[c].job /\ r.state = "SUBMITTED"
    <2>1. cvRows[k] \in ConvRow
        BY <1>5, ConvTypes DEF ConversationsInv
    <2> QED BY <1>4, <1>7, <2>1 DEF ConvRow
<1>9. x \in ConvCallRow /\ x.pc = "wait" /\ x.key = k /\ x.job = r.job
    BY <1>1, <1>2, <1>4, <1>8 DEF ConvCallRow
<1>10. cvRows' = [cvRows EXCEPT ![k] = r] /\ cvCalls' = [cvCalls EXCEPT ![c] = x]
    BY <1>2, <1>3, <1>5, <1>7 DEF ConversationsInv, ConversationsTypeOK
<1>11. AnswersFine' /\ cvAnswers' \subseteq [key : ConvKeys, job : 1..MaxConvJobs]
    BY <1>3 DEF ConversationsInv, ConversationsTypeOK, AnswersFine
<1>12. r.state # "none" /\ r.job \in ConvIds /\ cvJobs[r.job].key = k
    BY <1>5, <1>6, <1>8
<1> QED BY <1>3, <1>5, <1>8, <1>9, <1>10, <1>11, <1>12, RowMoves

LEMMA RequestStateTyped ==
    ASSUME NEW seen
    PROVE  RequestState(seen) \in {"COMPLETED", "CANCELLED", "FAILED"}
<1>1. CASE seen = "SUCCEEDED"
    BY <1>1, Zenon DEF RequestState
<1>2. CASE seen = "CANCELED"
    BY <1>2, Zenon DEF RequestState
<1>3. CASE seen # "SUCCEEDED" /\ seen # "CANCELED"
    BY <1>3, Zenon DEF RequestState
<1> QED BY <1>1, <1>2, <1>3

LEMMA SettleStep ==
    ASSUME ConversationsInv, NEW c \in ConvCallers, SettleRequest(c)
    PROVE  ConversationsInv'
<1>1. PICK k : k = cvCalls[c].key
    OBVIOUS
<1>2. PICK s : s = RequestState(cvCalls[c].seen)
    OBVIOUS
<1>3. /\ cvCalls[c].pc = "settle" /\ UNCHANGED cvJobs
      /\ cvRows' = [cvRows EXCEPT ![k].state = s]
      /\ cvCalls' = [cvCalls EXCEPT ![c] = IdleCall]
    BY <1>1, <1>2 DEF SettleRequest
<1>4. /\ CallFine(c) /\ k \in ConvKeys \cup {""} /\ cvCalls[c].job \in 0..MaxConvJobs
    BY <1>1, ConvFacts, ConvTypes DEF ConversationsInv
<1>5. /\ k \in ConvKeys /\ cvRows[k].state # "none" /\ cvCalls[c].job # 0
      /\ cvJobs[cvCalls[c].job].key = k /\ cvRows[k].job = cvCalls[c].job
    BY <1>1, <1>3, <1>4 DEF CallFine
<1>6. cvCalls[c].job \in ConvIds
    BY <1>4, <1>5, JobId
<1>7. PICK r : r = [cvRows[k] EXCEPT !.state = s]
    OBVIOUS
<1>8. s \in {"COMPLETED", "CANCELLED", "FAILED"}
    BY <1>2, RequestStateTyped
<1>9. r \in ConvRow /\ r.job = cvCalls[c].job /\ r.state = s
    <2>1. cvRows[k] \in ConvRow
        BY <1>5, ConvTypes DEF ConversationsInv
    <2> QED BY <1>5, <1>7, <1>8, <2>1 DEF ConvRow
<1>10. cvRows' = [cvRows EXCEPT ![k] = r]
    BY <1>3, <1>5, <1>7 DEF ConversationsInv, ConversationsTypeOK
<1>11. PICK a : a = [key |-> k, job |-> cvCalls[c].job]
    OBVIOUS
<1>12. a \in [key : ConvKeys, job : 1..MaxConvJobs] /\ a.key = k /\ a.job = cvCalls[c].job
    BY <1>5, <1>6, <1>11 DEF ConvIds
<1>13. cvAnswers' = cvAnswers \/ (cvAnswers' = cvAnswers \cup {a} /\ cvCalls[c].seen = "SUCCEEDED")
    BY <1>1, <1>11 DEF SettleRequest
<1>14. cvCalls[c].seen = "SUCCEEDED" => cvJobs[cvCalls[c].job].state = "SUCCEEDED"
    BY <1>3, <1>4 DEF CallFine
<1>15. cvAnswers' \subseteq [key : ConvKeys, job : 1..MaxConvJobs]
    BY <1>12, <1>13 DEF ConversationsInv, ConversationsTypeOK
<1>16. AnswersFine'
    <2>1. \A b \in cvAnswers : cvJobs[b.job].key = b.key /\ cvJobs[b.job].state = "SUCCEEDED"
        BY ConvFacts DEF AnswersFine
    <2> QED BY <1>3, <1>5, <1>12, <1>13, <1>14, <2>1 DEF AnswersFine
<1>17. r.state # "none" /\ r.job \in ConvIds /\ cvJobs[r.job].key = k
    BY <1>5, <1>6, <1>8, <1>9
<1> QED BY <1>3, <1>5, <1>9, <1>10, <1>15, <1>16, <1>17, IdleTyped, RowMoves

----------------------------------------------------------------------------
(* Conversations: the theorems *)

LEMMA ConversationsInvInit ==
    ASSUME ConversationsInit
    PROVE  ConversationsInv
<1>1. NoRequestRow \in ConvRow /\ NoRequestRow.job = 0 /\ NoRequestRow.state = "none"
      /\ NoRequestRow.hash = ""
    <2>1. 0 \in 0..MaxConvJobs
        BY IdleTyped DEF IdleCall, ConvCallRow
    <2> QED BY <2>1 DEF NoRequestRow, ConvRow
<1>2. NoConvJob \in ConvJobRow /\ NoConvJob.key = ""
    BY DEF NoConvJob, ConvJobRow
<1>3. ConversationsTypeOK
    BY <1>1, <1>2, IdleTyped DEF ConversationsInit, ConversationsTypeOK
<1>4. OneJobEach
    BY <1>2 DEF ConversationsInit, OneJobEach
<1>5. \A k \in ConvKeys : RowFine(k)
    BY <1>1 DEF ConversationsInit, RowFine
<1>6. \A c \in ConvCallers : CallFine(c)
    BY IdleTyped DEF ConversationsInit, CallFine
<1>7. AnswersFine
    BY DEF ConversationsInit, AnswersFine
<1>8. Unretried = {}
    BY <1>1 DEF ConversationsInit, Unretried, Active
<1>9. Cardinality(Unretried) <= MaxActive
    <2>1. Cardinality(Unretried) = 0 /\ MaxActive \in Nat
        BY <1>8, FS_EmptySet, ConversationAssumption
    <2> QED BY <2>1
<1> QED BY <1>3, <1>4, <1>5, <1>6, <1>7, <1>9 DEF ConversationsInv

LEMMA ConversationsInvStep ==
    ASSUME ConversationsInv, [ConversationsNext]_cvVars
    PROVE  ConversationsInv'
<1>1. CASE UNCHANGED cvVars
    <2>1. UNCHANGED <<cvRows, cvJobs, cvAnswers>> /\ cvCalls' = cvCalls
        BY <1>1 DEF cvVars
    <2>2. cvCalls' \in [ConvCallers -> ConvCallRow]
        BY <2>1 DEF ConversationsInv, ConversationsTypeOK
    <2> QED BY <2>1, <2>2, CallsStep
<1> QED BY <1>1, BeginStep, ObserveStep, SubmitStep, BindStep, SeeEndStep, SettleStep, LeaveStep,
           JobsMove DEF ConversationsNext

(* ConversationsInv is inductive: a request gets one Job and its row, its   *)
(* calls and its answers all name that one, however often it is begun,      *)
(* submitted, bound, cut off or begun again.                                *)
THEOREM ConversationsSafe == ConversationsSpec => []ConversationsInv
<1>1. ConversationsInit => ConversationsInv
    BY ConversationsInvInit
<1>2. ConversationsInv /\ [ConversationsNext]_cvVars => ConversationsInv'
    BY ConversationsInvStep
<1> QED BY <1>1, <1>2, PTL DEF ConversationsSpec

(* The rows, Jobs, calls and answers of the conversations keep their types. *)
THEOREM ConversationsTyped == ConversationsSpec => []ConversationsTypeOK
<1>1. ConversationsInv => ConversationsTypeOK
    BY DEF ConversationsInv
<1> QED BY <1>1, ConversationsSafe, PTL

\* Each Job that runs and was not retried belongs to an active request of its
\* own.
LEMMA RunningBounded ==
    ASSUME ConversationsInv
    PROVE  Cardinality({j \in DOMAIN cvJobs :
                          /\ cvJobs[j].state \in {"QUEUED", "CANCELING"}
                          /\ ~cvJobs[j].retried}) <= MaxActive
<1> DEFINE R == {j \in DOMAIN cvJobs :
                    cvJobs[j].state \in {"QUEUED", "CANCELING"} /\ ~cvJobs[j].retried}
           f == [j \in R |-> cvJobs[j].key]
<1>1. R \subseteq ConvIds
    BY ConvTypes DEF ConversationsInv
<1>2. ASSUME NEW j \in R
      PROVE  cvJobs[j].key \in Unretried
    <2>1. j \in ConvIds /\ cvJobs[j].state \in {"QUEUED", "CANCELING"} /\ ~cvJobs[j].retried
        BY <1>1
    <2>2. PICK k : k = cvJobs[j].key
        OBVIOUS
    <2>3. k \in ConvKeys /\ k # "" /\ cvRows[k].state # "none"
        <3>1. NoConvJob.state = "none"
            BY DEF NoConvJob
        <3> QED BY <2>1, <2>2, <3>1, ConvFacts, ConvTypes DEF ConversationsInv
    <2>4. RowFine(k) /\ (cvRows[k].job # 0 => cvRows[k].job \in ConvIds)
        BY <2>3, ConvFacts, ConvTypes, JobId DEF ConversationsInv
    <2>5. cvRows[k].job # 0 => cvRows[k].job = j
        BY <2>1, <2>2, <2>3, <2>4, ConvFacts DEF RowFine
    <2>6. k \in Active
        <3>1. cvJobs[j].state \notin ConvTerminal
            BY <2>1 DEF ConvTerminal
        <3> QED BY <2>3, <2>4, <2>5, <3>1, ActiveIff DEF RowFine
    <2>7. \A i \in ConvIds : cvJobs[i].key = k => i = j
        BY <2>1, <2>2, <2>3, ConvFacts
    <2> QED BY <2>1, <2>2, <2>6, <2>7, UnretriedIff
<1>3. f \in [R -> Unretried]
    BY <1>2
<1>4. ASSUME NEW i \in R, NEW j \in R, f[i] = f[j]
      PROVE  i = j
    <2>1. i \in ConvIds /\ j \in ConvIds /\ cvJobs[i].key = cvJobs[j].key
        BY <1>1, <1>4
    <2>2. cvJobs[i].key # ""
        BY <1>2, UnretriedIff, ActiveIff, ConvFacts
    <2> QED BY <2>1, <2>2, ConvFacts
<1>5. f \in Injection(R, Unretried)
    <2> HIDE DEF R, f
    <2> QED BY <1>3, <1>4 DEF Injection, IsInjective
<1> HIDE DEF R, f
<1>6. Cardinality(R) <= Cardinality(Unretried) /\ IsFiniteSet(R)
    BY <1>5, KeysFinite, FS_Injection
<1>7. Cardinality(R) \in Nat /\ Cardinality(Unretried) \in Nat /\ MaxActive \in Nat
    BY <1>6, KeysFinite, FS_CardinalityType, ConversationAssumption
<1>8. Cardinality(Unretried) <= MaxActive
    BY DEF ConversationsInv
<1>9. Cardinality(R) <= MaxActive
    BY <1>6, <1>7, <1>8
<1> QED BY <1>9 DEF R

(* However calls are repeated, interleaved or cut off, a request has one    *)
(* Job, its row names no other, a result handed out is that of its own Job, *)
(* and no more Jobs run than the profile allows, retries by the owner of    *)
(* the Jobs aside.                                                          *)
THEOREM ConversationsSound == ConversationsSpec => []ConversationSound
<1>1. ASSUME ConversationsInv
      PROVE  ConversationSound
    <2>1. ASSUME NEW k \in ConvKeys
          PROVE  Cardinality(JobsOf(k)) <= 1
        <3>1. \A i, j \in JobsOf(k) : i = j
            BY <1>1, ConvFacts, ConvTypes DEF JobsOf, ConversationsInv
        <3>2. CASE JobsOf(k) = {}
            <4>1. Cardinality(JobsOf(k)) = 0
                BY <3>2, FS_EmptySet
            <4> QED BY <4>1
        <3>3. CASE JobsOf(k) # {}
            <4>1. PICK j : JobsOf(k) = {j}
                BY <3>1, <3>3
            <4>2. Cardinality(JobsOf(k)) = 1
                BY <4>1, FS_Singleton
            <4> QED BY <4>2
        <3> QED BY <3>2, <3>3
    <2>2. ASSUME NEW k \in ConvKeys, cvRows[k].job # 0
          PROVE  cvRows[k].job \in JobsOf(k)
        <3>1. cvRows[k].job \in ConvIds
            BY <1>1, <2>2, ConvTypes, JobId DEF ConversationsInv
        <3> QED BY <1>1, <2>2, <3>1, ConvFacts, ConvTypes DEF JobsOf, RowFine, ConversationsInv
    <2>3. \A a \in cvAnswers : cvJobs[a.job].key = a.key /\ cvJobs[a.job].state = "SUCCEEDED"
        BY <1>1, ConvFacts DEF AnswersFine
    <2> QED BY <1>1, <2>1, <2>2, <2>3, RunningBounded DEF ConversationSound
<1>2. ConversationsInv => ConversationSound
    BY <1>1
<1> QED BY <1>2, ConversationsSafe, PTL

----------------------------------------------------------------------------
(* The relay: the inductive invariant *)

Issued(p) == rPairs[p].epoch # 0

\* A forwarded pair cannot be attached again in this epoch.
SpentAfter(p) == rPairs[p].expired \/ <<p, "pair">> \in rSpent

PairsFine ==
    \A p \in RelayPairs :
        rPairs[p].epoch <= rEpoch /\ (Issued(p) => rPairs[p].worker \in RelayWorkers)

TicketsFine ==
    /\ \A w \in RelayWorkers : rPending[w] # 0 => Issued(rPending[w])
    /\ \A t \in rHeld : Issued(t[1])

\* A second connection found a first one of the other role, and that pair is
\* spent; while the first has not taken it, nothing was forwarded.
MateFine(c) ==
    LET m == rConns[c]
        f == m.first
    IN  /\ f \in RelayConns /\ rConns[f].phase \in {"waiting", "paired"}
        /\ rConns[f].pair = m.pair /\ rConns[f].role # m.role
        /\ SpentAfter(m.pair)
        /\ rConns[f].phase = "waiting" => rPaired[m.pair] = 0

ConnFine(c) ==
    /\ rConns[c].phase # "none" => /\ rConns[c].role \in Roles
                                   /\ rConns[c].pair \in RelayPairs /\ Issued(rConns[c].pair)
    /\ rConns[c].phase = "mated" => MateFine(c)

OneMate ==
    \A c, d \in RelayConns :
        (/\ rConns[c].phase = "mated" /\ rConns[d].phase = "mated"
         /\ rConns[c].pair = rConns[d].pair) => c = d

\* A connection that is still open waits, and has no mate yet.
OpenFine(p) ==
    rOpen[p] # 0 =>
        /\ rOpen[p] \in RelayConns
        /\ rConns[rOpen[p]].phase = "waiting" /\ rConns[rOpen[p]].pair = p
        /\ \A d \in RelayConns : rConns[d].phase = "mated" => rConns[d].first # rOpen[p]

ForwardFine(p) ==
    /\ rPaired[p] <= 1
    /\ rPaired[p] # 0 => Issued(p) /\ (SpentAfter(p) \/ rPairs[p].epoch # rEpoch)

Firsts(w) == {c \in RelayConns : /\ rConns[c].phase \in {"waiting", "paired"}
                                 /\ rPairs[rConns[c].pair].worker = w}

CountFine(w) == rCount[w] = Cardinality(Firsts(w)) /\ rCount[w] <= PairsPerWorker

RelayInv ==
    /\ RelayTypeOK
    /\ PairsFine
    /\ TicketsFine
    /\ \A c \in RelayConns : ConnFine(c)
    /\ OneMate
    /\ \A p \in RelayPairs : OpenFine(p) /\ ForwardFine(p)
    /\ \A w \in RelayWorkers : CountFine(w)

----------------------------------------------------------------------------
(* The relay: types and counting *)

LEMMA RelayBounds ==
    /\ MaxPairs \in Nat /\ Connections \in Nat /\ PairsPerWorker \in Nat /\ MaxRelayEpoch \in Nat
    /\ \A p : p \in RelayPairs <=> p \in 0 .. MaxPairs /\ p # 0
    /\ \A c : c \in RelayConns <=> c \in 0 .. Connections /\ c # 0
<1>1. MaxPairs \in Nat /\ Connections \in Nat /\ PairsPerWorker \in Nat /\ MaxRelayEpoch \in Nat
    BY RelayAssumption
<1> QED BY <1>1 DEF RelayPairs, RelayConns

LEMMA NoConnTyped ==
    /\ NoConn \in ConnRow /\ NoConn.phase = "none" /\ NoConn' = NoConn
<1>1. 0 \in 0 .. MaxPairs /\ 0 \in 0 .. Connections
    BY RelayBounds
<1> QED BY <1>1 DEF NoConn, ConnRow

LEMMA RelayTypes ==
    ASSUME RelayTypeOK
    PROVE  /\ \A p \in RelayPairs :
                 /\ rPairs[p] \in PairRow /\ rPairs[p].epoch \in 0 .. MaxRelayEpoch
                 /\ rPaired[p] \in Nat /\ rOpen[p] \in 0 .. Connections
           /\ \A c \in RelayConns :
                 /\ rConns[c] \in ConnRow /\ rConns[c].pair \in 0 .. MaxPairs
                 /\ rConns[c].phase \in {"none", "verified", "waiting", "mated", "paired", "left"}
           /\ \A w \in RelayWorkers : rPending[w] \in 0 .. MaxPairs /\ rCount[w] \in Nat
           /\ rEpoch \in Nat
<1>1. /\ \A p \in RelayPairs : rPairs[p] \in PairRow
      /\ \A c \in RelayConns : rConns[c] \in ConnRow
    BY DEF RelayTypeOK
<1>2. \A p \in RelayPairs : rPairs[p].epoch \in 0 .. MaxRelayEpoch
    BY <1>1 DEF PairRow
<1>3. \A c \in RelayConns :
         /\ rConns[c].pair \in 0 .. MaxPairs
         /\ rConns[c].phase \in {"none", "verified", "waiting", "mated", "paired", "left"}
    BY <1>1 DEF ConnRow
<1>4. /\ \A p \in RelayPairs : rPaired[p] \in Nat /\ rOpen[p] \in 0 .. Connections
      /\ \A w \in RelayWorkers : rPending[w] \in 0 .. MaxPairs /\ rCount[w] \in Nat
    BY DEF RelayTypeOK
<1>5. rEpoch \in Nat
    BY RelayBounds DEF RelayTypeOK
<1> QED BY <1>1, <1>2, <1>3, <1>4, <1>5

\* What the invariant says of a connection, a pair and a Worker.
LEMMA RelayFacts ==
    ASSUME RelayInv
    PROVE  /\ RelayTypeOK /\ PairsFine /\ TicketsFine /\ OneMate
           /\ \A c \in RelayConns : ConnFine(c)
           /\ \A p \in RelayPairs : OpenFine(p) /\ ForwardFine(p)
           /\ \A w \in RelayWorkers : CountFine(w)
BY DEF RelayInv

LEMMA FirstsFinite ==
    ASSUME NEW w
    PROVE  IsFiniteSet(Firsts(w)) /\ Cardinality(Firsts(w)) \in Nat
<1>1. IsFiniteSet(RelayConns)
    <2>1. 1 \in Int /\ Connections \in Int
        BY RelayBounds
    <2> QED BY <2>1, FS_Interval DEF RelayConns
<1>2. Firsts(w) \subseteq RelayConns
    BY DEF Firsts
<1>3. IsFiniteSet(Firsts(w))
    BY <1>1, <1>2, FS_Subset
<1> QED BY <1>3, FS_CardinalityType

----------------------------------------------------------------------------
(* The relay: the issuer, the connector and the clock *)

\* Pairs are issued and expire; the Broker does not move.
LEMMA IssuerMoves ==
    ASSUME RelayInv, UNCHANGED <<rEpoch, rConns, rOpen, rCount, rSpent, rPaired>>,
           rPairs' \in [RelayPairs -> PairRow],
           \A p \in RelayPairs : Issued(p) =>
               /\ rPairs'[p].epoch = rPairs[p].epoch /\ rPairs'[p].worker = rPairs[p].worker
               /\ rPairs[p].expired => rPairs'[p].expired,
           PairsFine', TicketsFine',
           rPending' \in [RelayWorkers -> 0 .. MaxPairs],
           rHeld' \subseteq RelayPairs \X Roles,
           rDial' \in [RelayWorkers -> {"direct", "alternate", "up"}]
    PROVE  RelayInv'
<1>1. RelayTypeOK'
    BY RelayFacts DEF RelayTypeOK
<1>2. \A p \in RelayPairs : Issued(p) => Issued(p)' /\ (SpentAfter(p) => SpentAfter(p)')
    BY DEF Issued, SpentAfter
<1>3. ASSUME NEW c \in RelayConns PROVE ConnFine(c)'
    <2>1. ConnFine(c)
        BY RelayFacts
    <2> QED BY <1>2, <2>1 DEF ConnFine, MateFine, Issued
<1>4. OneMate'
    BY RelayFacts DEF OneMate
<1>5. ASSUME NEW p \in RelayPairs PROVE OpenFine(p)' /\ ForwardFine(p)'
    <2>1. OpenFine(p) /\ ForwardFine(p)
        BY RelayFacts
    <2> QED BY <1>2, <2>1 DEF OpenFine, ForwardFine, Issued
<1>6. ASSUME NEW w \in RelayWorkers PROVE CountFine(w)'
    <2>1. ASSUME NEW c \in RelayConns, rConns[c].phase \in {"waiting", "paired"}
          PROVE  rPairs'[rConns[c].pair].worker = rPairs[rConns[c].pair].worker
        <3>1. rConns[c].pair \in RelayPairs /\ Issued(rConns[c].pair)
            BY <2>1, RelayFacts DEF ConnFine
        <3> QED BY <3>1
    <2>2. Firsts(w)' = Firsts(w)
        BY <2>1 DEF Firsts
    <2>3. CountFine(w)
        BY RelayFacts
    <2> QED BY <2>2, <2>3 DEF CountFine
<1> QED BY <1>1, <1>3, <1>4, <1>5, <1>6 DEF RelayInv

LEMMA IssueStep ==
    ASSUME RelayInv, NEW w \in RelayWorkers, NEW p \in RelayPairs, IssuePair(w, p)
    PROVE  RelayInv'
<1>1. PICK r : r = [worker |-> w, epoch |-> rEpoch, expired |-> FALSE]
    OBVIOUS
<1>2. /\ rPairs[p] = NoPair /\ rPairs' = [rPairs EXCEPT ![p] = r]
      /\ rPending' = [v \in RelayWorkers |->
            IF v = w THEN p ELSE IF TicketLives(rPending[v]) THEN rPending[v] ELSE 0]
      /\ rHeld' = rHeld \cup {<<p, "server">>}
      /\ UNCHANGED <<rEpoch, rConns, rOpen, rCount, rSpent, rPaired, rDial>>
    BY <1>1 DEF IssuePair
<1>3. rEpoch \in 1 .. MaxRelayEpoch /\ rEpoch \in Nat /\ rEpoch # 0
    BY RelayFacts, RelayBounds DEF RelayTypeOK
<1>4. rEpoch \in 0 .. MaxRelayEpoch
    BY <1>3, RelayBounds
<1>5. r \in PairRow /\ r.worker = w /\ r.epoch = rEpoch
    BY <1>1, <1>4 DEF PairRow
<1>6. ~Issued(p)
    <2>1. NoPair.epoch = 0
        BY DEF NoPair
    <2> QED BY <1>2, <2>1 DEF Issued
<1>7. /\ rPairs' \in [RelayPairs -> PairRow] /\ rPairs'[p] = r
      /\ \A q \in RelayPairs : q # p => rPairs'[q] = rPairs[q]
    BY <1>2, <1>5, RelayFacts DEF RelayTypeOK
<1>8. \A q \in RelayPairs : Issued(q) =>
         /\ rPairs'[q].epoch = rPairs[q].epoch /\ rPairs'[q].worker = rPairs[q].worker
         /\ rPairs[q].expired => rPairs'[q].expired
    BY <1>6, <1>7
<1>9. \A q \in RelayPairs : q = p \/ Issued(q) => Issued(q)'
    BY <1>3, <1>5, <1>7, <1>8 DEF Issued
<1>10. PairsFine'
    <2>1. ASSUME NEW q \in RelayPairs
          PROVE  rPairs'[q].epoch <= rEpoch /\ (Issued(q)' => rPairs'[q].worker \in RelayWorkers)
        BY <1>3, <1>5, <1>7, RelayFacts DEF PairsFine, Issued
    <2> QED BY <1>2, <2>1 DEF PairsFine
<1>11. 0 \in 0 .. MaxPairs /\ p \in 0 .. MaxPairs
    BY RelayBounds
<1>12. rPending' \in [RelayWorkers -> 0 .. MaxPairs]
    BY <1>2, <1>11, RelayFacts, RelayTypes
<1>13. rHeld' \subseteq RelayPairs \X Roles
    BY <1>2, RelayFacts DEF RelayTypeOK, Roles
<1>14. TicketsFine'
    <2>1. \A v \in RelayWorkers : rPending'[v] # 0 =>
             rPending'[v] = p \/ (rPending'[v] = rPending[v] /\ rPending[v] # 0)
        BY <1>2
    <2>2. ASSUME NEW v \in RelayWorkers, rPending'[v] # 0
          PROVE  rPairs'[rPending'[v]].epoch # 0
        <3>1. CASE rPending'[v] = p
            BY <1>3, <1>5, <1>7, <3>1
        <3>2. CASE rPending'[v] = rPending[v] /\ rPending[v] # 0
            <4>1. rPending[v] \in RelayPairs /\ Issued(rPending[v])
                BY <3>2, RelayFacts, RelayTypes, RelayBounds DEF TicketsFine
            <4> QED BY <1>9, <3>2, <4>1 DEF Issued
        <3> QED BY <2>1, <2>2, <3>1, <3>2
    <2>3. ASSUME NEW t \in rHeld'
          PROVE  rPairs'[t[1]].epoch # 0
        <3>1. t[1] = p \/ (t[1] \in RelayPairs /\ Issued(t[1]))
            BY <1>2, RelayFacts DEF TicketsFine, RelayTypeOK
        <3> QED BY <1>9, <3>1 DEF Issued
    <2> QED BY <2>2, <2>3 DEF TicketsFine, Issued
<1>15. rDial' \in [RelayWorkers -> {"direct", "alternate", "up"}]
    BY <1>2, RelayFacts DEF RelayTypeOK
<1> QED BY <1>2, <1>7, <1>8, <1>10, <1>12, <1>13, <1>14, <1>15, IssuerMoves

\* The Worker's connector moves, or a ticket is claimed; no pair changes.
LEMMA DialMoves ==
    ASSUME RelayInv, UNCHANGED <<rEpoch, rPairs, rConns, rOpen, rCount, rSpent, rPaired>>,
           TicketsFine', rPending' \in [RelayWorkers -> 0 .. MaxPairs],
           rHeld' \subseteq RelayPairs \X Roles,
           rDial' \in [RelayWorkers -> {"direct", "alternate", "up"}]
    PROVE  RelayInv'
<1>1. rPairs' \in [RelayPairs -> PairRow] /\ PairsFine'
    BY RelayFacts DEF RelayTypeOK, PairsFine, Issued
<1>2. \A p \in RelayPairs : Issued(p) =>
         /\ rPairs'[p].epoch = rPairs[p].epoch /\ rPairs'[p].worker = rPairs[p].worker
         /\ rPairs[p].expired => rPairs'[p].expired
    OBVIOUS
<1> QED BY <1>1, <1>2, IssuerMoves

LEMMA TicketsStay ==
    ASSUME RelayInv, UNCHANGED <<rPairs, rPending, rHeld>>
    PROVE  /\ TicketsFine' /\ rPending' \in [RelayWorkers -> 0 .. MaxPairs]
           /\ rHeld' \subseteq RelayPairs \X Roles
BY RelayFacts DEF RelayTypeOK, TicketsFine, Issued

LEMMA TryDirectStep ==
    ASSUME RelayInv, NEW w \in RelayWorkers, NEW ok \in BOOLEAN, TryDirect(w, ok)
    PROVE  RelayInv'
<1>1. UNCHANGED <<rEpoch, rPairs, rPending, rHeld, rConns, rOpen, rCount, rSpent, rPaired>>
    BY DEF TryDirect
<1>2. rDial' \in [RelayWorkers -> {"direct", "alternate", "up"}]
    BY RelayFacts DEF TryDirect, RelayTypeOK
<1> QED BY <1>1, <1>2, TicketsStay, DialMoves

LEMMA PeerStep ==
    ASSUME RelayInv, NEW w \in RelayWorkers, PeerUp(w) \/ PeerDown(w)
    PROVE  RelayInv'
<1>1. UNCHANGED <<rEpoch, rPairs, rPending, rHeld, rConns, rOpen, rCount, rSpent, rPaired>>
    BY DEF PeerUp, PeerDown
<1>2. rDial' \in [RelayWorkers -> {"direct", "alternate", "up"}]
    BY RelayFacts DEF PeerUp, PeerDown, RelayTypeOK
<1> QED BY <1>1, <1>2, TicketsStay, DialMoves

LEMMA ClaimStep ==
    ASSUME RelayInv, NEW w \in RelayWorkers, ClaimPair(w)
    PROVE  RelayInv'
<1>1. /\ UNCHANGED <<rEpoch, rPairs, rConns, rOpen, rCount, rSpent, rPaired>>
      /\ rDial' = [rDial EXCEPT ![w] = "direct"]
      /\ rPending' = [rPending EXCEPT ![w] = 0]
      /\ rHeld' = rHeld \/ (rPending[w] # 0 /\ rHeld' = rHeld \cup {<<rPending[w], "worker">>})
    BY DEF ClaimPair, TicketLives
<1>2. rDial' \in [RelayWorkers -> {"direct", "alternate", "up"}]
    BY <1>1, RelayFacts DEF RelayTypeOK
<1>3. 0 \in 0 .. MaxPairs
    BY RelayBounds
<1>4. rPending' \in [RelayWorkers -> 0 .. MaxPairs]
    BY <1>1, <1>3, RelayFacts DEF RelayTypeOK
<1>5. rPending[w] # 0 => rPending[w] \in RelayPairs /\ Issued(rPending[w])
    BY RelayFacts, RelayTypes, RelayBounds DEF TicketsFine
<1>6. rHeld' \subseteq RelayPairs \X Roles
    BY <1>1, <1>5, RelayFacts DEF RelayTypeOK, Roles
<1>7. TicketsFine'
    <2>1. \A v \in RelayWorkers : rPending'[v] # 0 => rPending'[v] = rPending[v]
        BY <1>1, RelayFacts DEF RelayTypeOK
    <2>2. \A t \in rHeld' : rPairs[t[1]].epoch # 0
        BY <1>1, <1>5, RelayFacts DEF TicketsFine, Issued
    <2> QED BY <1>1, <2>1, <2>2, RelayFacts DEF TicketsFine, Issued
<1> QED BY <1>1, <1>2, <1>4, <1>6, <1>7, DialMoves

LEMMA ExpireStep ==
    ASSUME RelayInv, NEW p \in RelayPairs, ExpirePair(p)
    PROVE  RelayInv'
<1>1. PICK r : r = [rPairs[p] EXCEPT !.expired = TRUE]
    OBVIOUS
<1>2. /\ rPairs' = [rPairs EXCEPT ![p].expired = TRUE]
      /\ UNCHANGED <<rEpoch, rPending, rHeld, rConns, rOpen, rCount, rSpent, rPaired, rDial>>
    BY DEF ExpirePair
<1>3. rPairs[p] \in PairRow
    BY RelayFacts, RelayTypes
<1>4. r \in PairRow /\ r.worker = rPairs[p].worker /\ r.epoch = rPairs[p].epoch /\ r.expired
    BY <1>1, <1>3 DEF PairRow
<1>5. rPairs' = [rPairs EXCEPT ![p] = r]
    BY <1>1, <1>2, RelayFacts DEF RelayTypeOK
<1>6. /\ rPairs' \in [RelayPairs -> PairRow] /\ rPairs'[p] = r
      /\ \A q \in RelayPairs : q # p => rPairs'[q] = rPairs[q]
    BY <1>4, <1>5, RelayFacts DEF RelayTypeOK
<1>7. \A q \in RelayPairs :
         /\ rPairs'[q].epoch = rPairs[q].epoch /\ rPairs'[q].worker = rPairs[q].worker
         /\ rPairs[q].expired => rPairs'[q].expired
    BY <1>4, <1>6
<1>8. PairsFine'
    BY <1>2, <1>7, RelayFacts DEF PairsFine, Issued
<1>9. TicketsFine'
    <2>1. ASSUME NEW v \in RelayWorkers, rPending[v] # 0
          PROVE  rPairs'[rPending[v]].epoch # 0
        <3>1. rPending[v] \in RelayPairs /\ Issued(rPending[v])
            BY <2>1, RelayFacts, RelayTypes, RelayBounds DEF TicketsFine
        <3> QED BY <1>7, <3>1 DEF Issued
    <2>2. ASSUME NEW t \in rHeld
          PROVE  rPairs'[t[1]].epoch # 0
        <3>1. t[1] \in RelayPairs /\ Issued(t[1])
            BY RelayFacts DEF TicketsFine, RelayTypeOK
        <3> QED BY <1>7, <3>1 DEF Issued
    <2> QED BY <1>2, <2>1, <2>2 DEF TicketsFine, Issued
<1>10. /\ rPending' \in [RelayWorkers -> 0 .. MaxPairs] /\ rHeld' \subseteq RelayPairs \X Roles
       /\ rDial' \in [RelayWorkers -> {"direct", "alternate", "up"}]
    BY <1>2, RelayFacts DEF RelayTypeOK
<1> QED BY <1>2, <1>6, <1>7, <1>8, <1>9, <1>10, IssuerMoves

----------------------------------------------------------------------------
(* The relay: the Broker *)

\* The pairs and the tickets stay: what is left to show is the Broker's part.
LEMMA BrokerMoves ==
    ASSUME RelayInv, UNCHANGED <<rEpoch, rPairs, rPending, rHeld, rDial>>,
           rConns' \in [RelayConns -> ConnRow], rOpen' \in [RelayPairs -> 0 .. Connections],
           rCount' \in [RelayWorkers -> Nat], rPaired' \in [RelayPairs -> Nat],
           rSpent' \subseteq RelayPairs \X (Roles \cup {"pair"}),
           \A c \in RelayConns : ConnFine(c)', OneMate',
           \A p \in RelayPairs : OpenFine(p)' /\ ForwardFine(p)',
           \A w \in RelayWorkers : CountFine(w)'
    PROVE  RelayInv'
<1>1. RelayTypeOK'
    BY RelayFacts DEF RelayTypeOK
<1>2. PairsFine' /\ TicketsFine'
    BY RelayFacts DEF PairsFine, TicketsFine, Issued
<1> QED BY <1>1, <1>2 DEF RelayInv

\* A purge forgets only what its expiry keeps out anyway.
LEMMA PurgeKeeps ==
    ASSUME RelayTypeOK, UNCHANGED rPairs, NEW S, S = rSpent \/ S = PurgeExpired, S \subseteq rSpent'
    PROVE  \A p \in RelayPairs : SpentAfter(p) => SpentAfter(p)'
<1>1. ASSUME NEW p \in RelayPairs, SpentAfter(p), ~rPairs[p].expired
      PROVE  <<p, "pair">> \in S
    <2>1. <<p, "pair">> \in rSpent /\ <<p, "pair">>[1] = p
        BY <1>1 DEF SpentAfter
    <2> QED BY <1>1, <2>1 DEF PurgeExpired
<1> QED BY <1>1 DEF SpentAfter

LEMMA PurgeTyped ==
    ASSUME RelayTypeOK
    PROVE  PurgeExpired \subseteq rSpent /\ PurgeExpired \subseteq RelayPairs \X (Roles \cup {"pair"})
BY DEF PurgeExpired, RelayTypeOK

\* A connection that is neither first nor second comes, goes or is refused.
LEMMA QuietMoves ==
    ASSUME RelayInv, NEW c \in RelayConns, NEW x \in ConnRow,
           UNCHANGED <<rEpoch, rPairs, rPending, rHeld, rOpen, rCount, rPaired, rDial>>,
           rConns' = [rConns EXCEPT ![c] = x],
           rConns[c].phase \notin {"waiting", "mated", "paired"},
           x.phase \notin {"waiting", "mated", "paired"},
           x.phase # "none" => x.role \in Roles /\ x.pair \in RelayPairs /\ Issued(x.pair),
           rSpent' = rSpent \/ rSpent' = PurgeExpired
    PROVE  RelayInv'
<1>1. /\ rConns' \in [RelayConns -> ConnRow] /\ rConns'[c] = x
      /\ \A d \in RelayConns : d # c => rConns'[d] = rConns[d]
    BY RelayFacts DEF RelayTypeOK
<1>2. \A p \in RelayPairs : SpentAfter(p) => SpentAfter(p)'
    BY RelayFacts, PurgeKeeps
<1>3. ASSUME NEW d \in RelayConns PROVE ConnFine(d)'
    <2>1. CASE d = c
        BY <1>1, <2>1 DEF ConnFine, Issued
    <2>2. CASE d # c
        <3>1. ConnFine(d) /\ rConns'[d] = rConns[d]
            BY <1>1, <2>2, RelayFacts
        <3>2. CASE rConns[d].phase = "mated"
            <4>1. MateFine(d) /\ rConns[d].pair \in RelayPairs /\ Issued(rConns[d].pair)
                BY <3>1, <3>2 DEF ConnFine
            <4>2. rConns[d].first # c /\ rConns[d].first \in RelayConns
                BY <4>1 DEF MateFine
            <4>3. rConns'[rConns[d].first] = rConns[rConns[d].first]
                BY <1>1, <4>2
            <4>4. MateFine(d)'
                BY <1>2, <3>1, <4>1, <4>3 DEF MateFine
            <4> QED BY <3>1, <4>1, <4>4 DEF ConnFine, Issued
        <3>3. CASE rConns[d].phase # "mated"
            BY <3>1, <3>3 DEF ConnFine, Issued
        <3> QED BY <3>2, <3>3
    <2> QED BY <2>1, <2>2
<1>4. OneMate'
    BY <1>1, RelayFacts DEF OneMate
<1>5. ASSUME NEW p \in RelayPairs PROVE OpenFine(p)' /\ ForwardFine(p)'
    <2>1. OpenFine(p) /\ ForwardFine(p)
        BY RelayFacts
    <2>2. OpenFine(p)'
        BY <1>1, <2>1 DEF OpenFine
    <2> QED BY <1>2, <2>1, <2>2 DEF ForwardFine, Issued
<1>6. ASSUME NEW w \in RelayWorkers PROVE CountFine(w)'
    <2>1. Firsts(w)' = Firsts(w)
        BY <1>1 DEF Firsts
    <2> QED BY <2>1, RelayFacts DEF CountFine
<1>7. /\ rOpen' \in [RelayPairs -> 0 .. Connections] /\ rCount' \in [RelayWorkers -> Nat]
      /\ rPaired' \in [RelayPairs -> Nat] /\ rSpent' \subseteq RelayPairs \X (Roles \cup {"pair"})
    BY RelayFacts, PurgeTyped DEF RelayTypeOK
<1> QED BY <1>1, <1>3, <1>4, <1>5, <1>6, <1>7, BrokerMoves

LEMMA AcceptStep ==
    ASSUME RelayInv, NEW c \in RelayConns, NEW p \in RelayPairs, NEW role \in Roles,
           AcceptConn(c, p, role)
    PROVE  RelayInv'
<1>1. PICK x : x = [NoConn EXCEPT !.phase = "verified", !.pair = p, !.role = role]
    OBVIOUS
<1>2. /\ rConns[c] = NoConn /\ <<p, role>> \in rHeld /\ rConns' = [rConns EXCEPT ![c] = x]
      /\ UNCHANGED <<rEpoch, rPairs, rPending, rHeld, rOpen, rCount, rSpent, rPaired, rDial>>
    BY <1>1 DEF AcceptConn
<1>3. p \in 0 .. MaxPairs
    BY RelayBounds
<1>4. x \in ConnRow /\ x.phase = "verified" /\ x.pair = p /\ x.role = role
    BY <1>1, <1>3, NoConnTyped DEF ConnRow
<1>5. Issued(p)
    <2>1. <<p, role>>[1] = p
        OBVIOUS
    <2> QED BY <1>2, <2>1, RelayFacts DEF TicketsFine
<1> QED BY <1>2, <1>4, <1>5, NoConnTyped, QuietMoves

LEMMA MateLeavesStep ==
    ASSUME RelayInv, NEW d \in RelayConns, MateLeaves(d)
    PROVE  RelayInv'
BY NoConnTyped, QuietMoves DEF MateLeaves

\* attach: the first connection of a pair opens it.
LEMMA OpensPair ==
    ASSUME RelayInv, NEW c \in RelayConns, NEW p \in RelayPairs, NEW x,
           UNCHANGED <<rEpoch, rPairs, rPending, rHeld, rPaired, rDial>>,
           rConns[c].phase = "verified", rConns[c].pair = p, rOpen[p] = 0,
           rCount[rPairs[p].worker] < PairsPerWorker,
           x = [rConns[c] EXCEPT !.phase = "waiting"],
           rConns' = [rConns EXCEPT ![c] = x],
           rOpen' = [rOpen EXCEPT ![p] = c],
           rCount' = [rCount EXCEPT ![rPairs[p].worker] = @ + 1],
           PurgeExpired \subseteq rSpent', rSpent' \subseteq RelayPairs \X (Roles \cup {"pair"})
    PROVE  RelayInv'
<1>1. x \in ConnRow /\ x.phase = "waiting" /\ x.pair = p /\ x.role = rConns[c].role
    BY RelayFacts, RelayTypes DEF ConnRow
<1>2. /\ rConns' \in [RelayConns -> ConnRow] /\ rConns'[c] = x
      /\ \A d \in RelayConns : d # c => rConns'[d] = rConns[d]
    BY <1>1, RelayFacts DEF RelayTypeOK
<1>3. PICK v \in RelayWorkers : v = rPairs[p].worker
    BY RelayFacts DEF ConnFine, PairsFine
<1>4. Issued(p) /\ rConns[c].role \in Roles /\ \A q \in RelayPairs : SpentAfter(q) => SpentAfter(q)'
    BY RelayFacts, PurgeKeeps DEF ConnFine
<1>5. c \in 0 .. Connections /\ c # 0
    BY RelayBounds
<1>6. /\ rOpen' \in [RelayPairs -> 0 .. Connections] /\ rOpen'[p] = c
      /\ \A q \in RelayPairs : q # p => rOpen'[q] = rOpen[q]
    BY <1>5, RelayFacts DEF RelayTypeOK
<1>7. /\ rCount' \in [RelayWorkers -> Nat] /\ rCount'[v] = rCount[v] + 1
      /\ \A u \in RelayWorkers : u # v => rCount'[u] = rCount[u]
    BY <1>3, RelayFacts, RelayTypes DEF RelayTypeOK
<1>8. \A d \in RelayConns : rConns[d].phase = "mated" => rConns[d].first # c
    BY RelayFacts DEF ConnFine, MateFine
<1>9. ASSUME NEW d \in RelayConns PROVE ConnFine(d)'
    <2>1. CASE d = c
        BY <1>1, <1>2, <1>4, <2>1 DEF ConnFine, Issued
    <2>2. CASE d # c
        <3>1. ConnFine(d) /\ rConns'[d] = rConns[d]
            BY <1>2, <2>2, RelayFacts
        <3>2. CASE rConns[d].phase = "mated"
            <4>1. MateFine(d) /\ rConns[d].pair \in RelayPairs /\ Issued(rConns[d].pair)
                BY <3>1, <3>2 DEF ConnFine
            <4>2. rConns'[rConns[d].first] = rConns[rConns[d].first]
                BY <1>2, <1>8, <3>2, <4>1 DEF MateFine
            <4>3. MateFine(d)'
                BY <1>4, <3>1, <4>1, <4>2 DEF MateFine
            <4> QED BY <3>1, <4>1, <4>3 DEF ConnFine, Issued
        <3>3. CASE rConns[d].phase # "mated"
            BY <3>1, <3>3 DEF ConnFine, Issued
        <3> QED BY <3>2, <3>3
    <2> QED BY <2>1, <2>2
<1>10. OneMate'
    BY <1>1, <1>2, RelayFacts DEF OneMate
<1>11. ASSUME NEW q \in RelayPairs PROVE OpenFine(q)' /\ ForwardFine(q)'
    <2>1. OpenFine(q) /\ ForwardFine(q)
        BY RelayFacts
    <2>2. \A d \in RelayConns : rConns'[d].phase = "mated" =>
             rConns[d].phase = "mated" /\ rConns'[d].first = rConns[d].first
        BY <1>1, <1>2
    <2>3. ASSUME q = p PROVE OpenFine(q)'
        <3>1. \A d \in RelayConns : rConns'[d].phase = "mated" => rConns'[d].first # c
            BY <1>8, <2>2
        <3>2. /\ rOpen'[q] = c /\ c \in RelayConns
              /\ rConns'[c].phase = "waiting" /\ rConns'[c].pair = q
            BY <1>1, <1>2, <1>6, <2>3
        <3> QED BY ONLY <3>1, <3>2 DEF OpenFine
    <2>4. ASSUME q # p PROVE OpenFine(q)'
        <3>1. rOpen'[q] = rOpen[q] /\ (rOpen[q] # 0 => rOpen[q] # c)
            BY <1>6, <2>1, <2>4 DEF OpenFine
        <3>2. rOpen[q] # 0 => rConns'[rOpen[q]] = rConns[rOpen[q]]
            BY <1>2, <2>1, <3>1 DEF OpenFine
        <3> QED BY ONLY <2>1, <2>2, <3>1, <3>2 DEF OpenFine
    <2> QED BY <1>4, <2>1, <2>3, <2>4 DEF ForwardFine, Issued
<1>12. ASSUME NEW u \in RelayWorkers PROVE CountFine(u)'
    <2>1. CountFine(u) /\ c \notin Firsts(u)
        BY RelayFacts DEF Firsts
    <2>2. CASE u = v
        <3>1. Firsts(u)' = Firsts(u) \cup {c}
            <4>1. c \in Firsts(u)'
                BY <1>1, <1>2, <1>3, <2>2 DEF Firsts
            <4>2. \A d : d # c => (d \in Firsts(u)' <=> d \in Firsts(u))
                BY <1>2 DEF Firsts
            <4> QED BY <4>1, <4>2
        <3>2. Cardinality(Firsts(u)') = Cardinality(Firsts(u)) + 1
            BY ONLY <2>1, <3>1, FirstsFinite, FS_AddElement
        <3>3. rCount[v] < PairsPerWorker /\ rCount[v] \in Nat /\ PairsPerWorker \in Nat
            BY <1>3, RelayFacts, RelayTypes, RelayBounds
        <3> QED BY <1>7, <2>1, <2>2, <3>2, <3>3 DEF CountFine
    <2>3. CASE u # v
        <3>1. Firsts(u)' = Firsts(u)
            BY <1>1, <1>2, <1>3, <2>3 DEF Firsts
        <3> QED BY <1>7, <2>1, <2>3, <3>1 DEF CountFine
    <2> QED BY <2>2, <2>3
<1>13. rPaired' \in [RelayPairs -> Nat]
    BY RelayFacts DEF RelayTypeOK
<1> QED BY <1>2, <1>6, <1>7, <1>9, <1>10, <1>11, <1>12, <1>13, BrokerMoves

\* attach: the second connection of a pair takes the first one away.
LEMMA TakesMate ==
    ASSUME RelayInv, NEW c \in RelayConns, NEW p \in RelayPairs, NEW f, NEW x,
           UNCHANGED <<rEpoch, rPairs, rPending, rHeld, rCount, rPaired, rDial>>,
           rConns[c].phase = "verified", rConns[c].pair = p, rPairs[p].epoch = rEpoch,
           ~SpentAfter(p), f = rOpen[p], f # 0, rConns[f].role # rConns[c].role,
           x = [rConns[c] EXCEPT !.phase = "mated", !.first = f],
           rConns' = [rConns EXCEPT ![c] = x],
           rOpen' = [rOpen EXCEPT ![p] = 0],
           PurgeExpired \subseteq rSpent', rSpent' \subseteq RelayPairs \X (Roles \cup {"pair"}),
           <<p, "pair">> \in rSpent'
    PROVE  RelayInv'
<1>1. /\ f \in RelayConns /\ rConns[f].phase = "waiting" /\ rConns[f].pair = p
      /\ f \in 0 .. Connections /\ f # c
    BY RelayFacts, RelayBounds DEF OpenFine
<1>2. /\ x \in ConnRow /\ x.phase = "mated" /\ x.pair = p /\ x.first = f
      /\ x.role = rConns[c].role
    BY <1>1, RelayFacts, RelayTypes DEF ConnRow
<1>3. /\ rConns' \in [RelayConns -> ConnRow] /\ rConns'[c] = x
      /\ \A d \in RelayConns : d # c => rConns'[d] = rConns[d]
    BY <1>2, RelayFacts DEF RelayTypeOK
<1>4. Issued(p) /\ rConns[c].role \in Roles /\ \A q \in RelayPairs : SpentAfter(q) => SpentAfter(q)'
    BY RelayFacts, PurgeKeeps DEF ConnFine
<1>5. 0 \in 0 .. Connections
    BY RelayBounds
<1>6. /\ rOpen' \in [RelayPairs -> 0 .. Connections] /\ rOpen'[p] = 0
      /\ \A q \in RelayPairs : q # p => rOpen'[q] = rOpen[q]
    BY <1>5, RelayFacts DEF RelayTypeOK
<1>7. \A d \in RelayConns : rConns[d].phase = "mated" =>
         /\ rConns[d].first # c /\ rConns[d].pair # p
         /\ MateFine(d) /\ rConns[d].pair \in RelayPairs /\ Issued(rConns[d].pair)
    BY RelayFacts DEF ConnFine, MateFine
<1>8. SpentAfter(p)' /\ rPaired[p] = 0
    <2>1. ForwardFine(p)
        BY RelayFacts
    <2> QED BY <2>1 DEF ForwardFine, SpentAfter
<1>9. ASSUME NEW d \in RelayConns PROVE ConnFine(d)'
    <2>1. CASE d = c
        <3>1. rConns'[f] = rConns[f]
            BY <1>1, <1>3
        <3>2. MateFine(d)'
            BY <1>1, <1>2, <1>3, <1>8, <2>1, <3>1 DEF MateFine
        <3> QED BY <1>2, <1>3, <1>4, <2>1, <3>2 DEF ConnFine, Issued
    <2>2. CASE d # c
        <3>1. ConnFine(d) /\ rConns'[d] = rConns[d]
            BY <1>3, <2>2, RelayFacts
        <3>2. CASE rConns[d].phase = "mated"
            <4>1. MateFine(d) /\ rConns[d].pair \in RelayPairs /\ Issued(rConns[d].pair)
                BY <1>7, <3>2
            <4>2. rConns'[rConns[d].first] = rConns[rConns[d].first]
                BY <1>3, <1>7, <3>2, <4>1 DEF MateFine
            <4>3. MateFine(d)'
                BY <1>4, <3>1, <4>1, <4>2 DEF MateFine
            <4> QED BY <3>1, <4>1, <4>3 DEF ConnFine, Issued
        <3>3. CASE rConns[d].phase # "mated"
            BY <3>1, <3>3 DEF ConnFine, Issued
        <3> QED BY <3>2, <3>3
    <2> QED BY <2>1, <2>2
<1>10. OneMate'
    <2>1. ASSUME NEW d \in RelayConns, NEW e \in RelayConns, rConns'[d].phase = "mated",
                 rConns'[e].phase = "mated", rConns'[d].pair = rConns'[e].pair
          PROVE  d = e
        <3>1. CASE d # c /\ e # c
            BY <1>3, <2>1, <3>1, RelayFacts DEF OneMate
        <3>2. CASE d = c \/ e = c
            BY <1>2, <1>3, <1>7, <2>1, <3>2
        <3> QED BY <3>1, <3>2
    <2> QED BY <2>1 DEF OneMate
<1>11. ASSUME NEW q \in RelayPairs PROVE OpenFine(q)' /\ ForwardFine(q)'
    <2>1. OpenFine(q) /\ ForwardFine(q)
        BY RelayFacts
    <2>2. ASSUME q = p PROVE OpenFine(q)'
        BY <1>6, <2>2 DEF OpenFine
    <2>3. ASSUME q # p, rOpen[q] # 0 PROVE OpenFine(q)'
        <3>1. /\ rOpen'[q] = rOpen[q] /\ rOpen[q] \in RelayConns /\ rOpen[q] # c /\ rOpen[q] # f
              /\ rConns[rOpen[q]].phase = "waiting" /\ rConns[rOpen[q]].pair = q
            BY <1>1, <1>6, <2>1, <2>3 DEF OpenFine
        <3>2. rConns'[rOpen[q]] = rConns[rOpen[q]]
            BY <1>3, <3>1
        <3>3. \A d \in RelayConns : rConns[d].phase = "mated" => rConns[d].first # rOpen[q]
            BY <2>1, <2>3 DEF OpenFine
        <3>4. \A d \in RelayConns : rConns'[d].phase = "mated" => rConns'[d].first # rOpen[q]
            BY <1>2, <1>3, <3>1, <3>3
        <3> QED BY ONLY <3>1, <3>2, <3>4 DEF OpenFine
    <2>4. ASSUME q # p, rOpen[q] = 0 PROVE OpenFine(q)'
        BY <1>6, <2>4 DEF OpenFine
    <2> QED BY <1>4, <2>1, <2>2, <2>3, <2>4 DEF ForwardFine, Issued
<1>12. ASSUME NEW u \in RelayWorkers PROVE CountFine(u)'
    <2>1. Firsts(u)' = Firsts(u)
        BY <1>2, <1>3 DEF Firsts
    <2> QED BY <2>1, RelayFacts DEF CountFine
<1>13. rPaired' \in [RelayPairs -> Nat] /\ rCount' \in [RelayWorkers -> Nat]
    BY RelayFacts DEF RelayTypeOK
<1> QED BY <1>3, <1>6, <1>9, <1>10, <1>11, <1>12, <1>13, BrokerMoves

LEMMA AttachStep ==
    ASSUME RelayInv, NEW c \in RelayConns, AttachConn(c)
    PROVE  RelayInv'
<1>1. PICK p : p = rConns[c].pair
    OBVIOUS
<1>2. /\ rConns[c].phase = "verified" /\ p \in RelayPairs
      /\ UNCHANGED <<rEpoch, rPairs, rPending, rHeld, rPaired, rDial>>
    BY <1>1, RelayFacts DEF AttachConn, ConnFine
<1>3. rConns[c].role \in Roles /\ rPairs[p].worker \in RelayWorkers
    <2>1. rConns[c].role \in Roles /\ Issued(p)
        BY <1>1, <1>2, RelayFacts DEF ConnFine
    <2> QED BY <1>2, <2>1, RelayFacts DEF PairsFine
<1>4. CASE /\ rConns' = [rConns EXCEPT ![c] = NoConn] /\ UNCHANGED <<rOpen, rCount>>
           /\ rSpent' = rSpent \/ rSpent' = PurgeExpired
    BY <1>2, <1>4, NoConnTyped, QuietMoves
<1>5. CASE /\ rPairs[p].epoch = rEpoch /\ <<p, "pair">> \notin PurgeExpired
           /\ rOpen[p] # 0 /\ rConns[rOpen[p]].role # rConns[c].role /\ ~rPairs[p].expired
           /\ rConns' = [rConns EXCEPT ![c].phase = "mated", ![c].first = rOpen[p]]
           /\ rOpen' = [rOpen EXCEPT ![p] = 0]
           /\ rSpent' = PurgeExpired \cup {<<p, rConns[c].role>>, <<p, "pair">>}
           /\ UNCHANGED rCount
    <2>1. PICK f : f = rOpen[p]
        OBVIOUS
    <2>2. PICK x : x = [rConns[c] EXCEPT !.phase = "mated", !.first = f]
        OBVIOUS
    <2>3. rConns' = [rConns EXCEPT ![c] = x] /\ f # 0 /\ rConns[f].role # rConns[c].role
        BY <1>5, <2>1, <2>2, RelayFacts DEF RelayTypeOK
    <2>4. ~SpentAfter(p)
        <3>1. <<p, "pair">>[1] = p
            OBVIOUS
        <3> QED BY <1>5, <3>1 DEF SpentAfter, PurgeExpired
    <2>5. /\ PurgeExpired \subseteq rSpent' /\ <<p, "pair">> \in rSpent'
        BY <1>5
    <2>6. rSpent' \subseteq RelayPairs \X (Roles \cup {"pair"})
        BY <1>2, <1>3, <1>5, RelayFacts, PurgeTyped
    <2>7. /\ rConns[c].phase = "verified" /\ rConns[c].pair = p /\ rPairs[p].epoch = rEpoch
          /\ p \in RelayPairs /\ rOpen' = [rOpen EXCEPT ![p] = 0]
          /\ UNCHANGED <<rEpoch, rPairs, rPending, rHeld, rCount, rPaired, rDial>>
        BY <1>1, <1>2, <1>5
    <2> QED BY ONLY RelayInv, c \in RelayConns, <2>1, <2>2, <2>3, <2>4, <2>5, <2>6, <2>7, TakesMate
<1>6. CASE /\ rOpen[p] = 0 /\ ~(rCount[rPairs[p].worker] >= PairsPerWorker)
           /\ rConns' = [rConns EXCEPT ![c].phase = "waiting"]
           /\ rOpen' = [rOpen EXCEPT ![p] = c]
           /\ rSpent' = PurgeExpired \cup {<<p, rConns[c].role>>}
           /\ rCount' = [rCount EXCEPT ![rPairs[p].worker] = @ + 1]
    <2>1. PICK x : x = [rConns[c] EXCEPT !.phase = "waiting"]
        OBVIOUS
    <2>2. rConns' = [rConns EXCEPT ![c] = x]
        BY <1>6, <2>1, RelayFacts DEF RelayTypeOK
    <2>3. rCount[rPairs[p].worker] < PairsPerWorker
        BY <1>3, <1>6, RelayFacts, RelayTypes, RelayBounds
    <2>4. PurgeExpired \subseteq rSpent' /\ rSpent' \subseteq RelayPairs \X (Roles \cup {"pair"})
        BY <1>2, <1>3, <1>6, RelayFacts, PurgeTyped
    <2> QED BY <1>1, <1>2, <1>6, <2>1, <2>2, <2>3, <2>4, OpensPair
<1> QED BY <1>1, <1>4, <1>5, <1>6 DEF AttachConn

\* The first connection takes its one mate, for the first time.
LEMMA ForwardStep ==
    ASSUME RelayInv, NEW c \in RelayConns, ForwardPair(c)
    PROVE  RelayInv'
<1>1. PICK p : p = rConns[c].pair
    OBVIOUS
<1>2. PICK x : x = [rConns[c] EXCEPT !.phase = "paired"]
    OBVIOUS
<1>3. PICK m \in RelayConns : rConns[m].phase = "mated" /\ rConns[m].first = c
    BY DEF ForwardPair, MatesOf
<1>4. /\ rConns[c].phase = "waiting" /\ rConns' = [rConns EXCEPT ![c].phase = "paired"]
      /\ rPaired' = [rPaired EXCEPT ![p] = @ + 1]
      /\ UNCHANGED <<rEpoch, rPairs, rPending, rHeld, rOpen, rCount, rSpent, rDial>>
    BY <1>1 DEF ForwardPair
<1>5. /\ p \in RelayPairs /\ Issued(p) /\ rConns[c].role \in Roles
      /\ rConns[m].pair = p /\ SpentAfter(p) /\ rPaired[p] = 0
    BY <1>1, <1>3, <1>4, RelayFacts DEF ConnFine, MateFine
<1>6. /\ x \in ConnRow /\ x.phase = "paired" /\ x.pair = p /\ x.role = rConns[c].role
      /\ rConns' = [rConns EXCEPT ![c] = x]
    <2>1. rConns[c] \in ConnRow
        BY RelayFacts, RelayTypes
    <2> QED BY <1>1, <1>2, <1>4, <2>1, RelayFacts DEF ConnRow, RelayTypeOK
<1>7. /\ rConns' \in [RelayConns -> ConnRow] /\ rConns'[c] = x
      /\ \A d \in RelayConns : d # c => rConns'[d] = rConns[d]
    BY <1>6, RelayFacts DEF RelayTypeOK
<1>8. /\ rPaired' \in [RelayPairs -> Nat] /\ rPaired'[p] = 1
      /\ \A q \in RelayPairs : q # p => rPaired'[q] = rPaired[q]
    BY <1>4, <1>5, RelayFacts DEF RelayTypeOK
<1>9. \A d \in RelayConns : rConns'[d].phase = "mated" =>
         /\ d # c /\ rConns'[d] = rConns[d]
         /\ MateFine(d) /\ rConns[d].pair \in RelayPairs
    BY <1>6, <1>7, RelayFacts DEF ConnFine
<1>10. ASSUME NEW d \in RelayConns, rConns'[d].phase = "mated" PROVE MateFine(d)'
    <2>1. /\ rConns'[d] = rConns[d] /\ MateFine(d) /\ rConns[d].pair \in RelayPairs
          /\ rConns[d].phase = "mated"
        BY <1>9, <1>10
    <2>2. CASE rConns[d].pair = p
        <3>1. d = m
            BY <1>3, <1>5, <2>1, <2>2, RelayFacts DEF OneMate
        <3> QED BY <1>3, <1>4, <1>6, <1>7, <2>1, <3>1 DEF MateFine, SpentAfter
    <2>3. CASE rConns[d].pair # p
        <3>1. rConns[d].first # c /\ rConns[d].first \in RelayConns
            BY <1>1, <2>1, <2>3 DEF MateFine
        <3>2. /\ rConns'[rConns[d].first] = rConns[rConns[d].first]
              /\ rPaired'[rConns[d].pair] = rPaired[rConns[d].pair]
            BY <1>7, <1>8, <2>1, <2>3, <3>1
        <3> QED BY <1>4, <2>1, <3>2 DEF MateFine, SpentAfter
    <2> QED BY <2>2, <2>3
<1>11. ASSUME NEW d \in RelayConns PROVE ConnFine(d)'
    <2>1. rConns'[d].phase # "none" =>
             rConns'[d].role \in Roles /\ rConns'[d].pair \in RelayPairs /\ Issued(rConns'[d].pair)
        BY <1>5, <1>6, <1>7, RelayFacts DEF ConnFine
    <2>2. \A q : Issued(q)' <=> Issued(q)
        BY <1>4 DEF Issued
    <2> QED BY <1>10, <2>1, <2>2 DEF ConnFine, Issued
<1>12. OneMate'
    <2>1. \A d, e \in RelayConns :
             (/\ rConns[d].phase = "mated" /\ rConns[e].phase = "mated"
              /\ rConns[d].pair = rConns[e].pair) => d = e
        BY RelayFacts DEF OneMate
    <2> QED BY <1>9, <2>1 DEF OneMate
<1>13. ASSUME NEW q \in RelayPairs PROVE OpenFine(q)' /\ ForwardFine(q)'
    <2>1. OpenFine(q) /\ ForwardFine(q)
        BY RelayFacts
    <2>2. OpenFine(q)'
        <3>1. CASE rOpen[q] = 0
            BY <1>4, <3>1 DEF OpenFine
        <3>2. CASE rOpen[q] # 0
            <4>1. /\ rOpen[q] \in RelayConns /\ rOpen[q] # c
                  /\ rConns[rOpen[q]].phase = "waiting" /\ rConns[rOpen[q]].pair = q
                BY <1>3, <2>1, <3>2 DEF OpenFine
            <4>2. \A d \in RelayConns : rConns'[d].phase = "mated" => rConns'[d].first # rOpen[q]
                BY <1>9, <2>1, <3>2 DEF OpenFine
            <4> QED BY <1>4, <1>7, <4>1, <4>2 DEF OpenFine
        <3> QED BY <3>1, <3>2
    <2>3. ForwardFine(q)'
        <3>1. CASE q = p
            BY <1>4, <1>5, <1>8, <3>1 DEF ForwardFine, Issued, SpentAfter
        <3>2. CASE q # p
            BY <1>4, <1>8, <2>1, <3>2 DEF ForwardFine, Issued, SpentAfter
        <3> QED BY <3>1, <3>2
    <2> QED BY <2>2, <2>3
<1>14. ASSUME NEW u \in RelayWorkers PROVE CountFine(u)'
    <2>1. Firsts(u)' = Firsts(u)
        BY <1>1, <1>4, <1>6, <1>7 DEF Firsts
    <2>2. CountFine(u)
        BY RelayFacts
    <2> QED BY <1>4, <2>1, <2>2 DEF CountFine
<1>15. /\ rOpen' \in [RelayPairs -> 0 .. Connections] /\ rCount' \in [RelayWorkers -> Nat]
       /\ rSpent' \subseteq RelayPairs \X (Roles \cup {"pair"})
    BY <1>4, RelayFacts DEF RelayTypeOK
<1> QED BY <1>4, <1>7, <1>8, <1>11, <1>12, <1>13, <1>14, <1>15, BrokerMoves

LEMMA RelayReleaseStep ==
    ASSUME RelayInv, NEW c \in RelayConns, ReleasePair(c)
    PROVE  RelayInv'
<1>1. PICK p : p = rConns[c].pair
    OBVIOUS
<1>2. /\ rConns[c].phase \in {"waiting", "paired"}
      /\ rConns' = [d \in RelayConns |->
            IF d = c THEN NoConn
            ELSE IF d \in MatesOf(c) THEN [rConns[d] EXCEPT !.phase = "left", !.first = 0]
            ELSE rConns[d]]
      /\ rOpen' = [rOpen EXCEPT ![p] = IF @ = c THEN 0 ELSE @]
      /\ rCount' = [rCount EXCEPT ![rPairs[p].worker] = @ - 1]
      /\ UNCHANGED <<rEpoch, rPairs, rPending, rHeld, rSpent, rPaired, rDial>>
    BY <1>1 DEF ReleasePair
<1>3. p \in RelayPairs /\ Issued(p)
    BY <1>1, <1>2, RelayFacts DEF ConnFine
<1>4. PICK v \in RelayWorkers : v = rPairs[p].worker
    BY <1>3, RelayFacts DEF PairsFine
<1>5. ASSUME NEW d \in MatesOf(c)
      PROVE  /\ d \in RelayConns /\ d # c /\ rConns[d].phase = "mated"
             /\ rConns'[d] \in ConnRow /\ rConns'[d].phase = "left"
             /\ rConns'[d].pair = rConns[d].pair /\ rConns'[d].role = rConns[d].role
    <2>1. d \in RelayConns /\ d # c /\ rConns[d].phase = "mated"
        BY <1>2 DEF MatesOf
    <2>2. rConns[d] \in ConnRow /\ 0 \in 0 .. Connections
        BY <2>1, RelayFacts, RelayTypes, RelayBounds
    <2>3. rConns'[d] = [rConns[d] EXCEPT !.phase = "left", !.first = 0]
        BY <1>2, <2>1
    <2> QED BY <2>1, <2>2, <2>3 DEF ConnRow
<1>6. rConns'[c] = NoConn
    BY <1>2
<1>7. \A d \in RelayConns : d # c /\ d \notin MatesOf(c) => rConns'[d] = rConns[d]
    BY <1>2
<1>8. rConns' \in [RelayConns -> ConnRow]
    <2>1. \A d \in RelayConns : rConns'[d] \in ConnRow
        BY <1>5, <1>6, <1>7, NoConnTyped, RelayFacts, RelayTypes
    <2>2. rConns' = [d \in RelayConns |-> rConns'[d]]
        BY <1>2
    <2> QED BY <2>1, <2>2
<1>9. 0 \in 0 .. Connections
    BY RelayBounds
<1>10. /\ rOpen' \in [RelayPairs -> 0 .. Connections]
       /\ \A q \in RelayPairs : rOpen'[q] # 0 => rOpen'[q] = rOpen[q] /\ rOpen[q] # 0
       /\ rOpen'[p] # c
    BY <1>2, <1>3, <1>9, RelayFacts, RelayBounds DEF RelayTypeOK
<1>11. \A d \in RelayConns : rConns'[d].phase = "mated" =>
         /\ rConns'[d] = rConns[d] /\ rConns[d].first # c /\ d # c
         /\ MateFine(d) /\ rConns[d].pair \in RelayPairs
    <2>1. ASSUME NEW d \in RelayConns, rConns'[d].phase = "mated"
          PROVE  d # c /\ d \notin MatesOf(c)
        BY <1>5, <1>6, <2>1, NoConnTyped
    <2>2. ASSUME NEW d \in RelayConns, rConns'[d].phase = "mated"
          PROVE  rConns'[d] = rConns[d] /\ rConns[d].first # c
        BY <1>7, <2>1, <2>2 DEF MatesOf
    <2> QED BY <2>1, <2>2, RelayFacts DEF ConnFine
<1>12. \A d \in RelayConns : d # c /\ rConns[d].phase \in {"waiting", "paired"} =>
         rConns'[d] = rConns[d]
    BY <1>7 DEF MatesOf
<1>13. ASSUME NEW d \in RelayConns, rConns'[d].phase = "mated" PROVE MateFine(d)'
    <2>1. rConns'[d] = rConns[d] /\ rConns[d].first # c /\ MateFine(d)
        BY <1>11, <1>13
    <2>2. rConns'[rConns[d].first] = rConns[rConns[d].first]
        BY <1>12, <2>1 DEF MateFine
    <2>3. rPairs' = rPairs /\ rSpent' = rSpent /\ rPaired' = rPaired
        BY <1>2
    <2> QED BY <2>1, <2>2, <2>3 DEF MateFine, SpentAfter
<1>14. ASSUME NEW d \in RelayConns PROVE ConnFine(d)'
    <2>1. rConns'[d].phase # "none" =>
             rConns'[d].role \in Roles /\ rConns'[d].pair \in RelayPairs /\ Issued(rConns'[d].pair)
        <3>1. ConnFine(d)
            BY RelayFacts
        <3>2. CASE d = c
            BY <1>6, <3>2, NoConnTyped
        <3>3. CASE d \in MatesOf(c)
            BY <1>5, <3>1, <3>3 DEF ConnFine
        <3>4. CASE d # c /\ d \notin MatesOf(c)
            BY <1>7, <3>1, <3>4 DEF ConnFine
        <3> QED BY <3>2, <3>3, <3>4
    <2> QED BY <1>2, <1>13, <2>1 DEF ConnFine, Issued
<1>15. OneMate'
    <2>1. \A d, e \in RelayConns :
             (/\ rConns[d].phase = "mated" /\ rConns[e].phase = "mated"
              /\ rConns[d].pair = rConns[e].pair) => d = e
        BY RelayFacts DEF OneMate
    <2> QED BY <1>11, <2>1 DEF OneMate
<1>16. ASSUME NEW q \in RelayPairs PROVE OpenFine(q)' /\ ForwardFine(q)'
    <2>1. OpenFine(q) /\ ForwardFine(q)
        BY RelayFacts
    <2>2. OpenFine(q)'
        <3>1. CASE rOpen'[q] = 0
            BY <3>1 DEF OpenFine
        <3>2. CASE rOpen'[q] # 0
            <4>1. /\ rOpen'[q] = rOpen[q] /\ rOpen[q] \in RelayConns
                  /\ rConns[rOpen[q]].phase = "waiting" /\ rConns[rOpen[q]].pair = q
                  /\ \A d \in RelayConns : rConns[d].phase = "mated" => rConns[d].first # rOpen[q]
                BY <1>10, <2>1, <3>2 DEF OpenFine
            <4>2. rOpen[q] # c
                BY <1>1, <1>10, <4>1
            <4>3. rConns'[rOpen[q]] = rConns[rOpen[q]]
                BY <1>12, <4>1, <4>2
            <4>4. \A d \in RelayConns : rConns'[d].phase = "mated" => rConns'[d].first # rOpen[q]
                BY <1>11, <4>1
            <4> QED BY ONLY <4>1, <4>3, <4>4 DEF OpenFine
        <3> QED BY <3>1, <3>2
    <2> QED BY <1>2, <2>1, <2>2 DEF ForwardFine, Issued, SpentAfter
<1>17. ASSUME NEW u \in RelayWorkers
       PROVE  (Firsts(u))' = Firsts(u) \ {c} /\ (c \in Firsts(u) <=> u = v)
    <2>1. c \in Firsts(u) <=> u = v
        BY <1>1, <1>2, <1>4 DEF Firsts
    <2>2. ASSUME NEW d \in RelayConns
          PROVE  /\ rConns'[d].phase \in {"waiting", "paired"} <=>
                       rConns[d].phase \in {"waiting", "paired"} /\ d # c
                 /\ rConns'[d].phase \in {"waiting", "paired"} => rConns'[d].pair = rConns[d].pair
        <3>1. CASE d = c
            BY <1>6, <3>1, NoConnTyped
        <3>2. CASE d \in MatesOf(c)
            BY <1>5, <3>2
        <3>3. CASE d # c /\ d \notin MatesOf(c)
            BY <1>7, <3>3
        <3> QED BY <3>1, <3>2, <3>3
    <2> QED BY <1>2, <2>1, <2>2 DEF Firsts
<1>18. ASSUME NEW u \in RelayWorkers
       PROVE  CountFine(u)' /\ rCount'[u] \in Nat
    <2>1. /\ CountFine(u) /\ IsFiniteSet(Firsts(u)) /\ Cardinality(Firsts(u)) \in Nat
          /\ rCount[u] \in Nat /\ PairsPerWorker \in Nat
        BY RelayFacts, RelayTypes, RelayBounds, FirstsFinite
    <2>2. CASE u = v
        <3>1. Cardinality(Firsts(u)') = Cardinality(Firsts(u)) - 1
            BY ONLY <1>17, <2>1, <2>2, u \in RelayWorkers, FS_RemoveElement
        <3>2. Cardinality(Firsts(u)') \in Nat
            <4>1. IsFiniteSet(Firsts(u)')
                BY ONLY <1>17, <2>1, u \in RelayWorkers, FS_RemoveElement
            <4> QED BY ONLY <4>1, FS_CardinalityType
        <3>3. rCount'[u] = rCount[u] - 1
            BY <1>2, <1>4, <2>2, RelayFacts DEF RelayTypeOK
        <3> QED BY <2>1, <3>1, <3>2, <3>3 DEF CountFine
    <2>3. CASE u # v
        <3>1. Firsts(u)' = Firsts(u)
            BY <1>17, <2>3
        <3>2. rCount'[u] = rCount[u]
            BY <1>2, <1>4, <2>3, RelayFacts DEF RelayTypeOK
        <3> QED BY <2>1, <3>1, <3>2 DEF CountFine
    <2> QED BY <2>2, <2>3
<1>19. rCount' \in [RelayWorkers -> Nat]
    <2>1. rCount' = [u \in RelayWorkers |-> rCount'[u]]
        BY <1>2, RelayFacts DEF RelayTypeOK
    <2> QED BY <1>18, <2>1
<1>20. rPaired' \in [RelayPairs -> Nat] /\ rSpent' \subseteq RelayPairs \X (Roles \cup {"pair"})
    BY <1>2, RelayFacts DEF RelayTypeOK
<1> QED BY <1>2, <1>8, <1>10, <1>14, <1>15, <1>16, <1>18, <1>19, <1>20, BrokerMoves

\* A restart forgets everything but what tickets say; its epoch refuses them.
LEMMA RelayRestartStep ==
    ASSUME RelayInv, RelayRestarts
    PROVE  RelayInv'
<1>1. /\ rEpoch < MaxRelayEpoch /\ rEpoch' = rEpoch + 1
      /\ rConns' = [c \in RelayConns |-> NoConn] /\ rOpen' = [p \in RelayPairs |-> 0]
      /\ rPending' = [w \in RelayWorkers |-> 0] /\ rCount' = [w \in RelayWorkers |-> 0]
      /\ rSpent' = {} /\ UNCHANGED <<rPairs, rHeld, rPaired, rDial>>
    BY DEF RelayRestarts
<1>2. /\ rEpoch \in 1 .. MaxRelayEpoch /\ rEpoch \in Nat /\ MaxRelayEpoch \in Nat
      /\ 0 \in 0 .. MaxPairs /\ 0 \in 0 .. Connections /\ PairsPerWorker \in Nat
    BY RelayFacts, RelayTypes, RelayBounds DEF RelayTypeOK
<1>3. rEpoch' \in 1 .. MaxRelayEpoch
    BY <1>1, <1>2
<1>4. RelayTypeOK'
    BY <1>1, <1>2, <1>3, NoConnTyped, RelayFacts DEF RelayTypeOK
<1>5. PairsFine'
    <2>1. \A p \in RelayPairs : rPairs[p].epoch \in Nat /\ rPairs[p].epoch <= rEpoch
        BY RelayFacts, RelayTypes, RelayBounds DEF PairsFine
    <2>2. \A p \in RelayPairs : rPairs[p].epoch <= rEpoch'
        BY <1>1, <1>2, <2>1
    <2> QED BY <1>1, <2>2, RelayFacts DEF PairsFine, Issued
<1>6. TicketsFine'
    BY <1>1, RelayFacts DEF TicketsFine, Issued
<1>7. \A c \in RelayConns : rConns'[c].phase = "none"
    BY <1>1, NoConnTyped
<1>8. OneMate' /\ \A c \in RelayConns : ConnFine(c)'
    BY <1>7 DEF OneMate, ConnFine
<1>9. ASSUME NEW p \in RelayPairs PROVE OpenFine(p)' /\ ForwardFine(p)'
    <2>1. OpenFine(p)'
        BY <1>1 DEF OpenFine
    <2>2. rPairs[p].epoch \in Nat /\ rPairs[p].epoch <= rEpoch /\ ForwardFine(p)
        BY RelayFacts, RelayTypes, RelayBounds DEF PairsFine
    <2>3. rPairs[p].epoch # rEpoch'
        BY <1>1, <1>2, <2>2
    <2> QED BY <1>1, <2>1, <2>2, <2>3 DEF ForwardFine, Issued
<1>10. ASSUME NEW w \in RelayWorkers PROVE CountFine(w)'
    <2>1. Firsts(w)' = {}
        BY <1>7 DEF Firsts
    <2>2. Cardinality(Firsts(w)') = 0
        BY ONLY <2>1, FS_EmptySet
    <2> QED BY <1>1, <1>2, <2>2 DEF CountFine
<1> QED BY <1>4, <1>5, <1>6, <1>8, <1>9, <1>10 DEF RelayInv

----------------------------------------------------------------------------
(* The relay: the theorems *)

LEMMA RelayInvInit ==
    ASSUME RelayInit
    PROVE  RelayInv
<1>1. /\ MaxRelayEpoch \in Nat /\ MaxRelayEpoch # 0 /\ PairsPerWorker \in Nat
      /\ 0 \in 0 .. MaxPairs /\ 0 \in 0 .. Connections
    BY RelayAssumption, RelayBounds
<1>2. rEpoch = 1 /\ 1 \in 1 .. MaxRelayEpoch /\ 0 \in 0 .. MaxRelayEpoch
    BY <1>1 DEF RelayInit
<1>3. NoPair \in PairRow /\ NoPair.epoch = 0
    BY <1>2 DEF NoPair, PairRow
<1>4. RelayTypeOK
    BY <1>1, <1>2, <1>3, NoConnTyped DEF RelayInit, RelayTypeOK
<1>5. PairsFine
    BY <1>2, <1>3 DEF RelayInit, PairsFine, Issued
<1>6. TicketsFine
    BY DEF RelayInit, TicketsFine
<1>7. \A c \in RelayConns : rConns[c].phase = "none"
    BY NoConnTyped DEF RelayInit
<1>8. OneMate /\ \A c \in RelayConns : ConnFine(c)
    BY <1>7 DEF OneMate, ConnFine
<1>9. \A p \in RelayPairs : OpenFine(p) /\ ForwardFine(p)
    BY DEF RelayInit, OpenFine, ForwardFine
<1>10. ASSUME NEW w \in RelayWorkers PROVE CountFine(w)
    <2>1. Firsts(w) = {}
        BY <1>7 DEF Firsts
    <2>2. Cardinality(Firsts(w)) = 0
        BY ONLY <2>1, FS_EmptySet
    <2> QED BY <1>1, <2>2 DEF RelayInit, CountFine
<1> QED BY <1>4, <1>5, <1>6, <1>8, <1>9, <1>10 DEF RelayInv

LEMMA RelayInvStep ==
    ASSUME RelayInv, [RelayNext]_relayVars
    PROVE  RelayInv'
<1>1. CASE UNCHANGED relayVars
    <2>1. /\ UNCHANGED <<rEpoch, rPairs, rPending, rHeld, rConns, rOpen, rCount, rSpent, rPaired>>
          /\ rDial' \in [RelayWorkers -> {"direct", "alternate", "up"}]
        BY <1>1, RelayFacts DEF relayVars, RelayTypeOK
    <2> QED BY <2>1, TicketsStay, DialMoves
<1> QED BY <1>1, IssueStep, TryDirectStep, ClaimStep, PeerStep, AcceptStep, AttachStep, ForwardStep,
           RelayReleaseStep, MateLeavesStep, ExpireStep, RelayRestartStep DEF RelayNext

(* RelayInv is inductive: what the Broker keeps of a pair, the ticket's     *)
(* place in the replay table, its expiry or its epoch, shuts out a second   *)
(* mate from the moment the first one is taken (attach, release, handle).   *)
THEOREM RelaySafe == RelaySpec => []RelayInv
<1>1. RelayInit => RelayInv
    BY RelayInvInit
<1>2. RelayInv /\ [RelayNext]_relayVars => RelayInv'
    BY RelayInvStep
<1> QED BY <1>1, <1>2, PTL DEF RelaySpec

(* Epochs, pairs, tickets, connections and counts keep their types. *)
THEOREM RelayTyped == RelaySpec => []RelayTypeOK
<1>1. RelayInv => RelayTypeOK
    BY DEF RelayInv
<1> QED BY <1>1, RelaySafe, PTL

(* However tickets are presented again, expire between verification and     *)
(* attach or outlive a restart, a pair is forwarded at most once, between   *)
(* one connection of each role, and the count of a Worker is that of its    *)
(* first connections, within the quota (attach, release, handle).           *)
THEOREM RelaysPairOnce == RelaySpec => []RelayPairsOnce
<1>1. ASSUME RelayInv
      PROVE  RelayPairsOnce
    <2>1. \A p \in RelayPairs : rPaired[p] <= 1
        BY <1>1, RelayFacts DEF ForwardFine
    <2>2. ASSUME NEW c \in RelayConns, NEW d \in MatesOf(c)
          PROVE  rConns[d].role # rConns[c].role /\ rConns[d].pair = rConns[c].pair
        <3>1. d \in RelayConns /\ rConns[d].phase = "mated" /\ rConns[d].first = c
            BY DEF MatesOf
        <3>2. MateFine(d)
            BY <1>1, <3>1, RelayFacts DEF ConnFine
        <3> QED BY <3>1, <3>2 DEF MateFine
    <2>3. \A w \in RelayWorkers : CountFine(w)
        BY <1>1, RelayFacts
    <2> QED BY <2>1, <2>2, <2>3 DEF RelayPairsOnce, CountFine, Firsts
<1> QED BY <1>1, RelaySafe, PTL

----------------------------------------------------------------------------
(* All services, side by side *)

(* The invariants of the seven services together.                          *)
ServicesInv ==
    /\ GoalsInv /\ GatewayInv /\ RelayInv /\ WorkspacesInv
    /\ RemoteInv /\ FairInv /\ ConversationsInv

(* Whichever service moves, its rows keep their types, the queue stays      *)
(* within checkQueueAdmission's limit, and the rows of the others are left  *)
(* alone.                                                                   *)
THEOREM ServicesTyped == MCSpec => []ServicesTypeOK
<1> DEFINE all == <<part, goalVars, gwVars, relayVars, wsVars, rtVars, fsVars, cvVars>>
<1>1. MCInit => ServicesInv
    <2> SUFFICES ASSUME MCInit PROVE ServicesInv
        OBVIOUS
    <2>1. /\ GoalsInit /\ GatewayInit /\ RelayInit /\ WorkspacesInit
          /\ RemoteInit /\ FairInit /\ ConversationsInit
        BY DEF MCInit
    <2>2. GoalsInv /\ GatewayInv /\ WorkspacesInv
        BY <2>1, GoalsInvInit, GatewayInvInit, WorkspacesInvInit
    <2>3. RelayInv
        BY <2>1, RelayInvInit
    <2>4. RemoteInv
        BY <2>1, RemoteInvInit
    <2>5. FairInv
        BY <2>1, FairBegins
    <2>6. ConversationsInv
        BY <2>1, ConversationsInvInit
    <2> QED BY <2>2, <2>3, <2>4, <2>5, <2>6 DEF ServicesInv
<1>2. ServicesInv /\ [MCNext]_all => ServicesInv'
    <2> SUFFICES ASSUME ServicesInv, [MCNext]_all PROVE ServicesInv'
        OBVIOUS
    <2>1. /\ [GoalsNext]_goalVars /\ [GatewayNext]_gwVars /\ [RelayNext]_relayVars
          /\ [WorkspacesNext]_wsVars /\ [RemoteNext]_rtVars /\ [FairNext]_fsVars
          /\ [ConversationsNext]_cvVars
        BY DEF MCNext
    <2>2. /\ GoalsInv /\ GatewayInv /\ RelayInv /\ WorkspacesInv
          /\ RemoteInv /\ FairInv /\ ConversationsInv
        BY DEF ServicesInv
    <2>3. GoalsInv' /\ GatewayInv' /\ WorkspacesInv'
        BY <2>1, <2>2, GoalsInvStep, GatewayInvStep, WorkspacesInvStep
    <2>4. RelayInv'
        BY <2>1, <2>2, RelayInvStep
    <2>5. RemoteInv'
        BY <2>1, <2>2, RemoteInvStep
    <2>6. FairInv'
        BY <2>1, <2>2, FairSteps
    <2>7. ConversationsInv'
        BY <2>1, <2>2, ConversationsInvStep
    <2> QED BY <2>3, <2>4, <2>5, <2>6, <2>7 DEF ServicesInv
<1>3. ServicesInv => ServicesTypeOK
    BY DEF ServicesInv, ServicesTypeOK, GoalsInv, GatewayInv, RelayInv, WorkspacesInv, RemoteInv, FairInv,
           ConversationsInv
<1> QED BY <1>1, <1>2, <1>3, PTL DEF MCSpec
=============================================================================

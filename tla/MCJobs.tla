-------------------------------- MODULE MCJobs -------------------------------
(***************************************************************************)
(* Instances, for TLC, of the two kinds of Job with several Tasks,         *)
(* map-reduce and graph.  One of them moves in a behaviour, chosen at the  *)
(* start, and the other keeps its initial state.                           *)
(***************************************************************************)
EXTENDS MapReduce, GraphJobs

CONSTANT Parts   \* the components that are looked at

VARIABLE part    \* the one that moves

\* Disjoint scopes, and scopes of which one is below the other.
MCSpecs == {[p1 |-> {<<"a">>}, p2 |-> {<<"b">>}],
            [p1 |-> {<<"a">>}, p2 |-> {<<"a", "x">>}]}

MCPatches == {{<<"a", "x">>}, {<<"b">>}}

\* A condition is a control edge.
Edge(from, to, when) == [from |-> from, to |-> to, when |-> when, data |-> when = ""]

Plan(nodes, kind, edges, out) ==
    [nodes |-> nodes, kind |-> kind, edges |-> edges, outputs |-> {out},
     imports |-> {}, reuse |-> {}, coverage |-> FALSE, text |-> [n \in DOMAIN kind |-> 1]]

\* A command with a handler for each verdict, joined again.
BranchPlan ==
    Plan(<<"a", "b", "j", "x">>,
         [a |-> "command", b |-> "agent", j |-> "selected", x |-> "agent"],
         {Edge("a", "b", "PASS"), Edge("x", "b", ""), Edge("a", "j", "FAIL"),
          Edge("a", "j", "UNKNOWN"), Edge("b", "j", "")}, "j")

OnePlan == Plan(<<"x">>, [x |-> "agent"], {}, "x")

TwoPlan == Plan(<<"a", "x">>, [a |-> "command", x |-> "agent"], {Edge("a", "x", "")}, "x")

\* x comes after y and reads nothing of it.
AfterPlan ==
    Plan(<<"x", "y">>, [x |-> "agent", y |-> "agent"],
         {[Edge("y", "x", "") EXCEPT !.data = FALSE]}, "x")

CoverPlan == [OnePlan EXCEPT !.coverage = TRUE]

MCGraphPlans ==
    [branch  |-> BranchPlan,
     one     |-> OnePlan,
     reused  |-> [OnePlan EXCEPT !.reuse = {"x"}],
     changed |-> [OnePlan EXCEPT !.reuse = {"x"}, !.text = [x |-> 2]],
     after   |-> AfterPlan,
     taken   |-> [AfterPlan EXCEPT !.imports = {"x"}],
     import  |-> [OnePlan EXCEPT !.imports = {"x"}],
     two     |-> TwoPlan,
     again   |-> [TwoPlan EXCEPT !.reuse = {"x"}],
     cover   |-> CoverPlan,
     recover |-> [CoverPlan EXCEPT !.text = [x |-> 2]],
     cyclic  |-> [BranchPlan EXCEPT !.edges = @ \cup {Edge("b", "x", "")}],
     partial |-> [BranchPlan EXCEPT !.edges = @ \ {Edge("a", "j", "UNKNOWN")}]]

MCGraphProposals ==
    [p \in DOMAIN MCGraphPlans |->
        CASE p = "one"   -> {"reused", "changed", "import", "cyclic"}
          [] p = "reused" -> {"import"}
          [] p = "two"   -> {"again"}
          [] p = "after" -> {"taken"}
          [] p = "cover" -> {"cover", "recover"}
          [] OTHER       -> {}]

MCMoves ==
    [p \in DOMAIN MCGraphPlans |->
        CASE p \in {"branch", "two", "after"} -> 1 [] p = "one" -> 2 [] p = "cover" -> 3 [] OTHER -> 0]

----------------------------------------------------------------------------
MCInit ==
    /\ part \in Parts
    /\ MapReduceInit /\ GraphInit

MCNext ==
    /\ UNCHANGED part
    /\ \/ part = "mapreduce" /\ MapReduceNext /\ UNCHANGED graphVars
       \/ part = "graph" /\ GraphNext /\ UNCHANGED mrVars

MCSpec ==
    /\ MCInit /\ [][MCNext]_<<part, mrVars, graphVars>>
    /\ part = "graph" => GraphFairness

\* The type invariant of the Jobs, with the limits of generations, validity
\* events and source reads (publishGraphReplan, invalidateGraphTx, ReadGraphSource).
JobsTypeOK == MapReduceTypeOK /\ GraphTypeOK
=============================================================================

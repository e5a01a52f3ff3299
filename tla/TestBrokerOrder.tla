--------------------------- MODULE TestBrokerOrder ---------------------------
(***************************************************************************)
(* TestBroker: the order in which the handlers of a workflow run.  The     *)
(* order is read off the definition of the workflow, step by step, apart   *)
(* from the messages that carry it.                                        *)
(***************************************************************************)
EXTENDS TestBroker

\* The order a workflow runs in, from its definition: a task, its callbacks with all that
\* follows each, then the next step of its chain.  A run is the position its caller has
\* in that order, the name and the arguments.
RECURSIVE Walk(_, _, _, _)
Walk(step, chain, from, at) ==
    LET After(runs, callback) == runs \o Walk(callback, <<>>, at, at + Len(runs))
        linked == FoldLeft(After,
                      <<[from |-> from, task |-> step.task, args |-> step.args,
                         immutable |-> step.immutable, errbacks |-> Option(step, "link_error")]>>,
                      as_signatures(Option(step, "link")))
    IN IF chain = <<>> THEN linked
       ELSE linked \o Walk(Last(chain), Front(chain), at, at + Len(linked))
Workflow(task) == LET whole == as_signature(task)
                  IN Walk(whole, as_signatures(Option(whole, "chain")), 0, 1)
Workflows == [task \in {order.body : order \in {order \in Orders : IsTask(order.body)}} |-> Workflow(task)]

\* The log of a workflow is its order, as far as it came: each step ran in a handler for
\* it, called by the one before it, with its result first unless it is immutable, and
\* under the root; after a handler that raised come only its errbacks, with its id
\* (canvas.py, on_success and on_failure, as the fake producer nests them).
RunsInOrder ==
    \A root \in DOMAIN asked : IsTask(asked[root].body) =>
        LET runs  == SelectSeq(log, LAMBDA e : e.task # None /\ e.root = root)
            order == Workflows[asked[root].body]
            failed == {i \in DOMAIN runs : ~runs[i].ok}
            stop  == IF failed = {} THEN Len(runs) ELSE Min(failed)
        IN  /\ stop <= Len(order)
            /\ \A i \in 1..stop :
                  LET by == order[i].from IN
                  /\ runs[i].task = order[i].task /\ Suits(subscribers[runs[i].sub], runs[i].task)
                  /\ IF by = 0 THEN runs[i].id = root /\ runs[i].parent = None /\ runs[i].args = order[i].args
                     ELSE /\ runs[i].parent = runs[by].id
                          /\ runs[i].args = IF order[i].immutable THEN order[i].args
                                            ELSE <<runs[by].result>> \o order[i].args
            /\ \A i \in stop + 1..Len(runs) :
                  LET errback == as_signatures(order[stop].errbacks)[i - stop] IN
                  /\ runs[i].task = errback.task /\ runs[i].parent = runs[stop].id
                  /\ runs[i].args = IF errback.immutable THEN errback.args
                                    ELSE <<runs[stop].id>> \o errback.args
=============================================================================

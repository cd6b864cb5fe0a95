---------------------------- MODULE MCControlPlane ----------------------------
(***************************************************************************)
(* A small instance of each part of ControlPlane.                          *)
(***************************************************************************)
EXTENDS ControlPlane, TLC

CONSTANTS w1, w2, w3

\* The triggers of each revision.
Fires == "r1" :> {"t1", "t2"} @@ "r2" :> {}

\* Whom each invitation is for.
Invitee == "i1" :> "b" @@ "i2" :> "c"

\* Two names, one of which the other gets when it is taken, and where a request runs.
Taken == <<"p2", "n">>
Contents == {<< <<"n">> >>, << <<"n">>, Taken >>}
HubOf == "a" :> "h1" @@ "b" :> "h1" @@ "c" :> "h2"
Order == <<"p1", "p2">>
Names == {<<"n">>, Taken}

\* The things that events are about have their names and homes, an issue has its filter,
\* and an organization its first document.
MCInit ==
  /\ Init
  /\ part = "routing" => /\ s2["r1"] = "e1" /\ s2["r2"] = IF s1 = "github" THEN "e2" ELSE "e1"
                         /\ s3 = [r1 |-> "n1", r2 |-> "n2"]
  /\ part = "issues" => /\ s1.project = "p" /\ s1.states = {"s"}
                        /\ s2 # None => s2.project = "p" /\ s2.labels = {}
  /\ part = "entitlements" => s1 = [seats |-> 1, executions |-> 1]

MCSpec == MCInit /\ [][Next]_vars

\* Callers, workers and sockets of a part differ in nothing but what they do: no action
\* orders them or chooses one, and so the states that differ in who is who are one.
Symmetry == Permutations({w1, w2})

=============================================================================

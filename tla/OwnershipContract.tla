-------------------------- MODULE OwnershipContract --------------------------
(***************************************************************************)
(* What the lifecycle broker promises its supervisor, without ledgers,     *)
(* processes or messages: a prompt's authority only moves forward; work is *)
(* dispatched under open authority alone; a prompt is settled only when    *)
(* none of its work can still run, and an owner is retired only when all   *)
(* its prompts are settled and its provider session is gone.               *)
(***************************************************************************)
EXTENDS Naturals

CONSTANTS Owners, Prompts, Work  \* Work: the invocations of one prompt

VARIABLES
  authority,  \* authority[o][p]: "none", "open", "closed" or "settled"
  owner,      \* owner[o]: "open", "retiring" or "retired"
  session,    \* session[o]: "absent", "possible" or "gone"
  work        \* work[o][p]: invocations that may still run at the provider

contractVars == <<authority, owner, session, work>>

Rank == [none |-> 0, open |-> 1, closed |-> 2, settled |-> 3]

Init ==
  /\ authority = [o \in Owners |-> [p \in Prompts |-> "none"]]
  /\ owner = [o \in Owners |-> "open"]
  /\ session = [o \in Owners |-> "absent"]
  /\ work = [o \in Owners |-> [p \in Prompts |-> {}]]

(* Authorities of any owners are granted or closed, never reopened, and    *)
(* none is settled; owners may start to retire.                            *)
Regulate ==
  /\ authority' \in [Owners -> [Prompts -> {"none", "open", "closed", "settled"}]]
  /\ owner' \in [Owners -> {"open", "retiring", "retired"}]
  /\ \A o \in Owners :
       /\ owner'[o] = owner[o] \/ (owner[o] = "open" /\ owner'[o] = "retiring")
       /\ \A p \in Prompts :
            /\ Rank[authority[o][p]] <= Rank[authority'[o][p]]
            /\ authority'[o][p] = "settled" => authority[o][p] = "settled"
            /\ authority[o][p] = "none" /\ authority'[o][p] # "none" => owner[o] = "open"
  /\ UNCHANGED <<session, work>>

(* Work starts under open authority, in a session that exists.             *)
Dispatch(o, p, n) ==
  /\ authority[o][p] = "open" /\ owner[o] = "open" /\ session[o] = "possible"
  /\ work' = [work EXCEPT ![o][p] = @ \cup {n}]
  /\ UNCHANGED <<authority, owner, session>>

\* Work of an owner ends, alone or with its whole session.
Quiet(o) ==
  /\ \E w \in [Prompts -> SUBSET Work] :
       /\ \A p \in Prompts : w[p] \subseteq work[o][p]
       /\ work' = [work EXCEPT ![o] = w]
  /\ session' \in [Owners -> {"absent", "possible", "gone"}]
  /\ \A x \in Owners \ {o} : session'[x] = session[x]
  /\ session'[o] = session[o] \/ (session[o] = "possible" /\ session'[o] = "gone" /\ owner[o] = "retiring")
  /\ UNCHANGED <<authority, owner>>

\* One creation at a time, and none after it unless it was refused.
Create(o) ==
  /\ session[o] = "absent" /\ owner[o] # "retired"
  /\ session' = [session EXCEPT ![o] = "possible"]
  /\ UNCHANGED <<authority, owner, work>>

Refuse(o) ==
  /\ session[o] = "possible" /\ \A p \in Prompts : work[o][p] = {}
  /\ session' = [session EXCEPT ![o] = "absent"]
  /\ UNCHANGED <<authority, owner, work>>

(* Settlement of closed prompts without work; the retirement of their      *)
(* owner with it when nothing of it is left.                               *)
Settle(o, P) ==
  /\ \A p \in P : authority[o][p] = "closed" /\ work[o][p] = {}
  /\ authority' = [authority EXCEPT ![o] =
       [p \in Prompts |-> IF p \in P THEN "settled" ELSE @[p]]]
  /\ \/ UNCHANGED owner
     \/ /\ owner[o] = "retiring" /\ session[o] # "possible"
        /\ \A p \in Prompts \ P : authority[o][p] \in {"none", "settled"}
        /\ owner' = [owner EXCEPT ![o] = "retired"]
  /\ UNCHANGED <<session, work>>

Next ==
  \/ Regulate
  \/ \E o \in Owners :
       \/ \E p \in Prompts, n \in Work : Dispatch(o, p, n)
       \/ Quiet(o) \/ Create(o) \/ Refuse(o)
       \/ \E P \in SUBSET Prompts : Settle(o, P)

Spec == Init /\ [][Next]_contractVars
=============================================================================

---------------------------- MODULE OwnerIngest -----------------------------
(***************************************************************************)
(* What an ingestion of many owners promises, with no cloud in it: it      *)
(* finds out whom there is, then each of them is answered for in full or   *)
(* named as not answering, and the graph is published when all have been.  *)
(* It may fail as a whole only as long as it has told nothing of anybody.  *)
(***************************************************************************)
EXTENDS Tables

CONSTANT Owner

VARIABLES
  holdings,  \* what each owner has
  found,     \* the owners in the scope
  told,      \* what was said of an owner: "answered" or "unreachable"
  visible,   \* what the graph holds
  state      \* "reading", "ready" or "failed"

absVars == <<holdings, found, told, visible, state>>

AbsInit ==
  /\ DOMAIN holdings = Owner
  /\ found \subseteq Owner
  /\ told = <<>> /\ visible = {}
  /\ state = "reading"

Meet ==
  /\ state = "reading" /\ told = <<>>
  /\ \E o \in Owner \ found : found' = found \cup {o}
  /\ UNCHANGED <<holdings, told, visible, state>>

Tell(o, word) ==
  /\ state = "reading" /\ o \in found \ DOMAIN told
  /\ told' = Over(Only(o, word), told)
  /\ UNCHANGED <<holdings, found, state>>

Deliver(o) == Tell(o, "answered") /\ visible' = visible \cup holdings[o]
Miss(o) == Tell(o, "unreachable") /\ UNCHANGED visible

Publish ==
  /\ state = "reading" /\ DOMAIN told = found
  /\ state' = "ready"
  /\ UNCHANGED <<holdings, found, told, visible>>

Fail ==
  /\ state = "reading" /\ told = <<>>
  /\ state' = "failed"
  /\ found' = {}
  /\ UNCHANGED <<holdings, told, visible>>

AbsNext == Meet \/ Publish \/ Fail \/ \E o \in Owner : Deliver(o) \/ Miss(o)

AbsSafety == AbsInit /\ [][AbsNext]_absVars

AbsSpec == AbsSafety /\ <>(state # "reading")
=============================================================================

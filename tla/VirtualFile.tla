----------------------------- MODULE VirtualFile ------------------------------
(***************************************************************************)
(* What vsmkv promises to those who read its mount point: read-only files  *)
(* whose content never changes.  Clients ask for a range and are answered  *)
(* with the bytes found there, possibly fewer than asked for but at least  *)
(* Promise of them; or the file system goes away altogether.               *)
(*                                                                         *)
(* Nothing of how the bytes are produced is visible here.                  *)
(***************************************************************************)
EXTENDS Integers, Sequences

CONSTANTS
  Clients,      \* whoever may have one read in progress
  Requests,     \* records with the fields stream, offset and size
  NoRequest,
  Byte(_, _),   \* Byte(s, p): the byte of file s at offset p
  Promise(_)    \* Promise(r): the least number of bytes of an answer to r

VARIABLES
  asked,        \* what each client has asked for
  answer,       \* the answer to it, empty until there is one
  alive         \* the file system is mounted

vars == <<asked, answer, alive>>

Init ==
  /\ asked = [c \in Clients |-> NoRequest]
  /\ answer = [c \in Clients |-> <<>>]
  /\ alive = TRUE

Ask(c) ==
  /\ alive
  /\ asked[c] = NoRequest
  /\ \E r \in Requests : asked' = [asked EXCEPT ![c] = r]
  /\ UNCHANGED <<answer, alive>>

\* The first n bytes of the range r.
Content(r, n) == [k \in 1 .. n |-> Byte(r.stream, r.offset + k - 1)]

Answer(c) ==
  /\ alive
  /\ asked[c] # NoRequest
  /\ answer[c] = <<>>
  /\ \E n \in Promise(asked[c]) .. asked[c].size :
       answer' = [answer EXCEPT ![c] = Content(asked[c], n)]
  /\ UNCHANGED <<asked, alive>>

Take(c) ==
  /\ alive
  /\ answer[c] # <<>>
  /\ asked' = [asked EXCEPT ![c] = NoRequest]
  /\ answer' = [answer EXCEPT ![c] = <<>>]
  /\ UNCHANGED alive

GoAway ==
  /\ alive
  /\ alive' = FALSE
  /\ UNCHANGED <<asked, answer>>

Next ==
  \/ \E c \in Clients : Ask(c) \/ Answer(c) \/ Take(c)
  \/ GoAway

Spec == Init /\ [][Next]_vars

\* While the file system is mounted, a client that asked is answered and its
\* answer delivered.
FairSpec ==
  Spec /\ \A c \in Clients : WF_vars(Answer(c) \/ Take(c))
=============================================================================

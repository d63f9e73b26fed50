------------------------------- MODULE Tunnel -------------------------------
(***************************************************************************)
(* What the whole program promises to its users: a two-way byte tunnel     *)
(* between the standard streams of an access client and a TCP target.      *)
(*                                                                         *)
(* Chunks are numbered in the order they enter.  Each direction hands out  *)
(* a prefix of what entered, in blocks of any size; either end may cut the *)
(* tunnel at any time, and what is under way may then be lost.             *)
(***************************************************************************)
EXTENDS Integers, Sequences, Chunks

VARIABLES
  asked,    \* the client has asked for the connection
  opened,   \* the target was connected to
  typed,    \* chunks the client was given to send
  wrote,    \* chunks written to the target
  emitted,  \* chunks read from the target
  shown,    \* chunks the client has put out
  left,     \* the client has ended
  hungUp    \* the connection to the target was closed

vars == <<asked, opened, typed, wrote, emitted, shown, left, hungUp>>

Init ==
  /\ asked = FALSE /\ opened = FALSE /\ left = FALSE /\ hungUp = FALSE
  /\ typed = 0 /\ emitted = 0 /\ wrote = <<>> /\ shown = <<>>

Ask ==
  /\ ~ asked /\ asked' = TRUE
  /\ UNCHANGED <<opened, typed, wrote, emitted, shown, left, hungUp>>

\* The target is connected to because a client asked for it, and once.
Open ==
  /\ asked /\ ~ opened /\ opened' = TRUE
  /\ UNCHANGED <<asked, typed, wrote, emitted, shown, left, hungUp>>

\* The client's input is not touched before the target is connected.
Type ==
  /\ opened /\ ~ left
  /\ typed' = typed + 1
  /\ UNCHANGED <<asked, opened, wrote, emitted, shown, left, hungUp>>

Write ==
  /\ opened /\ ~ hungUp /\ Len(wrote) < typed
  /\ wrote' = UpTo(Len(wrote) + 1)
  /\ UNCHANGED <<asked, opened, typed, emitted, shown, left, hungUp>>

Emit ==
  /\ opened
  /\ emitted' = emitted + 1
  /\ UNCHANGED <<asked, opened, typed, wrote, shown, left, hungUp>>

Show ==
  /\ ~ left
  /\ \E n \in Len(shown) + 1 .. emitted : shown' = UpTo(n)
  /\ UNCHANGED <<asked, opened, typed, wrote, emitted, left, hungUp>>

\* Each end leaves once and for good.
Leave ==
  /\ ~ left /\ left' = TRUE
  /\ UNCHANGED <<asked, opened, typed, wrote, emitted, shown, hungUp>>

HangUp ==
  /\ opened /\ ~ hungUp /\ hungUp' = TRUE
  /\ UNCHANGED <<asked, opened, typed, wrote, emitted, shown, left>>

Next == Ask \/ Open \/ Type \/ Write \/ Emit \/ Show \/ Leave \/ HangUp

Spec == Init /\ [][Next]_vars

=============================================================================

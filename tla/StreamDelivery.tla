--------------------------- MODULE StreamDelivery ---------------------------
(***************************************************************************)
(* What a stream promises to the side that reads it, whoever produces it   *)
(* and whatever fails in between: the messages come in the order in which  *)
(* they were sent, none is left out and none comes twice, and the end of   *)
(* the stream comes after all of them and after the last send.  A reader   *)
(* may be left without an end, and knows it then.                          *)
(***************************************************************************)
EXTENDS Integers, Sequences

CONSTANT Item

VARIABLES
  sent,       \* what the producing side was told is sent
  delivered,  \* what the reader has
  phase       \* "reading", "ended" or "left"

vars == <<sent, delivered, phase>>

(* Streams may have a beginning that is there from the start. *)
Init ==
  /\ sent \in Seq(Item)
  /\ delivered = <<>>
  /\ phase = "reading"

(* Whatever the last item is: there may be infinitely many. *)
Send ==
  /\ phase # "ended"
  /\ Len(sent') = Len(sent) + 1
  /\ sent'[Len(sent')] \in Item
  /\ sent' = Append(sent, sent'[Len(sent')])
  /\ UNCHANGED <<delivered, phase>>

Deliver ==
  /\ phase = "reading"
  /\ Len(delivered) < Len(sent)
  /\ delivered' = Append(delivered, sent[Len(delivered) + 1])
  /\ UNCHANGED <<sent, phase>>

End ==
  /\ phase = "reading"
  /\ delivered = sent
  /\ phase' = "ended"
  /\ UNCHANGED <<sent, delivered>>

(* Nothing is promised any more: the reader was told, or does not care. *)
Leave ==
  /\ phase' = "left"
  /\ delivered' = <<>>
  /\ UNCHANGED sent

Next == Send \/ Deliver \/ End \/ Leave

Spec == Init /\ [][Next]_vars

=============================================================================

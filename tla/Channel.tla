------------------------------ MODULE Channel ------------------------------
(***************************************************************************)
(* What every queue and every connection of the boost_asio_olc framework   *)
(* promises to the layer above it: a first-in first-out channel.  Items    *)
(* are accepted one at a time and delivered in the order in which they     *)
(* were accepted, each at most once, none invented.                        *)
(*                                                                         *)
(* TSQueue (the thread safe queue between the asio thread and the          *)
(* application thread) and Connection (one TCP connection between two      *)
(* processes) are both shown to implement this specification.              *)
(***************************************************************************)
EXTENDS Naturals, Sequences

CONSTANT Item           \* what the channel carries

VARIABLES sent,         \* everything accepted so far, in order
          delivered     \* everything handed to the receiver so far, in order

chanVars == <<sent, delivered>>

TypeOK ==
  /\ sent \in Seq(Item)
  /\ delivered \in Seq(Item)

Init ==
  /\ sent = <<>>
  /\ delivered = <<>>

Accept(m) ==
  /\ sent' = Append(sent, m)
  /\ UNCHANGED delivered

Deliver ==
  /\ Len(delivered) < Len(sent)
  /\ delivered' = Append(delivered, sent[Len(delivered) + 1])
  /\ UNCHANGED sent

Next == (\E m \in Item : Accept(m)) \/ Deliver

Spec == Init /\ [][Next]_chanVars
=============================================================================

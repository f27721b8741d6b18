------------------------------- MODULE Stream --------------------------------
(* A device's messages over links that come and go: cut into fragments by the *)
(* other end (transports/common/ble_framing.hpp), queued by the adapter, fed  *)
(* to the assembler by SmpClient's transport callbacks, and dropped with the  *)
(* link.                                                                      *)
EXTENDS Assembler, FiniteSets, SequencesExt

CONSTANTS
  Scripts,      \* what the device sends: sequences of payload lengths
  Fragments,    \* the sizes the sender cuts its messages into
  MaxDrops,     \* how often the link is lost or replaced
  MaxQueued     \* how far the sender runs ahead of the client

ASSUME StreamAssumption ==
  /\ \A script \in Scripts : script \in Seq(Int)
  /\ Fragments \subseteq Nat /\ MaxDrops \in Nat
  /\ MaxQueued \in Nat \ {0}

VARIABLE stream   \* the sender, the queue of the adapter, the client's session

LostMark == <<>>

Says(m) == stream.script[m]

(* A message whose header lies carries no payload. *)
MessageSize(says) ==
  HeaderSize + IF says \in 0 .. MaxPayload THEN says ELSE 0

Message(m) ==
  [i \in 1 .. MessageSize(Says(m)) |-> [of |-> m, at |-> i, says |-> Says(m)]]

StreamIdle ==
  /\ AssemblerInit
  /\ stream = [script |-> <<>>, cut |-> 1, m |-> 1, off |-> 0, up |-> TRUE,
               queue |-> <<>>, broken |-> FALSE, drops |-> 0, owed |-> <<>>,
               from |-> 0]

StreamInit ==
  /\ AssemblerInit
  /\ \E script \in Scripts, cut \in Fragments :
       stream = [script |-> script, cut |-> cut, m |-> 1, off |-> 0, up |-> TRUE,
                 queue |-> <<>>, broken |-> FALSE, drops |-> 0, owed |-> <<>>,
                 from |-> 0]

FragmentSize == IF stream.cut = 0 THEN 1 ELSE stream.cut

(* Fragmenter::next(): what is left, or a whole fragment. *)
NextPiece(message, off) ==
  IF Len(message) - off < FragmentSize THEN Len(message) - off ELSE FragmentSize

(* The device sends the next fragment; the adapter queues it. *)
SendFragment ==
  LET message == Message(stream.m)
      take    == NextPiece(message, stream.off)
      done    == stream.off + take >= Len(message)
  IN  /\ stream.up /\ stream.m <= Len(stream.script)
      /\ Len(stream.queue) < MaxQueued
      /\ stream' = [stream EXCEPT
           !.queue = Append(@, SubSeq(message, stream.off + 1, stream.off + take)),
           !.m = IF done THEN @ + 1 ELSE @,
           !.off = IF done THEN 0 ELSE @ + take,
           !.owed = IF done THEN Append(@, stream.m) ELSE @]
      /\ UNCHANGED asm

(* The adapter's queue reaches the client, as many fragments at a time as the *)
(* adapter reads at once: on_bytes().                                         *)
OnBytes ==
  \E k \in 1 .. Len(stream.queue) :
    /\ \A i \in 1 .. k : stream.queue[i] # LostMark
    /\ Feed(FlattenSeq(First(stream.queue, k)))
    /\ stream' = [stream EXCEPT !.queue = Beyond(@, k)]

(* The link is lost: what was not sent of a message never is. *)
LinkLost ==
  /\ stream.up /\ stream.drops < MaxDrops
  /\ stream' = [stream EXCEPT
       !.up = FALSE, !.drops = @ + 1, !.queue = Append(@, LostMark),
       !.m = IF stream.off > 0 THEN @ + 1 ELSE @, !.off = 0]
  /\ UNCHANGED asm

(* on_disconnected(): behind every packet of the session. *)
OnDisconnected ==
  /\ stage = "idle" /\ stream.queue # <<>> /\ Head(stream.queue) = LostMark
  /\ Reset /\ UNCHANGED <<input, stage, heard>>
  /\ stream' = [stream EXCEPT !.queue = Tail(@)]

(* rebind_transport(): to a new link, after a loss was heard or without one.  *)
(* The old transport has no listener any more, so its queue goes nowhere.     *)
RebindTransport ==
  /\ stage = "idle"
  /\ \/ ~stream.up /\ stream.queue = <<>>
     \/ stream.up /\ stream.drops < MaxDrops
  /\ Reset /\ UNCHANGED <<input, stage, heard>>
  /\ stream' = [stream EXCEPT
       !.up = TRUE, !.queue = <<>>, !.broken = FALSE, !.owed = <<>>,
       !.from = Len(heard),
       !.drops = IF stream.up THEN @ + 1 ELSE @,
       !.m = IF stream.off > 0 THEN @ + 1 ELSE @, !.off = 0]

(* on_bytes(): feed() failed, every request is failed, the session stays.     *)
OnMalformed ==
  FeedFails /\ stream' = [stream EXCEPT !.broken = TRUE]

(* An in-process transport answers inside the sink's own send(): refused, and *)
(* what it carried is gone.                                                   *)
OnBytesInSink ==
  /\ FeedAgain
  /\ stream.queue # <<>> /\ Head(stream.queue) # LostMark
  /\ stream' = [stream EXCEPT !.queue = Tail(@), !.broken = TRUE]

StreamNext ==
  \/ SendFragment \/ OnBytes \/ LinkLost \/ OnDisconnected \/ RebindTransport
  \/ OnMalformed \/ OnBytesInSink
  \/ FeedSteps /\ UNCHANGED stream

streamVars == <<buffer, input, stage, heard, stream>>

StreamSpec == StreamInit /\ [][StreamNext]_streamVars

(* The session's own messages, of those heard so far. *)
HeardThisSession == SubSeq(heard, stream.from + 1, Len(heard))

(* Everything the sink hears in a session whose framing holds is a message    *)
(* the device sent, whole and with nothing of another one in it: a message    *)
(* cut off by a drop is never completed with the next session's bytes, and a  *)
(* message spread over any fragments is heard as it was sent (feed(),         *)
(* reset(), on_disconnected(), rebind_transport()).                           *)
HeardWhole ==
  ~stream.broken =>
    \A k \in 1 .. Len(HeardThisSession) :
      LET bytes == HeardThisSession[k]
      IN  bytes = Message(bytes[1].of)

(* Once the queue is drained, an intact session has heard all it was sent, in *)
(* order and once each: fragmentation does not change the result.             *)
HeardAll ==
  stream.up /\ ~stream.broken /\ stream.queue = <<>> /\ stage = "idle" =>
    /\ Len(HeardThisSession) = Len(stream.owed)
    /\ \A k \in 1 .. Len(stream.owed) :
         HeardThisSession[k] = Message(stream.owed[k])

(* What the client hears is what the device sent, whole, all of it, and in    *)
(* bounded space (feed(), message_size(), reset()).                           *)
StreamSound == AssemblerBounded /\ HeardWhole /\ HeardAll
=============================================================================

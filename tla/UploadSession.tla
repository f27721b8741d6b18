---------------------------- MODULE UploadSession ----------------------------
(***************************************************************************)
(* The decisions of an image upload (src/src/groups/image/                 *)
(* upload_session.cpp): pure functions of the session's state and of what  *)
(* came back for the outstanding request.                                  *)
(***************************************************************************)
EXTENDS Naturals

CONSTANTS
  ImageSize,      \* UploadConfig::image_size, in units of the smallest chunk
  ChunkSize,      \* UploadConfig::chunk_size
  MaxRetries,     \* max_chunk_retries
  MaxRestarts,    \* max_restarts
  MaxNoProgress   \* max_no_progress

ASSUME SessionAssumption ==
  /\ ImageSize \in Nat \ {0}
  /\ ChunkSize \in Nat \ {0}
  /\ MaxRetries \in Nat /\ MaxRestarts \in Nat /\ MaxNoProgress \in Nat

Offsets == 0 .. ImageSize

NoRequest == [off |-> 0, len |-> 0, first |-> FALSE]

NewSession ==
  [confirmed |-> 0, sent |-> NoRequest, noProgress |-> 0, restarts |-> 0,
   retries |-> 0, progressed |-> FALSE, firstPending |-> TRUE, phase |-> "Idle"]

\* What came back: why = "ok" with the device's offset and its verdict on the
\* image, or the reason there is no usable answer.
Failure(why) == [why |-> why, off |-> 0, match |-> "absent"]
Answer(off, match) == [why |-> "ok", off |-> off, match |-> match]

\* A Step, with the state it leaves behind. why is the outcome of an upload
\* that ends here.
Step(s, act, req, why) == [st |-> s, act |-> act, req |-> req, why |-> why]

FailWith(s, why) == Step([s EXCEPT !.phase = "Failed"], "fail", NoRequest, why)

\* Fault: the rest of the image is sent, whatever the chunk size.
SendAll(s) ==
  LET off == IF s.firstPending THEN 0 ELSE s.confirmed
  IN Step(s, "send", [off |-> off, len |-> ImageSize - off, first |-> off = 0], "")

\* send_from(): the next chunk; a first packet always goes at offset zero.
SendFrom(s) ==
  LET off == IF s.firstPending THEN 0 ELSE s.confirmed
      rest == ImageSize - off
  IN Step(s, "send",
          [off |-> off, len |-> IF rest < ChunkSize THEN rest ELSE ChunkSize,
           first |-> s.firstPending], "")

PlanNext(s) ==
  IF s.phase \in {"Failed", "Suspended"} THEN Step(s, "fail", NoRequest, "InvalidState")
  ELSE IF s.confirmed >= ImageSize THEN Step(s, "complete", NoRequest, "Transferred")
  ELSE SendFrom(s)

\* resume(), of a suspended session: ask again with a first packet.
Resume(s) ==
  PlanNext([s EXCEPT !.firstPending = TRUE, !.phase = "Idle", !.retries = 0,
                     !.noProgress = 0])

\* Fault: what is put on the wire counts as confirmed.
CountsSent(s, req) ==
  [s EXCEPT !.sent = req, !.phase = "Sending", !.confirmed = req.off + req.len]

RecordSent(s, req) == [s EXCEPT !.sent = req, !.phase = "Sending"]

IsTransient(why) == why \in {"Timeout", "Busy"}

\* Fault: the retry budget is not charged.
RetriesForever(s, why) ==
  IF IsTransient(why) THEN Step(s, "send", s.sent, "")
  ELSE IF why = "Disconnected"
    THEN Step([s EXCEPT !.phase = "Suspended"], "suspend", NoRequest, why)
  ELSE FailWith(s, why)

OnFailure(s, why) ==
  IF IsTransient(why) /\ s.retries < MaxRetries
    THEN Step([s EXCEPT !.retries = @ + 1], "send", s.sent, "")
  ELSE IF why = "Disconnected"
    THEN Step([s EXCEPT !.phase = "Suspended"], "suspend", NoRequest, why)
  ELSE FailWith(s, why)

\* Fault: a first packet that completes the image is always taken for the
\* device's already-present check.
PresentOnFirstPacket(s, match) ==
  IF match = "no" THEN FailWith(s, "ImageMismatch")
  ELSE Step([s EXCEPT !.confirmed = ImageSize, !.phase = "Done"], "complete",
            NoRequest, IF s.sent.first THEN "AlreadyPresent" ELSE "Transferred")

\* Fault: the device's verdict is not looked at.
IgnoresMatch(s, match) ==
  Step([s EXCEPT !.confirmed = ImageSize, !.phase = "Done"], "complete",
       NoRequest,
       IF s.sent.first /\ ~s.progressed THEN "AlreadyPresent" ELSE "Transferred")

OnComplete(s, match) ==
  IF match = "no" THEN FailWith(s, "ImageMismatch")
  ELSE Step([s EXCEPT !.confirmed = ImageSize, !.phase = "Done"], "complete",
            NoRequest,
            IF s.sent.first /\ ~s.progressed THEN "AlreadyPresent" ELSE "Transferred")

\* Fault: a restart goes on at offset zero without the first packet's fields.
RestartWithoutFields(s) ==
  SendFrom([s EXCEPT !.restarts = @ + 1, !.confirmed = 0, !.firstPending = FALSE,
                     !.noProgress = 0, !.retries = 0])

\* The device asks for offset zero: it has no session, or began a new one.
OnRestart(s) ==
  IF s.restarts >= MaxRestarts THEN FailWith(s, "UpdateFailed")
  ELSE SendFrom([s EXCEPT !.restarts = @ + 1, !.confirmed = 0,
                          !.firstPending = TRUE, !.noProgress = 0, !.retries = 0])

Follow(s, off) ==
  [s EXCEPT !.confirmed = off, !.progressed = TRUE, !.firstPending = FALSE,
            !.retries = 0]

\* The device moved on, or answers a first packet with the offset it holds.
OnAdvance(s, off) == SendFrom([Follow(s, off) EXCEPT !.noProgress = 0])

\* Fault: what does not advance is followed without being counted.
RewindsForever(s, off) == SendFrom(Follow(s, off))

\* The device rewound or repeated an offset.
OnRewind(s, off) ==
  IF s.noProgress >= MaxNoProgress
    THEN FailWith([s EXCEPT !.noProgress = @ + 1], "UpdateFailed")
  ELSE SendFrom([Follow(s, off) EXCEPT !.noProgress = @ + 1])

OnResponse(s, a) ==
  IF a.why # "ok" THEN OnFailure(s, a.why)
  ELSE IF a.off > ImageSize THEN FailWith(s, "MalformedMessage")
  ELSE IF a.off = ImageSize THEN OnComplete(s, a.match)
  ELSE IF a.off = 0 THEN OnRestart(s)
  ELSE IF s.sent.first \/ a.off > s.confirmed THEN OnAdvance(s, a.off)
  ELSE OnRewind(s, a.off)
=============================================================================

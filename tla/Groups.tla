------------------------------- MODULE Groups --------------------------------
(* The calls of the OS, image, settings and statistics groups (src/groups),   *)
(* from the arguments to the callback: the checks before anything is sent,    *)
(* the request's encoding, the device error SmpClient looks for in the answer *)
(* (src/cbor/mgmt_error.cpp) and the group's decoder.  A decoder is the list  *)
(* of fields it reads, in its order; one action is one lookup, one element of *)
(* a walk or one return, so the reader's state between them is visible.       *)
EXTENDS Cbor, TLC

CONSTANTS
  MaxEcho, MaxBootloaderName, MaxStatName, MaxSettingName, MaxSettingValue,
  MaxVersion, MaxHash, MaxReason,    \* lengths, limits.hpp
  MaxImages, MaxSlots, MaxStatGroups, MaxStatFields,    \* counts, limits.hpp
  U32Max, I32Max,        \* the widest numbers a field may hold
  RcSpan,                \* how many codes an error's 16 bits can tell apart
  Sizes,                 \* the lengths and numbers an application passes
  Nestings,              \* limits::kMaxCborNesting
  Replies(_)             \* the answers a device may give to a command

ASSUME GroupsAssumption ==
  /\ U32Max \in Nat /\ I32Max \in Nat /\ RcSpan \in Nat \ {0}
  /\ MaxImages \in Nat /\ MaxSlots \in Nat /\ Sizes \subseteq Nat
  /\ Nestings \subseteq Nat \ {0}

VARIABLE asked   \* one call: what was asked, where its answer is, what was told

OsCommands == {"reset", "parameters", "echo", "bootloader_name", "bootloader_mode"}
ImageCommands == {"get_state", "set_state", "erase", "slot_info"}
StatisticsCommands == {"stat_list", "stat_group"}
NamedSettings ==
  {"setting_read", "setting_read_at_most", "setting_write", "setting_erase",
   "setting_save_one"}
SettingsCommands == NamedSettings \cup {"setting_commit", "setting_load", "setting_save"}

Commands == OsCommands \cup ImageCommands \cup StatisticsCommands \cup SettingsCommands

(* is_valid_name(): not empty, not too long, no NUL in it. *)
IsValidName(n, nul, longest) == n # 0 /\ n <= longest /\ ~nul

MaxSlotNumber == MaxImages * MaxSlots

Str(n) == Prefix(n) + n

(* What a call asks for: whether its arguments pass the checks before a       *)
(* request, and the request's fields, each the length of the key and the      *)
(* bytes of the value.  n is the first length or number the caller passes, m  *)
(* the second, flag its Boolean.                                              *)
Asking(legal, body) == [legal |-> legal, body |-> body]
Entry(key, bytes) == [key |-> key, bytes |-> bytes]

OsRequest(cmd, n, flag) ==
  CASE cmd = "echo" -> Asking(n <= MaxEcho, <<Entry(1, Str(n))>>)
    [] cmd = "reset" /\ flag -> Asking(TRUE, <<Entry(5, 1)>>)
    [] cmd = "bootloader_mode" -> Asking(TRUE, <<Entry(5, Str(4))>>)
    [] OTHER -> Asking(TRUE, <<>>)

ImageRequest(cmd, n, flag) ==
  CASE cmd = "set_state" ->
         Asking(flag \/ n # 0,
                (IF n # 0 THEN <<Entry(4, Str(n))>> ELSE <<>>) \o <<Entry(7, 1)>>)
    [] cmd = "erase" /\ flag -> Asking(n <= MaxSlotNumber, <<Entry(4, Prefix(n))>>)
    [] OTHER -> Asking(TRUE, <<>>)

StatisticsRequest(cmd, n, nul) ==
  IF cmd = "stat_group" THEN Asking(IsValidName(n, nul, MaxStatName), <<Entry(4, Str(n))>>)
  ELSE Asking(TRUE, <<>>)

SettingsRequest(cmd, n, m, nul) ==
  LET valid == IsValidName(n, nul, MaxSettingName)
      name == <<Entry(4, Str(n))>>
  IN  CASE cmd = "setting_read_at_most" ->
             Asking(valid /\ m \in 1 .. MaxSettingValue, name \o <<Entry(8, Prefix(m))>>)
        [] cmd = "setting_write" ->
             Asking(valid /\ m <= MaxSettingValue, name \o <<Entry(3, Str(m))>>)
        [] cmd \in NamedSettings \ {"setting_read_at_most", "setting_write"} ->
             Asking(valid, name)
        [] OTHER -> Asking(TRUE, <<>>)

Request(cmd, n, m, flag) ==
  CASE cmd \in OsCommands -> OsRequest(cmd, n, flag)
    [] cmd \in ImageCommands -> ImageRequest(cmd, n, flag)
    [] cmd \in StatisticsCommands -> StatisticsRequest(cmd, n, flag)
    [] cmd \in SettingsCommands -> SettingsRequest(cmd, n, m, flag)

\* Fault: the image group's buffer leaves less than the envelope.
BufferNarrow(cmd) ==
  CASE cmd \in ImageCommands -> MaxHash + 16
    [] cmd \in StatisticsCommands -> MaxStatName + 16
    [] cmd \in SettingsCommands -> MaxSettingName + MaxSettingValue + 32
    [] cmd \in OsCommands -> MaxEcho + 16

(* kRequestBufferSize of the command's group. *)
Buffer(cmd) ==
  CASE cmd \in ImageCommands -> MaxHash + 32
    [] cmd \in StatisticsCommands -> MaxStatName + 16
    [] cmd \in SettingsCommands -> MaxSettingName + MaxSettingValue + 32
    [] cmd \in OsCommands -> MaxEcho + 16

Encode(body) ==
  LET opened == OpenMap(EmptyWriter, asked.nesting)
      one == IF body = <<>> THEN opened ELSE Put(opened, body[1])
      two == IF Len(body) < 2 THEN one ELSE Put(one, body[2])
  IN  CloseMap(two)

(* One lookup of a decoder: the key, the getter, whether the answer must have *)
(* it, and the sizes or numbers that are acceptable.                          *)
Field(key, type, need, lo, hi) ==
  [key |-> key, type |-> type, need |-> need, lo |-> lo, hi |-> hi]

Wide == 2 * (U32Max + I32Max) + 10   \* no bound: a 64-bit number is taken as it is

U32(key, need) == Field(key, "uint", need, 0, U32Max)
I32(key) == Field(key, "int", FALSE, -I32Max - 1, I32Max)
Flag(key) == Field(key, "bool", FALSE, 0, 0)
StatusCheck == Field("status", "check", FALSE, 0, 0)

(* The decoders, one for each of the source's. *)
ParametersFields == <<U32("buf_size", TRUE), U32("buf_count", TRUE)>>
EchoFields == <<Field("r", "text", TRUE, 0, MaxEcho)>>
BootloaderNameFields == <<Field("bootloader", "text", TRUE, 0, MaxBootloaderName)>>
BootloaderModeFields == <<Field("mode", "int", TRUE, -Wide, Wide), Flag("no-downgrade")>>

StateFields == <<Field("images", "slot", FALSE, 0, MaxImages), I32("splitStatus")>>
SlotFields ==
  <<U32("image", FALSE), U32("slot", TRUE), Field("version", "text", TRUE, 0, MaxVersion),
    Field("hash", "bytes", FALSE, 1, MaxHash), Flag("bootable"), Flag("pending"),
    Flag("confirmed"), Flag("active"), Flag("permanent")>>
SlotInfoFields == <<Field("images", "slots_image", FALSE, 0, MaxImages)>>
SlotsImageFields ==
  <<U32("image", FALSE), U32("max_image_size", FALSE), StatusCheck,
    Field("slots", "slot_descriptor", FALSE, 0, MaxSlots)>>
SlotDescriptorFields ==
  <<U32("slot", TRUE), U32("size", FALSE), U32("upload_image_id", FALSE), I32("rc")>>

ValueFields(limit) == <<Field("val", "bytes", TRUE, 0, limit), U32("max_size", FALSE)>>

ListFields == <<Field("stat_list", "names", TRUE, 0, MaxStatGroups)>>
GroupFields ==
  <<Field("name", "text", TRUE, 0, MaxStatName),
    Field("fields", "counters", TRUE, 0, MaxStatFields)>>

(* extract_mgmt_error() reads like a decoder too. *)
MgmtFields ==
  <<Field("rc", "int", FALSE, -Wide, Wide), Field("rsn", "text", FALSE, 0, Wide)>>
ErrFields ==
  <<Field("group", "uint", FALSE, 0, Wide), Field("rc", "uint", FALSE, 0, Wide)>>

FixedFields ==
  [parameters |-> ParametersFields, echo |-> EchoFields,
   bootloader_name |-> BootloaderNameFields, bootloader_mode |-> BootloaderModeFields,
   state |-> StateFields, slot |-> SlotFields, slot_info |-> SlotInfoFields,
   slots_image |-> SlotsImageFields, slot_descriptor |-> SlotDescriptorFields,
   list |-> ListFields, group |-> GroupFields, mgmt |-> MgmtFields, err |-> ErrFields,
   nothing |-> <<>>]

Fields(decoder, limit) ==
  IF decoder = "value" THEN ValueFields(limit) ELSE FixedFields[decoder]

Decoder(cmd) ==
  CASE cmd \in {"get_state", "set_state"} -> "state"
    [] cmd \in {"setting_read", "setting_read_at_most"} -> "value"
    [] cmd = "stat_list" -> "list"
    [] cmd = "stat_group" -> "group"
    [] cmd \in {"parameters", "echo", "bootloader_name", "bootloader_mode", "slot_info"} -> cmd
    [] OTHER -> "nothing"

Rows == {"slot", "slots_image", "slot_descriptor"}
Scalars == {"uint", "int", "bool", "text", "bytes"}

Measure(type, value) ==
  CASE type = "text" -> TextLength[value]
    [] type \in {"uint", "int", "bytes"} -> value
    [] OTHER -> 0

InRange(field, value) ==
  LET size == Measure(field.type, value) IN field.lo <= size /\ size <= field.hi

\* Fault: the decoder does not ask for the reader's status.
ReadUnchecked(reader, fields, got) ==
  \A i \in DOMAIN fields :
    IF fields[i].key \in DOMAIN got THEN InRange(fields[i], got[fields[i].key])
    ELSE ~fields[i].need

(* status(), then what has to be there, then the bounds and narrowings. *)
ReadSoundly(reader, fields, got) ==
  /\ ~reader.error
  /\ \A i \in DOMAIN fields :
       IF fields[i].key \in DOMAIN got THEN InRange(fields[i], got[fields[i].key])
       ELSE ~fields[i].need

(* A decoder at work: its reader, the next field, what it has read, and the   *)
(* array or map it is walking, with what the walk has gathered.               *)
ReadFrame(decoder, reader) ==
  [decoder |-> decoder, reader |-> reader, at |-> 1, got |-> <<>>,
   walking |-> FALSE, items |-> <<>>, rows |-> <<>>]

Refused(why) == [ok |-> FALSE, why |-> why]
Success(value) == [ok |-> TRUE, value |-> value]
DeviceError(scoped, group, rc, reason) ==
  [ok |-> FALSE, why |-> "device", scoped |-> scoped, group |-> group,
   rc |-> rc, reason |-> reason]

NoReply == [none |-> TRUE]

GroupsIdle ==
  asked = [phase |-> "over", nesting |-> 1, cmd |-> "reset", limit |-> 0, encoded |-> TRUE,
           reply |-> NoReply, stack |-> <<>>, scoped |-> <<>>, out |-> Refused("none")]

GroupsInit ==
  \E nesting \in Nestings :
  asked = [phase |-> "new", nesting |-> nesting, cmd |-> "reset", limit |-> 0, encoded |-> TRUE,
           reply |-> NoReply, stack |-> <<>>, scoped |-> <<>>, out |-> Refused("none")]

Top == asked.stack[Len(asked.stack)]
Below == SubSeq(asked.stack, 1, Len(asked.stack) - 1)
Spot == Fields(Top.decoder, asked.limit)[Top.at]
AllRead == Top.at > Len(Fields(Top.decoder, asked.limit))

Tell(out) == asked' = [asked EXCEPT !.phase = "told", !.stack = <<>>, !.out = out]
GoOnWith(frame) == asked' = [asked EXCEPT !.stack = Append(Below, frame)]

(* A call of a group: refused at once but told on the next poll(), or sent.   *)
(* An ImageHash is never too long: ImageHash::from() bounds it.               *)
Call(cmd, n, m, flag) ==
  LET request == Request(cmd, n, m, flag)
      fits == Encoded(Encode(request.body), Buffer(cmd))
  IN  /\ cmd = "set_state" => n <= MaxHash
      /\ asked' = [asked EXCEPT
           !.cmd = cmd, !.phase = IF request.legal /\ fits THEN "sent" ELSE "deferred",
           !.encoded = request.legal => fits,
           !.limit = IF cmd = "setting_read_at_most" THEN m ELSE MaxSettingValue,
           !.out = Refused(IF request.legal THEN "internal" ELSE "argument")]

(* deliver_deferred(): the rejection reaches the callback. *)
TellRejected == asked.phase = "deferred" /\ Tell(asked.out)

(* The request failed: no answer, a lost link, a cancellation. *)
TellFailed == asked.phase = "sent" /\ Tell(Refused("transport"))

(* interpret(): extract_mgmt_error() enters the answer's map. *)
Respond(reply) ==
  asked' = [asked EXCEPT !.phase = "mgmt", !.reply = reply,
    !.stack = <<[ReadFrame("mgmt", Reader(reply, asked.nesting)) EXCEPT !.at = 0]>>]

EnterFails ==
  /\ asked.phase = "mgmt" /\ Top.at = 0 /\ Top.reader.error
  /\ Tell(Refused("decode"))

(* read_group_scoped(): enter_map("err"), which need not be there. *)
ProbeError ==
  LET probe == Probe(Top.reader, "err")
  IN  /\ asked.phase = "mgmt" /\ Top.at = 0 /\ ~Top.reader.error
      /\ IF probe.hit.is = "found"
         THEN asked' = [asked EXCEPT !.stack = Append(@,
                ReadFrame("err", [probe.reader EXCEPT !.map = probe.hit.value,
                                                  !.depth = @ + 1]))]
         ELSE GoOnWith([Top EXCEPT !.at = 1, !.reader = probe.reader])

\* Fault: a code that 16 bits cannot hold is taken modulo before it is tested.
CodeTruncated(got) == IF "rc" \in DOMAIN got THEN got.rc % RcSpan # 0 ELSE FALSE

(* An `err` without an `rc`, or with the code zero, says nothing. *)
CodeMeansError(got) == IF "rc" \in DOMAIN got THEN got.rc # 0 ELSE FALSE

(* ... its two fields read, leave_map(): it was the same reader, so a failure *)
(* in it is one of the whole answer.                                          *)
LeaveError ==
  LET root == asked.stack[1]
      bad == CodeMeansError(Top.got)
      group == IF "group" \in DOMAIN Top.got THEN Top.got.group % RcSpan ELSE 0
  IN  /\ asked.phase = "mgmt" /\ Top.decoder = "err" /\ AllRead
      /\ asked' = [asked EXCEPT
           !.stack = <<[root EXCEPT !.reader.error = Top.reader.error,
                                    !.at = IF bad THEN 2 ELSE 1]>>,
           !.scoped = IF bad THEN <<group, Top.got.rc % RcSpan>> ELSE <<>>]

(* extract_mgmt_error() returns: undecodable, an error of the device in either *)
(* shape, or none, and then the group's decoder has the answer.                *)
ErrorExtracted ==
  LET legacy == CodeMeansError(Top.got)
      said == IF "rsn" \in DOMAIN Top.got THEN TextLength[Top.got.rsn] ELSE 0
      reason == IF said < MaxReason THEN said ELSE MaxReason
  IN  /\ asked.phase = "mgmt" /\ Top.decoder = "mgmt" /\ Top.at # 0 /\ AllRead
      /\ CASE Top.reader.error -> Tell(Refused("decode"))
           [] ~Top.reader.error /\ asked.scoped # <<>> ->
                Tell(DeviceError(TRUE, asked.scoped[1], asked.scoped[2], reason))
           [] ~Top.reader.error /\ asked.scoped = <<>> /\ legacy ->
                Tell(DeviceError(FALSE, 0, Top.got.rc % RcSpan, reason))
           [] OTHER ->
                asked' = [asked EXCEPT !.phase = "decode",
                  !.stack = <<ReadFrame(Decoder(asked.cmd), Reader(asked.reply, asked.nesting))>>]

Decoding == asked.phase \in {"mgmt", "decode"} /\ Top.at # 0

(* One getter. *)
ReadField ==
  LET get == Get(Top.reader, Spot.key, Spot.type)
  IN  /\ Decoding /\ ~Top.walking /\ ~AllRead /\ Spot.type \in Scalars
      /\ GoOnWith([Top EXCEPT
           !.at = @ + 1, !.reader = get.reader,
           !.got = IF get.hit.is = "found" THEN (Spot.key :> get.hit.value) @@ @ ELSE @])

(* status(), the narrowings, before the walk that follows. *)
CheckStatus ==
  /\ Decoding /\ ~Top.walking /\ ~AllRead /\ Spot.type = "check"
  /\ LET before == SubSeq(Fields(Top.decoder, asked.limit), 1, Top.at - 1)
     IN  IF ReadSoundly(Top.reader, before, Top.got)
         THEN GoOnWith([Top EXCEPT !.at = @ + 1])
         ELSE Tell(Refused("decode"))

(* The walk of an array or of a map of counters begins, or there is nothing   *)
(* to walk: an absent array of maps is an empty one, an absent list is        *)
(* reported as absent.                                                        *)
BeginWalk ==
  LET hit == IF Spot.type = "counters" THEN EnterCounters(Top.reader, Spot.key)
             ELSE EnterArray(Top.reader, Spot.key)
  IN  /\ Decoding /\ ~Top.walking /\ ~AllRead
      /\ Spot.type \in Rows \cup {"names", "counters"}
      /\ CASE hit.is = "failed" -> Tell(Refused("decode"))
           [] hit.is = "found" ->
                GoOnWith([Top EXCEPT !.walking = TRUE, !.items = hit.value, !.rows = <<>>])
           [] hit.is = "absent" /\ Spot.type \in Rows ->
                GoOnWith([Top EXCEPT !.at = @ + 1, !.got = (Spot.key :> <<>>) @@ @])
           [] OTHER -> GoOnWith([Top EXCEPT !.at = @ + 1])

(* The next element is a map: a child reader, and the row's decoder. *)
VisitRow ==
  /\ Decoding /\ Top.walking /\ Top.items # <<>> /\ Spot.type \in Rows
  /\ LET child == Element(Top.reader, Head(Top.items))
     IN  IF Inadmissible(Head(Top.items), "map", Len(Top.rows), Spot.hi) \/ child.error
         THEN Tell(Refused("decode"))
         ELSE asked' = [asked EXCEPT !.stack =
                Append(Append(Below, [Top EXCEPT !.items = Tail(@)]),
                       ReadFrame(Spot.type, child))]

(* decode_list()'s visitor. *)
VisitName ==
  /\ Decoding /\ Top.walking /\ Top.items # <<>> /\ Spot.type = "names"
  /\ IF \/ Inadmissible(Head(Top.items), "text", Len(Top.rows), Spot.hi)
        \/ TextLength[Head(Top.items).text] > MaxStatName
     THEN Tell(Refused("decode"))
     ELSE GoOnWith([Top EXCEPT !.items = Tail(@), !.rows = Append(@, Head(Top.items).text)])

(* decode_group()'s visitor: a field's name only once. *)
VisitCounter ==
  LET entry == Head(Top.items)
  IN  /\ Decoding /\ Top.walking /\ Top.items # <<>> /\ Spot.type = "counters"
      /\ IF \/ entry[1] \notin DOMAIN TextLength
            \/ Inadmissible(entry[2], "uint", Len(Top.rows), Spot.hi)
            \/ TextLength[entry[1]] > MaxStatName
            \/ \E i \in DOMAIN Top.rows : Top.rows[i][1] = entry[1]
         THEN Tell(Refused("decode"))
         ELSE GoOnWith([Top EXCEPT !.items = Tail(@),
                          !.rows = Append(@, <<entry[1], entry[2].uint>>)])

EndWalk ==
  /\ Decoding /\ Top.walking /\ Top.items = <<>>
  /\ GoOnWith([Top EXCEPT !.walking = FALSE, !.at = @ + 1,
                 !.got = (Spot.key :> Top.rows) @@ @])

LastMode == 9

(* What an absent field stands for, and the name mode_from() finds. *)
Given(decoder, got) ==
  CASE decoder = "slot" ->
         got @@ [image |-> 0, bootable |-> FALSE, pending |-> FALSE,
                 confirmed |-> FALSE, active |-> FALSE, permanent |-> FALSE]
    [] decoder = "slots_image" -> got @@ [image |-> 0]
    [] decoder = "bootloader_mode" ->
         got @@ ("no-downgrade" :> FALSE) @@ ("known" :> (got.mode \in 0 .. LastMode))
    [] OTHER -> got

(* A decoder returns: to the walk it is a row of, or to complete(), which     *)
(* calls the callback.                                                        *)
DecoderReturns ==
  LET fields == Fields(Top.decoder, asked.limit)
      value == Given(Top.decoder, Top.got)
  IN  /\ asked.phase = "decode" /\ ~Top.walking /\ AllRead
      /\ IF ~ReadSoundly(Top.reader, fields, Top.got)
         THEN Tell(Refused("decode"))
         ELSE IF Len(asked.stack) = 1
         THEN Tell(Success(value))
         ELSE LET parent == asked.stack[Len(asked.stack) - 1]
              IN  asked' = [asked EXCEPT !.stack =
                    Append(SubSeq(@, 1, Len(@) - 2),
                           [parent EXCEPT !.rows = Append(@, value)])]

GroupsNext ==
  \/ asked.phase = "new"
       /\ \E cmd \in Commands, n, m \in Sizes, flag \in BOOLEAN : Call(cmd, n, m, flag)
  \/ TellRejected \/ TellFailed
  \/ asked.phase = "sent" /\ \E reply \in Replies(asked.cmd) : Respond(reply)
  \/ EnterFails \/ ProbeError \/ LeaveError \/ ErrorExtracted
  \/ ReadField \/ CheckStatus \/ BeginWalk \/ VisitRow \/ VisitName
  \/ VisitCounter \/ EndWalk \/ DecoderReturns

GroupsSpec == GroupsInit /\ [][GroupsNext]_asked

(* ---- What an answer means, without a reader ---- *)

RECURSIVE Meaning(_, _, _)

(* The value a field stands for, or Failure. *)
ItemMeaning(field, item) ==
  CASE field.type \in Rows ->
         IF /\ Is(item, "array") /\ Len(item.array) <= field.hi
            /\ \A i \in DOMAIN item.array :
                 Is(item.array[i], "map") /\ Meaning(field.type, item.array[i].map, 0).ok
         THEN Found([i \in DOMAIN item.array |->
                       Meaning(field.type, item.array[i].map, 0).value])
         ELSE Failure
    [] field.type = "names" ->
         IF /\ Is(item, "array") /\ Len(item.array) <= field.hi
            /\ \A i \in DOMAIN item.array :
                 Is(item.array[i], "text") /\ TextLength[item.array[i].text] <= MaxStatName
         THEN Found([i \in DOMAIN item.array |-> item.array[i].text])
         ELSE Failure
    [] field.type = "counters" ->
         IF /\ Is(item, "map") /\ Len(item.map) <= field.hi
            /\ \A i \in DOMAIN item.map :
                 /\ Is(item.map[i][2], "uint") /\ item.map[i][1] \in DOMAIN TextLength
                 /\ TextLength[item.map[i][1]] <= MaxStatName
                 /\ \A j \in DOMAIN item.map : item.map[i][1] = item.map[j][1] => i = j
         THEN Found([i \in DOMAIN item.map |-> <<item.map[i][1], item.map[i][2].uint>>])
         ELSE Failure
    [] OTHER ->
         LET v == Value(item, field.type)
         IN  IF v.is = "found" THEN IF InRange(field, v.value) THEN v ELSE Failure
             ELSE Failure

FieldMeaning(field, map) ==
  LET at == Matching(map, field.key)
  IN  CASE at = {} -> IF field.type \in Rows THEN Found(<<>>) ELSE Absent
        [] Cardinality(at) > 1 /\ field.type # "counters" -> Failure
        [] OTHER -> ItemMeaning(field, map[Min(at)][2])

(* A map means something when every field the decoder knows is there at most  *)
(* once, with its type and in its range, and none that has to be is missing.  *)
Meaning(decoder, map, limit) ==
  LET fields == Fields(decoder, limit)
      known == {i \in DOMAIN fields : fields[i].type # "check"}
      of == [i \in known |-> FieldMeaning(fields[i], map)]
      there == {i \in known : of[i].is = "found"}
  IN  IF \/ Unreadable([map |-> map])
         \/ \E i \in known : of[i] = Failure \/ (fields[i].need /\ i \notin there)
      THEN Refused("decode")
      ELSE Success(Given(decoder,
             [key \in {fields[i].key : i \in there} |->
                of[CHOOSE i \in there : fields[i].key = key].value]))

RECURSIVE Nesting(_)
Nesting(item) ==
  CASE Is(item, "map") ->
         1 + Max({Nesting(item.map[i][2]) : i \in DOMAIN item.map} \cup {0})
    [] Is(item, "array") ->
         1 + Max({Nesting(item.array[i]) : i \in DOMAIN item.array} \cup {0})
    [] OTHER -> 0

(* The device says in either shape that it failed; an answer may say so more  *)
(* than once.                                                                 *)
SaysError(map) ==
  \/ \E i \in Matching(map, "rc") :
       Value(map[i][2], "int").is = "found" /\ Value(map[i][2], "int").value # 0
  \/ \E i \in Matching(map, "err") :
       Is(map[i][2], "map")
         /\ \E j \in Matching(map[i][2].map, "rc") :
              Value(map[i][2].map[j][2], "uint").is = "found"
                /\ map[i][2].map[j][2].uint # 0

(* An answer decodes to exactly what it means, or to a failure: no wrong      *)
(* type, repeated key, missing field or number too wide turns into a          *)
(* plausible value full of defaults (decode.cpp, os_management.cpp,           *)
(* settings_management.cpp, statistics_management.cpp over Reader's sticky    *)
(* error).                                                                    *)
AnswerMeansWhatItSays ==
  asked.phase = "told" /\ asked.reply # NoReply /\ asked.out.ok =>
    asked.out = Meaning(Decoder(asked.cmd), asked.reply.map, asked.limit)

(* A sound answer that reports no error and nests no deeper than the limit is *)
(* never refused: an array of exactly as many elements as are allowed, a name *)
(* of exactly the longest length, a number that just fits                     *)
(* (for_each_map_in_array(), checked_narrow()).                               *)
SoundAnswerAccepted ==
  /\ asked.phase = "told" /\ Is(asked.reply, "map")
  /\ Matching(asked.reply.map, "rc") \cup Matching(asked.reply.map, "err")
       \cup Matching(asked.reply.map, "rsn") = {}
  /\ Nesting(asked.reply) <= asked.nesting
  /\ Meaning(Decoder(asked.cmd), asked.reply.map, asked.limit).ok
  => asked.out.ok

(* A device that reports a failure, in either shape or in both, is never      *)
(* heard as success, whatever else the answer carries and however often it    *)
(* carries rc (extract_mgmt_error()).  The one exception is an err that is    *)
(* repeated: enter_map(key) takes it for an err that is not there.            *)
ErrorIsNeverSuccess ==
  asked.phase = "told" /\ Is(asked.reply, "map") =>
    (SaysError(asked.reply.map) /\ Cardinality(Matching(asked.reply.map, "err")) <= 1
       => ~asked.out.ok)

(* "a missing or non-map value returns a failed Result and leaves status()    *)
(* clean" (cbor.hpp, enter_map()), and nothing else does: without the         *)
(* exception.                                                                 *)
RepeatedErrorHeard ==
  asked.phase = "told" /\ Is(asked.reply, "map") =>
    (SaysError(asked.reply.map) => ~asked.out.ok)

(* Nested readers share one nesting budget (for_each_map_in_array()). *)
NestingBounded ==
  LET depth[i \in 0 .. Len(asked.stack)] ==
        IF i = 0 THEN 0
        ELSE (IF asked.stack[i].decoder = "err" THEN 1 ELSE asked.stack[i].reader.depth)
               + (IF asked.stack[i].walking THEN 1 ELSE 0) + depth[i - 1]
  IN  depth[Len(asked.stack)] <= asked.nesting

(* Every legal request fits its group's buffer: the static_asserts on         *)
(* kRequestBufferSize count the envelope right, and the guard in              *)
(* groups::send() is unreachable.                                             *)
LegalRequestsEncode == asked.encoded

(* A call does what its arguments and its answer say: what is legal is sent,  *)
(* and the result is the answer's meaning, an error or a refusal of what is   *)
(* malformed or nested too deeply (groups::send(), extract_mgmt_error(), the  *)
(* decoders).                                                                 *)
CallsSound ==
  /\ LegalRequestsEncode /\ AnswerMeansWhatItSays /\ SoundAnswerAccepted
  /\ ErrorIsNeverSuccess /\ NestingBounded
=============================================================================

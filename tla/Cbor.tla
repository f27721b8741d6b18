-------------------------------- MODULE Cbor ---------------------------------
(* What the library reads and writes of CBOR: the lookups and walks of        *)
(* cbor::Reader and the puts of cbor::Writer (src/cbor).  An item is a record *)
(* with one field, named for its type; a map is a sequence of <<key, item>>   *)
(* pairs, because a device may repeat a key.  A text is a name whose length   *)
(* TextLength gives, a byte string is its length.                             *)
EXTENDS Integers, Sequences, FiniteSets, FiniteSetsExt

CONSTANTS
  MaxKey,       \* kMaxKeyLength
  TextLength    \* the length of every text a device may send

ASSUME CborAssumption ==
  /\ MaxKey \in Nat
  /\ \A text \in DOMAIN TextLength : TextLength[text] \in Nat

Is(item, type) == type \in DOMAIN item

(* Something in it cannot be decoded. *)
RECURSIVE Unreadable(_)
Unreadable(item) ==
  \/ Is(item, "bad")
  \/ Is(item, "map") /\ \E i \in DOMAIN item.map : Unreadable(item.map[i][2])
  \/ Is(item, "array") /\ \E i \in DOMAIN item.array : Unreadable(item.array[i])

Matching(map, key) == {i \in DOMAIN map : map[i][1] = key}

Absent == [is |-> "absent"]
Failure == [is |-> "failed"]
Found(value) == [is |-> "found", value |-> value]

(* The value a getter of the type hands out.  A negative number is not a      *)
(* uint(), a number of either sign is an integer().                           *)
Value(item, type) ==
  CASE type \in {"uint", "bool", "text", "bytes", "map", "array"} /\ Is(item, type) ->
         Found(item[type])
    [] type = "int" /\ Is(item, "uint") -> Found(item.uint)
    [] type = "int" /\ Is(item, "nint") -> Found(item.nint)
    [] OTHER -> Failure

(* QCBOR's lookup by label: it reads the whole map, so that anything          *)
(* undecodable in it, or the label twice, fails the lookup.                   *)
Lookup(map, key, type) ==
  LET at == Matching(map, key)
  IN  CASE Unreadable([map |-> map]) -> Failure
        [] at = {} -> Absent
        [] Cardinality(at) > 1 -> Failure
        [] OTHER -> Value(map[CHOOSE i \in at : TRUE][2], type)

(* A Reader: the map it is in, its sticky error, how deep it is and how deep  *)
(* it may go.                                                                 *)
Reader(item, max) ==
  [map |-> IF Is(item, "map") THEN item.map ELSE <<>>,
   error |-> ~Is(item, "map") \/ max = 0, depth |-> 1, max |-> max]

(* record(): the first failure stays. *)
Poisoned(reader) == [reader EXCEPT !.error = TRUE]

(* uint(), integer(), boolean(), text(), bytes(), with consume_lookup(): after *)
(* a failure everything reads as absent.                                       *)
Get(reader, key, type) ==
  LET hit == IF reader.error THEN Absent ELSE Lookup(reader.map, key, type)
  IN  [hit |-> IF hit = Failure THEN Absent ELSE hit,
       reader |-> IF hit = Failure THEN Poisoned(reader) ELSE reader]

AtLimit(reader) == reader.depth >= reader.max

(* enter_map(key): a probe, so a map that is not there does not poison. *)
Probe(reader, key) ==
  CASE reader.error -> [hit |-> Failure, reader |-> reader]
    [] ~reader.error /\ AtLimit(reader) ->
         [hit |-> Failure, reader |-> Poisoned(reader)]
    [] OTHER -> [hit |-> Lookup(reader.map, key, "map"), reader |-> reader]

(* for_each_map_in_array() and for_each_text_in_array() up to the first       *)
(* element.                                                                   *)
EnterArray(reader, key) ==
  IF reader.error \/ AtLimit(reader) THEN Failure
  ELSE Lookup(reader.map, key, "array")

(* for_each_uint_in_map() up to the first entry: a walk from the start, that  *)
(* takes the first match and looks no further.                                *)
EnterCounters(reader, key) ==
  LET at == Matching(reader.map, key)
  IN  CASE reader.error \/ AtLimit(reader) -> Failure
        [] at = {} -> Absent
        [] OTHER -> Value(reader.map[Min(at)][2], "map")

\* Fault: an element's reader gets the whole nesting budget again.
FreshBudget(reader, item) == Reader(item, reader.max)

(* The child reader of an array's element, on what is left of the budget. *)
Element(reader, item) == Reader(item, reader.max - reader.depth - 1)

\* Fault: the limit is tested before an element beyond it was seen.
InadmissibleAtLimit(item, type, seen, limit) ==
  Unreadable(item) \/ ~Is(item, type) \/ seen + 1 >= limit

(* The array's or map's next element may not be visited: not of the walk's    *)
(* type, or one more than the limit.  The limit is tested once an element was *)
(* seen, so an array of exactly the limit is read.                            *)
Inadmissible(item, type, seen, limit) ==
  Unreadable(item) \/ ~Is(item, type) \/ seen = limit

(* Writer: the bytes so far, the open maps, and the flag of a call that       *)
(* cannot be encoded.                                                         *)
EmptyWriter == [size |-> 0, depth |-> 0, failed |-> FALSE]

OpenMap(w, max) ==
  IF w.failed \/ w.depth >= max THEN [w EXCEPT !.failed = TRUE]
  ELSE [w EXCEPT !.depth = @ + 1, !.size = @ + 1]

(* The head of a length or number: one byte, and its bytes when 24 or more. *)
Prefix(n) == CASE n < 24 -> 1 [] n < 256 -> 2 [] n < 65536 -> 3 [] OTHER -> 5

(* put_uint() and its like: the key as a text, the value's bytes. *)
Put(w, field) ==
  IF field.key > MaxKey THEN [w EXCEPT !.failed = TRUE]
  ELSE [w EXCEPT !.size = @ + Prefix(field.key) + field.key + field.bytes]

CloseMap(w) == IF w.failed \/ w.depth = 0 THEN w ELSE [w EXCEPT !.depth = @ - 1]

(* finish() has the encoding: no call failed, the maps are closed, and it     *)
(* fits the buffer.                                                           *)
Encoded(w, room) == ~w.failed /\ w.depth = 0 /\ w.size <= room
=============================================================================

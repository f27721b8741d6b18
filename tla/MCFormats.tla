------------------------------ MODULE MCFormats ------------------------------
(* Formats for TLC: the inputs each part is tried with. *)
EXTENDS Formats

(* Upload budgets and first packets: the real sizes, around the edges where a *)
(* CBOR head grows and where the smallest chunk just fits.                    *)
MCBudgets ==
  [device : {0, 100, 128, 137, 140, 256, 700}, transport : {0, 110, 140, 600},
   framing : {0, 4}]
MCFields ==
  [size : {1, 33, 300, 5000}, image : {0, 30}, sha : BOOLEAN, upgrade : BOOLEAN]
  \cup [size : {70000}, image : {1}, sha : {TRUE}, upgrade : {FALSE}]

(* Packets over the serial line: one to four frames each, and one too long    *)
(* for the receiver.                                                          *)
MCPackets == {<<s, 4>> : s \in {1, 2, 4, 6, 8, 9}} \cup {<<2, 10>>}

(* What a device sends: payloads at the limits, one over them (9), and a      *)
(* header that does not decode (-1).                                          *)
MCScripts ==
  {<<a, b>> : a, b \in {-1, 0, 1, 3, 4, 9}} \cup {<<3, a, 0>> : a \in {-1, 0, 4, 9}}

(* The answers of the groups. *)
MCTextLength ==
  "" :> 0 @@ "a" :> 1 @@ "b" :> 1 @@ "t32" :> 32 @@ "t33" :> 33 @@ "t64" :> 64
  @@ "t65" :> 65 @@ "t128" :> 128 @@ "t129" :> 129

TextOf(n) == [text |-> CHOOSE t \in DOMAIN MCTextLength : MCTextLength[t] = n]
Times(n, item) == [array |-> [i \in 1 .. n |-> item]]

(* The field as most answers have it. *)
RECURSIVE Usual(_)
UsualMap(decoder, limit) ==
  LET fields == SelectSeq(Fields(decoder, limit), LAMBDA f : f.type # "check")
  IN  [i \in DOMAIN fields |-> <<fields[i].key, Usual(fields[i])>>]
Usual(f) ==
  CASE f.type \in {"uint", "int"} -> [uint |-> 1]
    [] f.type = "bool" -> [bool |-> TRUE]
    [] f.type = "text" -> [text |-> "a"]
    [] f.type = "bytes" -> [bytes |-> 1]
    [] f.type \in Rows -> Times(1, [map |-> UsualMap(f.type, 0)])
    [] f.type = "names" -> Times(1, [text |-> "a"])
    [] OTHER -> [map |-> <<<<"a", [uint |-> 1]>>>>]

(* ... and as few do: at an edge, past it, or of another type. *)
RECURSIVE Odd(_)
(* The answers with one field that is odd, missing, repeated or undecodable. *)
OddMaps(decoder, limit) ==
  LET fields == SelectSeq(Fields(decoder, limit), LAMBDA f : f.type # "check")
      usual  == [i \in DOMAIN fields |-> <<fields[i].key, Usual(fields[i])>>]
      PutAt(i, entries) == SubSeq(usual, 1, i - 1) \o entries \o SubSeq(usual, i + 1, Len(usual))
  IN  {usual} \cup UNION {
        {PutAt(i, <<>>), PutAt(i, <<usual[i], usual[i]>>),
         PutAt(i, <<<<fields[i].key, [bad |-> TRUE]>>>>)}
          \cup {PutAt(i, <<<<fields[i].key, item>>>>) : item \in Odd(fields[i])}
        : i \in DOMAIN fields}
Odd(f) ==
  CASE f.type = "uint" -> {[uint |-> 0], [uint |-> f.hi], [uint |-> f.hi + 1], [nint |-> -1],
                          [text |-> "a"]}
    [] f.type = "int" -> {[uint |-> f.hi], [uint |-> f.hi + 1], [nint |-> f.lo], [nint |-> f.lo - 1],
                         [bool |-> TRUE]}
    [] f.type = "bool" -> {[bool |-> FALSE], [uint |-> 1]}
    [] f.type = "text" -> {TextOf(f.hi), TextOf(f.hi + 1), [bytes |-> 1]}
    [] f.type = "bytes" -> {[bytes |-> 0], [bytes |-> f.hi], [bytes |-> f.hi + 1], [text |-> "a"]}
    [] f.type \in Rows ->
         {[map |-> <<>>], Times(0, [uint |-> 1]), Times(1, [uint |-> 1])}
           \cup {Times(n, [map |-> UsualMap(f.type, 0)]) : n \in {f.hi, f.hi + 1}}
           \cup {Times(1, [map |-> m]) : m \in OddMaps(f.type, 0)}
    [] f.type = "names" ->
         {[map |-> <<>>], Times(0, [uint |-> 1]), Times(1, [uint |-> 1]),
          Times(1, TextOf(MaxStatName)), Times(1, TextOf(MaxStatName + 1)),
          Times(f.hi, [text |-> "b"]), Times(f.hi + 1, [text |-> "b"])}
    [] OTHER ->
         {Times(0, [uint |-> 1]), [map |-> <<>>], [map |-> <<<<"a", [nint |-> -1]>>>>],
          [map |-> <<<<"#1", [uint |-> 1]>>>>],
          [map |-> <<<<"t64", [uint |-> U32Max + 1]>>, <<"a", [uint |-> 0]>>>>],
          [map |-> <<<<"t65", [uint |-> 1]>>>>],
          [map |-> <<<<"a", [uint |-> 1]>>, <<"a", [uint |-> 0]>>>>],
          [map |-> <<<<"a", [uint |-> 1]>>, <<"b", [uint |-> 0]>>, <<"", [uint |-> 0]>>>>]}

(* What an answer may say of a failure. *)
ErrMap(entries) == <<"err", [map |-> entries]>>
Verdicts ==
  {<<>>}
  \cup {<<<<"rc", item>>>> : item \in
          {[uint |-> 0], [uint |-> 1], [uint |-> RcSpan], [nint |-> -1], [text |-> "a"], [bad |-> TRUE]}}
  \cup {<<ErrMap(<<<<"group", g>>, <<"rc", c>>>>)>> :
          g \in {[uint |-> 1], [uint |-> RcSpan], [text |-> "a"]},
          c \in {[uint |-> 0], [uint |-> 1], [uint |-> RcSpan], [text |-> "a"], [nint |-> -1]}}
  \cup {<<ErrMap(<<>>)>>, <<<<"err", [uint |-> 1]>>>>,
        <<ErrMap(<<<<"rc", [uint |-> 2]>>>>), <<"rc", [uint |-> 1]>>, <<"rsn", [text |-> "t129"]>>>>,
        <<<<"rc", [uint |-> 1]>>, <<"rsn", [text |-> "a"]>>>>,
        <<<<"rc", [uint |-> 1]>>, <<"rc", [uint |-> 0]>>>>,
        <<ErrMap(<<<<"rc", [uint |-> 1]>>>>), ErrMap(<<<<"rc", [uint |-> 1]>>>>)>>,
        <<ErrMap(<<<<"rc", [uint |-> 1]>>>>), ErrMap(<<>>), <<"rc", [uint |-> 1]>>>>,
        <<ErrMap(<<<<"rc", [uint |-> 1]>>, <<"rc", [uint |-> 0]>>>>)>>,
        <<<<"rsn", [uint |-> 1]>>>>, <<<<"err", [uint |-> 1]>>, <<"rc", [uint |-> 1]>>>>}

MCReplies(cmd) ==
  LET limit == asked.limit
  IN  {[uint |-> 1], [bad |-> TRUE]}
        \cup {[map |-> m] : m \in OddMaps(Decoder(cmd), limit)}
        \cup {[map |-> v \o UsualMap(Decoder(cmd), limit)] : v \in Verdicts}
        \cup {[map |-> UsualMap(Decoder(cmd), limit) \o v] : v \in Verdicts}

MCSizes == {0, 1, 3, 4, 64, 65, 128, 129, 256, 257}

(* Images: every arrangement of a few entries in one or two areas, with sizes *)
(* that are right or off by one, and headers at their limits.                 *)
MCHashLength == (5 :> 1) @@ (9 :> 2)
MCEntries ==
  {<<>>, <<1, 0>>, <<1, 1, 6>>, <<5, 1, 3>>, <<5, 2, 3, 4>>, <<9, 2, 1, 0>>,
   <<4, 2, 1, 1>>, <<4, 1, 2>>}
Area(magic, list, off) == <<magic, 2 + Len(list) + off>> \o list
MCImages ==
  LET plain == {Area(6, a \o b, off) : a, b \in MCEntries, off \in -1..1}
                 \cup {<<6, 1>>, <<3, 2>>, <<6>>}
      protected == {Area(7, a, off) : a \in MCEntries, off \in -1..1} \cup {<<>>}
  IN {[cells |-> <<0, 0>> \o p \o u, signed |-> TRUE, header |-> 1, body |-> 1,
       protect |-> IF p = <<>> THEN 0 ELSE p[2], encrypted |-> FALSE] :
        p \in protected, u \in plain}
     \cup [cells : {<<0, 0, 6, 5, 5, 1, 3>>}, signed : BOOLEAN, header : 0..2,
           body : {0, 1, 19}, protect : {0, 3}, encrypted : BOOLEAN]

(* Packages: an archive that holds the named files, ...                       *)
ZipOf(names, sizes) ==
  LET n == Len(names)
      Sum(k) == FoldFunctionOnSet(+, 0, sizes, 1..k)
      localAt(i) == 2 * (i - 1) + Sum(i - 1)
      dir == 2 * n + Sum(n)
  IN [size |-> dir + 3 * n + 1,
      ends |-> {[at |-> dir + 3 * n, comment |-> 0, plain |-> TRUE,
                 entries |-> n, offset |-> dir, size |-> 3 * n]},
      central |-> [p \in {dir + 3 * (i - 1) : i \in 1..n} |->
        LET i == ((p - dir) \div 3) + 1
        IN [name |-> names[i], length |-> 1, extra |-> 0, stored |-> TRUE,
            sameSizes |-> TRUE, size |-> sizes[i], local |-> localAt(i),
            intact |-> TRUE, folder |-> names[i] = "d/"]],
      local |-> [p \in {localAt(i) : i \in 1..n} |->
        LET i == CHOOSE j \in 1..n : localAt(j) = p
        IN [name |-> names[i], length |-> 1, extra |-> 0]]]

Content == [header |-> TRUE, tlvs |-> TRUE, version |-> <<2, 0>>, needs |-> {}]
Needy == [Content EXCEPT !.needs = {[image |-> 1, minimum |-> <<2, 1>>]}]
Older == [Content EXCEPT !.version = <<1, 0>>]

FileEntry(f, i, s, b) ==
  [file |-> f, size |-> 1, image |-> i, slot |-> s, version |-> <<>>, board |-> b]

PackageOf(z, files, contents) ==
  [size |-> z.size, ends |-> z.ends, central |-> z.central, local |-> z.local,
   manifest |-> [sound |-> TRUE, files |-> files], contents |-> contents]

Five == ZipOf(<<Manifest, "a", "d/", "b", "c">>, <<1, 1, 0, 1, 1>>)

(* ... then manifests that list one, two, three or four files for images and  *)
(* slots in every way, ...                                                    *)
Singles ==
  {PackageOf(Five, <<[file |-> f, size |-> s, image |-> i, slot |-> Missing,
                      version |-> v, board |-> b]>>, "a" :> c) :
     f \in {"a", "q"}, s \in {Missing, 1, 2}, i \in {-2, Missing, 0, 3},
     v \in {<<>>, <<2, 0>>, <<2, 1>>}, b \in {<<>>, <<"x", "r">>},
     c \in {Content, [Content EXCEPT !.header = FALSE],
            [Content EXCEPT !.tlvs = FALSE]}}

Couples ==
  LET entries(f) == {FileEntry(f, i, s, b) : i \in 0..1,
                       s \in {Missing, 0, 1, 3}, b \in {<<"x", "r">>, <<"y", "">>}}
  IN {PackageOf(Five, <<e1, e2>>, ("a" :> c1) @@ ("b" :> c2)) :
        e1 \in entries("a"), e2 \in entries("b"),
        c1 \in {Content, Needy}, c2 \in {Content, Older}}

Triples ==
  LET places == {<<0, 0>>, <<0, 1>>, <<1, 2>>, <<1, 3>>}
      File(f, p) == FileEntry(f, p[1], p[2], <<"x", "">>)
  IN {PackageOf(Five, <<File("a", p), File("b", q), File("c", r)>>,
                ("a" :> Needy) @@ ("b" :> Content) @@ ("c" :> c)) :
        p, q, r \in places, c \in {Content, Older}}

Fours ==
  {PackageOf(ZipOf(<<Manifest, "a", "b", "c", "e">>, <<1, 1, 1, 1, 1>>),
     <<FileEntry("a", 0, 0, <<>>), FileEntry("b", 1, 3, <<>>),
       FileEntry("c", 0, 1, <<>>), FileEntry("e", 1, 2, <<>>)>>,
     [x \in {"a", "b", "c", "e"} |-> Content])}

(* ... and archives with one record changed. *)
Z == ZipOf(<<Manifest, "a", "b">>, <<1, 1, 2>>)
ZEnd == CHOOSE e \in Z.ends : TRUE

Zips ==
  {[Z EXCEPT !.ends = {[ZEnd EXCEPT !.entries = n, !.offset = @ + o,
                                    !.size = @ + s, !.plain = p]}] :
     n \in {0, 2, 3, 4, 7}, o \in {-3, 0, 3}, s \in {-1, 0, 1}, p \in BOOLEAN}
  \cup {[Z EXCEPT !.ends = {[ZEnd EXCEPT !.comment = c],
                            [ZEnd EXCEPT !.at = @ - 2, !.comment = k]}] :
          c \in 0..1, k \in {1, 2}}
  \cup {[Z EXCEPT !.ends = {}], ZipOf(<<Manifest, "a", "a">>, <<1, 1, 1>>)}
  \cup {[Z EXCEPT !.central[q] =
            [@ EXCEPT !.size = @ + ds, !.local = @ + dl, !.name = name,
                      !.length = @ + dn, !.extra = x]] :
          q \in DOMAIN Z.central, ds \in -1..1, dl \in {0, -2, 4},
          name \in {"a", "b", Manifest}, dn \in -1..1, x \in 0..1}
  \cup {[Z EXCEPT !.central[q] =
            [@ EXCEPT !.stored = st, !.sameSizes = ss, !.intact = ok]] :
          q \in DOMAIN Z.central, st, ss, ok \in BOOLEAN}
  \cup {[Z EXCEPT !.local[q] =
            [@ EXCEPT !.name = name, !.extra = x, !.length = @ + dn]] :
          q \in DOMAIN Z.local, name \in {"a", "b"}, x \in 0..2, dn \in 0..1}

One == <<FileEntry("a", 0, Missing, <<"x", "">>)>>

MCArchives ==
  Singles \cup Couples \cup Triples \cup Fours
  \cup {PackageOf(z, One, "a" :> Content) : z \in Zips}
  \cup {[PackageOf(Z, One, "a" :> Content) EXCEPT !.manifest.sound = FALSE],
        PackageOf(Z, <<>>, "a" :> Content),
        PackageOf(ZipOf(<<Manifest, "a", "b">>, <<1, 1, 14>>), One, "a" :> Content)}
=============================================================================

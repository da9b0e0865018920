-------------------------------- MODULE Wire --------------------------------
(***************************************************************************)
(* The Writer and the Reader of ipc_protocol.cpp: what the encoder appends  *)
(* to a buffer and what the decoder takes from one, over layouts.           *)
(*                                                                         *)
(* A layout is the sequence of entries a message body consists of.  An      *)
(* entry writes (or reads) one field, or checks fields already there.  The  *)
(* encoder and the decoder have layouts of their own (IpcProtocol), as the  *)
(* code has an encode and a decode function of its own for each message.    *)
(*                                                                         *)
(* A byte is a digit to the base Radix.  The code has Radix = 256; a model  *)
(* takes a smaller one, so that eight digits stay within TLC's integers.    *)
(* A string is a sequence of bytes, an optional value a sequence of at most *)
(* one element.                                                             *)
(***************************************************************************)
EXTENDS Integers, Sequences, SequencesExt

CONSTANTS Radix,        \* number of values of a byte
          MaxString,    \* kMaxStringBytes
          MaxBytes      \* kMaxBytesFieldBytes

ASSUME WireAssumption ==
    /\ Radix \in Nat \ {0, 1}
    /\ {MaxString, MaxBytes} \subseteq Nat

-----------------------------------------------------------------------------
(* Types of fields, and entries of layouts.                                 *)

U8 == [t |-> "num", width |-> 1]
U32 == [t |-> "num", width |-> 4]
U64 == [t |-> "num", width |-> 8]
I32 == [t |-> "i32"]
Flag == [t |-> "flag"]
Str == [t |-> "str"]
Bytes == [t |-> "bytes"]
Opt(ty) == [t |-> "opt", of |-> ty]
Rec(layout) == [t |-> "rec", of |-> layout]

\* A counted list; a map is a list of name and value pairs in the order of
\* the names, and the first pair of a name wins (std::map::emplace).
List(count, cap, ty) == [t |-> "list", count |-> count, cap |-> cap, of |-> ty]
Map(cap) == [t |-> "map", cap |-> cap]

Field(name, ty) == [e |-> "field", name |-> name, ty |-> ty]

\* A field that is there unless the flag `by` is set.
Unless(by, name, ty, absent) ==
    [e |-> "unless", by |-> by, name |-> name, ty |-> ty, absent |-> absent]

\* Checks of fields: a bound (oversize for a length), an order of two.
AtMost(name, max) == [e |-> "max", name |-> name, max |-> max]
NotBelow(name, low) == [e |-> "order", name |-> name, low |-> low]
DataAtMost(name, max) == [e |-> "size", name |-> name, max |-> max]

-----------------------------------------------------------------------------
(* The Writer: [ok, out].                                                    *)

\* x as `width` digits, least significant first; higher digits are lost.
Digits(x, width) == [i \in 1 .. width |-> (x \div Radix ^ (i - 1)) % Radix]

NoNul(s) == \A i \in DOMAIN s : s[i] # 0

LexLess(a, b) ==
    \E i \in 1 .. Len(b) :
        /\ \A j \in 1 .. i - 1 : j <= Len(a) /\ a[j] = b[j]
        /\ i > Len(a) \/ a[i] < b[i]

Pairs(map) ==
    LET names == SetToSortSeq(DOMAIN map, LexLess)
    IN  [i \in DOMAIN names |-> <<names[i], map[names[i]]>>]

Good(out) == [ok |-> TRUE, out |-> out]
Both(a, b) == [ok |-> a.ok /\ b.ok, out |-> a.out \o b.out]

RECURSIVE Put(_, _), PutAll(_, _)

Put(ty, x) ==
    CASE ty.t = "num" -> Good(Digits(x, ty.width))
      [] ty.t = "i32" -> Good(Digits(IF x < 0 THEN x + Radix ^ 4 ELSE x, 4))
      [] ty.t = "flag" -> Good(<<IF x THEN 1 ELSE 0>>)
      [] ty.t = "str" ->
            [ok |-> Len(x) <= MaxString /\ NoNul(x), out |-> Digits(Len(x), 4) \o x]
      [] ty.t = "bytes" -> [ok |-> Len(x) <= MaxBytes, out |-> Digits(Len(x), 4) \o x]
      [] ty.t = "opt" -> IF x = <<>> THEN Good(<<0>>) ELSE Both(Good(<<1>>), Put(ty.of, x[1]))
      [] ty.t = "rec" -> PutAll(ty.of, x)
      [] ty.t = "list" ->
            FoldLeft(LAMBDA done, v : Both(done, Put(ty.of, v)),
                     [ok |-> Len(x) <= ty.cap, out |-> Put(ty.count, Len(x)).out], x)
      [] ty.t = "map" ->
            FoldLeft(LAMBDA done, p : Both(done, Both(Put(Str, p[1]), Put(Str, p[2]))),
                     [ok |-> Len(Pairs(x)) <= ty.cap, out |-> Digits(Len(Pairs(x)), 4)],
                     Pairs(x))

PutAll(layout, r) ==
    FoldLeft(
        LAMBDA done, entry :
            CASE entry.e = "field" -> Both(done, Put(entry.ty, r[entry.name]))
              [] entry.e = "unless" ->
                    IF r[entry.by] THEN done ELSE Both(done, Put(entry.ty, r[entry.name]))
              [] entry.e = "max" -> [done EXCEPT !.ok = @ /\ r[entry.name] <= entry.max]
              [] entry.e = "order" -> [done EXCEPT !.ok = @ /\ r[entry.name] >= r[entry.low]]
              [] entry.e = "size" -> [done EXCEPT !.ok = @ /\ Len(r[entry.name]) <= entry.max],
        Good(<<>>), layout)

-----------------------------------------------------------------------------
(* The Reader: [err, val, rest].  Every read checks what remains first; a   *)
(* count or a length is checked before anything is taken for it.            *)

Value(digits) ==
    FoldLeft(LAMBDA sum, i : sum + digits[i] * Radix ^ (i - 1), 0, [i \in DOMAIN digits |-> i])

Refuse(err) == [err |-> err, val |-> <<>>, rest |-> <<>>]
Took(val, rest) == [err |-> "none", val |-> val, rest |-> rest]
Drop(in, n) == SubSeq(in, n + 1, Len(in))

\* What Use makes of a value and the bytes behind it, unless the read of the
\* value failed.
Then(read, Use(_, _)) == IF read.err # "none" THEN read ELSE Use(read.val, read.rest)

\* n bytes as they are.
Raw(in, n) ==
    IF Len(in) < n THEN Refuse("truncated") ELSE Took(SubSeq(in, 1, n), Drop(in, n))

Number(in, width) == Then(Raw(in, width), LAMBDA bytes, rest : Took(Value(bytes), rest))

\* A length or a count of at most cap.
Bounded(in, width, cap, err) ==
    Then(Number(in, width), LAMBDA n, rest : IF n > cap THEN Refuse(err) ELSE Took(n, rest))

Boolean(in) == Then(Bounded(in, 1, 1, "invalid value"), LAMBDA n, rest : Took(n = 1, rest))

Sized(in, cap) == Then(Bounded(in, 4, cap, "oversize"), LAMBDA n, rest : Raw(rest, n))

\* The map of a sequence of pairs, of which the first of a name counts.
FirstOfEach(pairs) ==
    [name \in {pairs[i].name : i \in DOMAIN pairs} |->
        pairs[CHOOSE i \in DOMAIN pairs :
                  /\ pairs[i].name = name
                  /\ \A j \in 1 .. i - 1 : pairs[j].name # name].value]

RECURSIVE Take(_, _), TakeN(_, _, _), TakeAll(_, _, _)

Take(ty, in) ==
    CASE ty.t = "num" -> Number(in, ty.width)
      [] ty.t = "i32" ->
            Then(Number(in, 4), LAMBDA n, rest :
                     Took(IF n >= Radix ^ 4 \div 2 THEN n - Radix ^ 4 ELSE n, rest))
      [] ty.t = "flag" -> Boolean(in)
      [] ty.t = "str" ->
            Then(Sized(in, MaxString), LAMBDA s, rest :
                     IF NoNul(s) THEN Took(s, rest) ELSE Refuse("bad string"))
      [] ty.t = "bytes" -> Sized(in, MaxBytes)
      [] ty.t = "opt" ->
            Then(Boolean(in), LAMBDA there, rest :
                     IF there THEN Then(Take(ty.of, rest), LAMBDA v, left : Took(<<v>>, left))
                     ELSE Took(<<>>, rest))
      [] ty.t = "rec" -> TakeAll(ty.of, <<>>, in)
      [] ty.t = "list" ->
            Then(Bounded(in, ty.count.width, ty.cap, "too many items"), LAMBDA n, rest :
                     TakeN(ty.of, n, rest))
      [] ty.t = "map" ->
            Then(Bounded(in, 4, ty.cap, "too many items"), LAMBDA n, rest :
                     Then(TakeN(Rec(<<Field("name", Str), Field("value", Str)>>), n, rest),
                          LAMBDA pairs, left : Took(FirstOfEach(pairs), left)))

\* n values of one type.
TakeN(ty, n, in) ==
    IF n = 0 THEN Took(<<>>, in)
    ELSE Then(TakeN(ty, n - 1, in), LAMBDA vals, rest :
                  Then(Take(ty, rest), LAMBDA v, left : Took(Append(vals, v), left)))

\* The entries of a layout, with the fields read so far.
TakeAll(layout, got, in) ==
    IF layout = <<>> THEN Took(got, in)
    ELSE LET entry == Head(layout)
             With(v) == [n \in DOMAIN got \cup {entry.name} |->
                            IF n = entry.name THEN v ELSE got[n]]
             now == CASE entry.e = "max" ->
                             IF got[entry.name] <= entry.max THEN Took(got, in)
                             ELSE Refuse("invalid value")
                      [] entry.e = "order" ->
                             IF got[entry.name] >= got[entry.low] THEN Took(got, in)
                             ELSE Refuse("invalid value")
                      [] entry.e = "size" ->
                             IF Len(got[entry.name]) <= entry.max THEN Took(got, in)
                             ELSE Refuse("oversize")
                      [] entry.e = "unless" /\ got[entry.by] -> Took(With(entry.absent), in)
                      [] OTHER ->
                             Then(Take(entry.ty, in), LAMBDA v, rest : Took(With(v), rest))
         IN  Then(now, LAMBDA fields, rest : TakeAll(Tail(layout), fields, rest))
=============================================================================

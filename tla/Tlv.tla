-------------------------------- MODULE Tlv --------------------------------
(***************************************************************************)
(* The framing of every structured file of a repository (tlv.c): fields of *)
(* a tag, a length and a value, which for a record are fields again.       *)
(*                                                                         *)
(* A file is a sequence of cells.  A cell is a number or a digest; a tag,  *)
(* a length and a scalar take one cell whatever their width in bytes.  Tag *)
(* 0x8047 is written 147 and 0x0044 is 44: from 100 on a tag is critical.  *)
(***************************************************************************)
EXTENDS Integers, Sequences, SequencesExt

CONSTANT MaxString           \* the longest string: 65535 bytes

ASSUME StringAssumption == MaxString \in Nat

\* The one member of a set: what is bound there is computed once.
The(S) == CHOOSE x \in S : TRUE

Num(n) == <<n>>
Digest(s) == <<"digest", s>>  \* BLAKE2s: no two sequences have the same
Odd == 99                    \* what a digest is read as in a number's place
Number(c) == IF Len(c) = 1 THEN c[1] ELSE Odd
Critical(tag) == tag >= 100

Refusals == {"truncated", "critical", "malformed", "missing", "mismatch"}

-----------------------------------------------------------------------------
(* A layout lists a record's fields: how often each may occur, and how its *)
(* value is coded: a string, a key derivation, or a number of cells.       *)

String == 0
Kdf == -1
Must(tag, form) == [tag |-> tag, form |-> form, must |-> TRUE, many |-> FALSE]
May(tag, form) == [tag |-> tag, form |-> form, must |-> FALSE, many |-> FALSE]
Many(tag, form) == [tag |-> tag, form |-> form, must |-> FALSE, many |-> TRUE]
Tags(layout) == {layout[i].tag : i \in DOMAIN layout}
FieldOf(layout, tag) == layout[CHOOSE i \in DOMAIN layout : layout[i].tag = tag]

\* The contents of a record: a sequence of values for every tag.
Empty(layout) == [t \in Tags(layout) |-> <<>>]
With(m, tag, v) == [m EXCEPT ![tag] = <<v>>]

Coded(form, v) ==
    CASE form = String -> <<Num(Len(v))>> \o v
      [] form = Kdf -> SubSeq(v, 1, 2) \o <<Num(Len(v) - 2)>> \o SubSeq(v, 3, Len(v))
      [] OTHER -> v
GoodValue(form, c) ==
    CASE form = String -> Len(c) >= 1 /\ Number(c[1]) + 1 = Len(c)
      [] form = Kdf -> Len(c) >= 3 /\ Number(c[3]) + 3 = Len(c)
      [] OTHER -> Len(c) = form
Decoded(form, c) ==
    CASE form = String -> Tail(c)
      [] form = Kdf -> SubSeq(c, 1, 2) \o SubSeq(c, 4, Len(c))
      [] OTHER -> c

-----------------------------------------------------------------------------
(* Writing.                                                                *)

Field(tag, value) == <<Num(tag), Num(Len(value))>> \o value
HalfField(tag, value) == <<Num(tag), Num(Len(value))>>  \* no memory for the value

TooLong(layout, m) ==
    \E i \in DOMAIN layout :
        layout[i].form = String /\ \E j \in DOMAIN m[layout[i].tag] :
                                       Len(m[layout[i].tag][j]) > MaxString

FieldsOf(f, values) ==
    FoldLeft(LAMBDA s, v : s \o Field(f.tag, Coded(f.form, v)), <<>>, values)
Body(layout, m) == FoldLeft(LAMBDA s, f : s \o FieldsOf(f, m[f.tag]), <<>>, layout)

Magic == 7
Version == 1
FileHeader(ftype, flags) == <<Num(Magic), Num(ftype), Num(Version), Num(flags)>>

-----------------------------------------------------------------------------
(* Reading.                                                                *)

HeaderVerdict(file, ftype) ==
    IF Len(file) < 4 THEN "truncated"
    ELSE IF SubSeq(file, 1, 3) # SubSeq(FileHeader(ftype, 0), 1, 3) THEN "malformed"
    ELSE "ok"

CursorFieldOpen(data, pos) ==  \* mutant: the length is not compared with what is left
    IF pos = Len(data) + 1 THEN [rc |-> "end"]
    ELSE IF Len(data) < pos + 1 THEN [rc |-> "truncated"]
    ELSE [rc |-> "field", tag |-> Number(data[pos]),
          value |-> SubSeq(data, pos + 2, Len(data)),
          next |-> pos + 2 + Number(data[pos + 1])]

\* amisnap_cursor_field(): the field at pos, the end, or what is cut off
CursorField(data, pos) ==
    IF pos = Len(data) + 1 THEN [rc |-> "end"]
    ELSE IF Len(data) < pos + 1 THEN [rc |-> "truncated"]
    ELSE IF Len(data) < pos + 1 + Number(data[pos + 1]) THEN [rc |-> "truncated"]
    ELSE [rc |-> "field", tag |-> Number(data[pos]),
                   value |-> SubSeq(data, pos + 2, pos + 1 + Number(data[pos + 1])),
                   next |-> pos + 2 + Number(data[pos + 1])]

TakenLenient(layout, m, f, cap) ==  \* mutant: every unknown tag is skipped
    IF f.tag \notin Tags(layout) THEN [rc |-> "ok", m |-> m]
    ELSE LET spec == FieldOf(layout, f.tag) IN
         IF ~GoodValue(spec.form, f.value) THEN [rc |-> "malformed", m |-> m]
         ELSE IF spec.many THEN [rc |-> "ok", m |-> [m EXCEPT ![f.tag] = Append(@, f.value)]]
         ELSE [rc |-> "ok", m |-> With(m, f.tag, Decoded(spec.form, f.value))]

\* One field's effect on what is known of the record; cap limits how often a
\* field may be repeated.
Taken(layout, m, f, cap) ==
    IF f.tag \notin Tags(layout)
    THEN [rc |-> IF Critical(f.tag) THEN "critical" ELSE "ok", m |-> m]
    ELSE LET spec == FieldOf(layout, f.tag) IN
         IF ~GoodValue(spec.form, f.value) THEN [rc |-> "malformed", m |-> m]
         ELSE IF spec.many /\ Len(m[f.tag]) >= cap THEN [rc |-> "malformed", m |-> m]
         ELSE IF spec.many THEN [rc |-> "ok", m |-> [m EXCEPT ![f.tag] = Append(@, f.value)]]
         ELSE [rc |-> "ok", m |-> With(m, f.tag, Decoded(spec.form, f.value))]

RECURSIVE DecodeFrom(_, _, _, _, _)
DecodeFrom(layout, m, data, pos, cap) ==
    The({CASE f.rc = "truncated" -> [rc |-> "truncated", m |-> m]
           [] f.rc = "end" ->
                [rc |-> IF \E i \in DOMAIN layout : layout[i].must /\ m[layout[i].tag] = <<>>
                        THEN "missing" ELSE "ok",
                 m |-> m]
           [] OTHER ->
                The({IF t.rc = "ok" THEN DecodeFrom(layout, t.m, data, f.next, cap) ELSE t :
                       t \in {Taken(layout, m, f, cap)}})
         : f \in {CursorField(data, pos)}})
Decode(layout, data, cap) == DecodeFrom(layout, Empty(layout), data, 1, cap)
=============================================================================

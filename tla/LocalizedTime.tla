--------------------------- MODULE LocalizedTime ----------------------------
(***************************************************************************)
(* localizedtime.Format (internal/coreinternal/timeutils/internal/         *)
(* localizedtime/localizedtime.go): the scanner that walks a Go time       *)
(* layout and a value written in another language side by side, replaces *)
(* every localized month, weekday and day-period name by its English one  *)
(* and copies everything else.                                             *)
(*                                                                         *)
(* Strings are sequences of bytes and offsets are 0-based as in the code: *)
(* an ASCII byte is a one-character string, a byte >= 0x80 a symbol whose *)
(* value HighByte gives.  One loop iteration is one step; the value, layout and *)
(* locale are chosen at the start among the cases the configuration gives.*)
(***************************************************************************)
EXTENDS Integers, Sequences, SequencesExt

CONSTANTS
  Std,      \* the English tables: [longMonth, shortMonth, longDay, shortDay, period]
  HighByte, \* HighByte[b]: the value (128..255) of a non-ASCII byte symbol b
  Tables,   \* tables[lang]: the CLDR tables of the supported languages
  Cases     \* [layout, value, lang, ...]: the calls of Parse to explore

\* Every byte rune(b) encodes to has a symbol.
ASSUME \A b \in DOMAIN HighByte :
         {192 + HighByte[b] \div 64, 128 + (HighByte[b] % 64)} \subseteq Range(HighByte)

VARIABLES
  layout, value, locale,  \* the arguments
  lo,       \* layoutOffset
  vo,       \* valueOffset
  out,      \* the strings.Builder
  status,   \* "running" | "done" | "mismatch" | "unsupported" | "unsupportedLocale"
  case      \* the case the arguments come from

vars == <<layout, value, locale, lo, vo, out, status, case>>

At(s, i) == s[i + 1]                 \* s[i] with a 0-based index
Slice(s, i, j) == SubSeq(s, i + 1, j) \* s[i:j]
HasAt(s, i, w) == Len(s) >= i + Len(w) /\ Slice(s, i, i + Len(w)) = w

LowerAZ == <<"a","b","c","d","e","f","g","h","i","j","k","l","m",
             "n","o","p","q","r","s","t","u","v","w","x","y","z">>
UpperAZ == <<"A","B","C","D","E","F","G","H","I","J","K","L","M",
             "N","O","P","Q","R","S","T","U","V","W","X","Y","Z">>
Lower == ToSet(LowerAZ)
\* unicode.ToUpper and the simple case folding of strings.EqualFold (ASCII)
Upper(ch) == IF ch \in Lower THEN UpperAZ[CHOOSE i \in 1..26 : LowerAZ[i] = ch] ELSE ch
Fold(ch) == IF ch \in ToSet(UpperAZ)
            THEN LowerAZ[CHOOSE i \in 1..26 : UpperAZ[i] = ch] ELSE ch
\* unicode.IsSpace(rune(b)): " ", and U+0085 and U+00A0 for a single byte
IsSpace(ch) == ch = " " \/ (ch \in DOMAIN HighByte /\ HighByte[ch] \in {133, 160})

ByteSym(n) == CHOOSE b \in DOMAIN HighByte : HighByte[b] = n

\* The UTF-8 bytes strings.Builder.WriteRune writes for rune(b): b itself
\* when b < 0x80, otherwise the two-byte encoding of U+0080..U+00FF.
RuneBytes(b) ==
  IF b \in DOMAIN HighByte
  THEN <<ByteSym(192 + HighByte[b] \div 64), ByteSym(128 + (HighByte[b] % 64))>>
  ELSE <<b>>
EqualFold(a, b) == Len(a) = Len(b) /\ \A i \in DOMAIN a : Fold(a[i]) = Fold(b[i])

\* startsWithLowerCase
StartsWithLowerCase(s) == s # <<>> /\ Head(s) \in Lower

(***************************************************************************)
(* The layout element the switch recognises at layoutOffset i: a name     *)
(* element with the table it translates through, or "none" (the byte is   *)
(* then copied).                                                           *)
(***************************************************************************)
NameElem(l, i) ==
  CASE HasAt(l, i, <<"J","a","n","u","a","r","y">>) -> [len |-> 7, tab |-> "longMonth"]
    [] HasAt(l, i, <<"J","a","n">>) /\ ~StartsWithLowerCase(Slice(l, i + 3, Len(l)))
         -> [len |-> 3, tab |-> "shortMonth"]
    [] HasAt(l, i, <<"M","o","n","d","a","y">>) -> [len |-> 6, tab |-> "longDay"]
    [] HasAt(l, i, <<"M","o","n">>) /\ ~StartsWithLowerCase(Slice(l, i + 3, Len(l)))
         -> [len |-> 3, tab |-> "shortDay"]
    [] At(l, i) \in {"P", "p"} /\ Len(l) >= i + 2 /\ Upper(At(l, i + 1)) = "M"
         -> [len |-> 2, tab |-> "period"]
    [] OTHER -> [len |-> 0, tab |-> "none"]

\* The offset after the spaces at offset o.
RECURSIVE SkipSpaces(_, _)
SkipSpaces(s, o) == IF o < Len(s) /\ IsSpace(At(s, o)) THEN SkipSpaces(s, o + 1) ELSE o

(***************************************************************************)
(* lookup: skip spaces, then try every name of the table in order; a name *)
(* is taken if it matches (case-folded) and no longer one matched before. *)
(***************************************************************************)
LookupLastMatch(tab, offset, v, stdTab) ==
  LET o == SkipSpaces(v, offset)
      Step(acc, i) ==
        LET w == tab[i] IN
        IF o + Len(w) <= Len(v) /\ EqualFold(Slice(v, o, o + Len(w)), w)
        THEN [std |-> stdTab[i], val |-> Slice(v, o, o + Len(w))]
        ELSE acc
  IN [newOffset |-> o] @@
       FoldLeft(Step, [std |-> <<>>, val |-> <<>>], [i \in DOMAIN tab |-> i])

Lookup(tab, offset, v, stdTab) ==
  LET o == SkipSpaces(v, offset)
      Step(acc, i) ==
        LET w == tab[i] IN
        IF acc.std # <<>> /\ Len(w) <= Len(acc.val) THEN acc
        ELSE IF o + Len(w) <= Len(v) /\ EqualFold(Slice(v, o, o + Len(w)), w)
        THEN [std |-> stdTab[i], val |-> Slice(v, o, o + Len(w))]
        ELSE acc
  IN [newOffset |-> o] @@
       FoldLeft(Step, [std |-> <<>>, val |-> <<>>], [i \in DOMAIN tab |-> i])

(***************************************************************************)
(* nextNonSpaceValue: skip spaces, then append string(value[n]) for each  *)
(* non-space byte, stopping at a space, at the end of the value, or when  *)
(* len(val) == max.  string(b) of a byte >= 0x80 is two bytes, so the     *)
(* length can step over max and the loop go on.                            *)
(***************************************************************************)
NextNonSpaceValue(v, offset, max) ==
  LET o == SkipSpaces(v, offset)
      RECURSIVE Take(_, _)
      Take(n, acc) ==
        IF n < Len(v) /\ ~IsSpace(At(v, n))
        THEN LET acc1 == acc \o RuneBytes(At(v, n)) IN
             IF Len(acc1) = max THEN [newOffset |-> n + 1, val |-> acc1]
             ELSE Take(n + 1, acc1)
        ELSE [newOffset |-> n, val |-> acc]
  IN Take(o, <<>>)

Running == status = "running" /\ lo < Len(layout)

\* What sb.WriteRune(rune(value[valueOffset])) writes, if a byte is left.
Copied == IF Len(value) > vo THEN RuneBytes(At(value, vo)) ELSE <<>>

\* The byte copy advancing layoutOffset only when a byte was written.
CopyByteStall ==
  /\ out' = out \o Copied
  /\ vo' = vo + Len(Copied)
  /\ lo' = IF Copied # <<>> THEN lo + 1 ELSE lo

\* The byte of the layout has no switch arm that writes: copy the value's
\* byte (if any is left) with WriteRune, advance valueOffset by the size
\* written and layoutOffset by one.
CopyByte ==
  /\ out' = out \o Copied
  /\ vo' = vo + Len(Copied)
  /\ lo' = lo + 1

\* writeLayoutValue advancing by the English name instead of the value's.
WriteLayoutValueStdWidth(tab, stdTab) ==
  LET r == Lookup(tab, vo, value, stdTab) IN
  [ok |-> r.std # <<>>, std |-> r.std, offset |-> r.newOffset + Len(r.std)]

\* writeLayoutValue without the step over the matched value.
WriteLayoutValueNoAdvance(tab, stdTab) ==
  LET r == Lookup(tab, vo, value, stdTab) IN
  [ok |-> r.std # <<>>, std |-> r.std, offset |-> r.newOffset]

\* writeLayoutValue: the English name of the value at valueOffset and the
\* offset after it, or not ok (ErrLayoutMismatch).
WriteLayoutValue(tab, stdTab) ==
  LET r == Lookup(tab, vo, value, stdTab) IN
  [ok |-> r.std # <<>>, std |-> r.std, offset |-> r.newOffset + Len(r.val)]

(***************************************************************************)
(* The 'J', 'M' and 'P'/'p' arms: a table the locale lacks is an          *)
(* unsupported element; a value the table does not match is a mismatch;   *)
(* otherwise the English name is written.                                  *)
(***************************************************************************)
TranslateName ==
  /\ Running
  /\ LET e == NameElem(layout, lo) IN
     /\ e.tab # "none"
     /\ IF locale[e.tab] = <<>>
        THEN /\ status' = "unsupported"
             /\ UNCHANGED <<lo, vo, out>>
        ELSE LET w == WriteLayoutValue(locale[e.tab], Std[e.tab]) IN
             IF ~w.ok
             THEN /\ status' = "mismatch"
                  /\ UNCHANGED <<lo, vo, out>>
             ELSE /\ out' = out \o w.std
                  /\ vo' = w.offset
                  /\ lo' = lo + e.len
                  /\ UNCHANGED status
  /\ UNCHANGED <<layout, value, locale, case>>

(***************************************************************************)
(* The '_' arm: "_2" / "_2006" take up to 2 / 5 non-space value bytes;    *)
(* then, at the possibly advanced offset, "?_2" takes up to 3.  When      *)
(* neither writes, the byte is copied in the same iteration.               *)
(***************************************************************************)
Underscore ==
  /\ Running
  /\ At(layout, lo) = "_"
  /\ LET size1 == IF Len(layout) >= lo + 2 /\ At(layout, lo + 1) = "2"
                  THEN IF HasAt(layout, lo + 1, <<"2","0","0","6">>)
                       THEN IF Len(value) >= vo + 5 THEN 5 ELSE 0
                       ELSE IF Len(value) >= vo + 2 THEN 2 ELSE 0
                  ELSE 0
         r1 == NextNonSpaceValue(value, vo, size1)
         lo1 == lo + size1
         vo1 == IF size1 > 0 THEN r1.newOffset ELSE vo
         out1 == IF size1 > 0 THEN out \o r1.val ELSE out
         second == /\ Len(layout) >= lo1 + 3
                   /\ At(layout, lo1 + 1) = "_" /\ At(layout, lo1 + 2) = "2"
                   /\ Len(value) >= vo1 + 3
         r2 == NextNonSpaceValue(value, vo1, 3)
     IN IF second
        THEN /\ lo' = lo1 + 3 /\ vo' = r2.newOffset /\ out' = out1 \o r2.val
        ELSE IF size1 > 0
        THEN /\ lo' = lo1 /\ vo' = vo1 /\ out' = out1
        ELSE CopyByte
  /\ UNCHANGED <<layout, value, locale, status, case>>

\* Any other byte, or a 'J'/'M'/'P' that starts no element.
Literal ==
  /\ Running
  /\ At(layout, lo) # "_"
  /\ NameElem(layout, lo).tab = "none"
  /\ CopyByte
  /\ UNCHANGED <<layout, value, locale, status, case>>

(***************************************************************************)
(* time.Parse, for the layout elements of the cases: a case's layout is   *)
(* the sequence elems of [kind, tab, text]; "day" is "2", "underDay" "_2", *)
(* "name" a month or weekday name, "period" "PM", "lit" a literal byte.   *)
(* It yields the day, the month and the PM flag, or ok = FALSE.            *)
(***************************************************************************)
Digit == [d \in {"0","1","2","3","4","5","6","7","8","9"} |->
            CHOOSE n \in 0..9 : <<"0","1","2","3","4","5","6","7","8","9">>[n + 1] = d]
IsDigit(s, i) == Len(s) > i /\ At(s, i) \in DOMAIN Digit

\* getnum(s, false): one or two digits.
GetNum(s) ==
  IF ~IsDigit(s, 0) THEN [ok |-> FALSE, n |-> 0, rest |-> s]
  ELSE IF ~IsDigit(s, 1) THEN [ok |-> TRUE, n |-> Digit[At(s, 0)], rest |-> Tail(s)]
  ELSE [ok |-> TRUE, n |-> 10 * Digit[At(s, 0)] + Digit[At(s, 1)],
        rest |-> Slice(s, 2, Len(s))]

\* The first name of the table that prefixes s, case-folded.
StdLookup(tab, s) ==
  LET hits == {i \in DOMAIN tab : Len(s) >= Len(tab[i]) /\
                                   EqualFold(SubSeq(s, 1, Len(tab[i])), tab[i])}
  IN IF hits = {} THEN 0 ELSE CHOOSE i \in hits : \A j \in hits : i <= j

RECURSIVE DropSpaces(_)
DropSpaces(s) == IF s # <<>> /\ IsSpace(Head(s)) THEN DropSpaces(Tail(s)) ELSE s

Fail == [ok |-> FALSE, day |-> 0, month |-> 0, pm |-> FALSE]

RECURSIVE ParseStd(_, _, _)
ParseStd(elems, s, acc) ==
  IF elems = <<>> THEN IF s = <<>> THEN acc ELSE Fail
  ELSE LET e == Head(elems)
           rest == Tail(elems) IN
  CASE e.kind = "lit" /\ e.text = <<" ">> ->
         IF s # <<>> /\ ~IsSpace(Head(s)) THEN Fail
         ELSE ParseStd(rest, DropSpaces(s), acc)
    [] e.kind = "lit" ->
         IF s # <<>> /\ Head(s) = Head(e.text) THEN ParseStd(rest, Tail(s), acc)
         ELSE Fail
    [] e.kind \in {"day", "underDay"} ->
         LET g == GetNum(IF e.kind = "underDay" /\ s # <<>> /\ IsSpace(Head(s))
                         THEN Tail(s) ELSE s) IN
         IF g.ok THEN ParseStd(rest, g.rest, [acc EXCEPT !.day = g.n]) ELSE Fail
    [] e.kind = "name" ->
         LET i == StdLookup(Std[e.tab], s) IN
         IF i = 0 THEN Fail
         ELSE ParseStd(rest, Slice(s, Len(Std[e.tab][i]), Len(s)),
                       IF e.tab \in {"longMonth", "shortMonth"}
                       THEN [acc EXCEPT !.month = i] ELSE acc)
    [] e.kind = "period" ->
         IF Len(s) >= 2 /\ SubSeq(s, 1, 2) \in {<<"A","M">>, <<"P","M">>}
         THEN ParseStd(rest, Slice(s, 2, Len(s)), [acc EXCEPT !.pm = (s[1] = "P")])
         ELSE Fail

Parsed(elems, s) == ParseStd(elems, s, [ok |-> TRUE, day |-> 0, month |-> 0, pm |-> FALSE])

\* The final WriteString without its guard: value[valueOffset:] with
\* valueOffset past len(value) panics.
FinishUnguarded ==
  /\ status = "running"
  /\ lo >= Len(layout)
  /\ out' = IF Len(value) >= vo THEN out \o Slice(value, vo, Len(value)) ELSE out
  /\ status' = IF Len(value) >= vo THEN "done" ELSE "panic"
  /\ UNCHANGED <<layout, value, locale, lo, vo, case>>

\* After the loop the rest of the value is appended; Parse then hands the
\* result to time.Parse with the layout.
Finish ==
  /\ status = "running"
  /\ lo >= Len(layout)
  /\ out' = IF Len(value) >= vo THEN out \o Slice(value, vo, Len(value)) ELSE out
  /\ status' = "done"
  /\ UNCHANGED <<layout, value, locale, lo, vo, case>>

NoTable == [t \in DOMAIN Std |-> <<>>]

\* NewLocale: the CLDR table of the language, or ErrUnsupportedLocale.
NewLocale(lang) ==
  IF lang \in DOMAIN Tables THEN [ok |-> TRUE, table |-> Tables[lang]]
  ELSE [ok |-> FALSE, table |-> NoTable]

\* The caller builds the locale with NewLocale and, if it is supported,
\* calls Parse with it.
Init ==
  /\ case \in Cases
  /\ layout = case.layout /\ value = case.value
  /\ locale = NewLocale(case.lang).table
  /\ lo = 0 /\ vo = 0 /\ out = <<>>
  /\ status = IF NewLocale(case.lang).ok THEN "running" ELSE "unsupportedLocale"

\* What Parse returns: time.Parse(layout, Format's output) once Format is done.
parsed == IF status = "done" THEN Parsed(case.elems, out) ELSE Fail

Next == TranslateName \/ Underscore \/ Literal \/ Finish

Spec == Init /\ [][Next]_vars /\ WF_vars(Next)

-----------------------------------------------------------------------------
TypeOK ==
  /\ lo \in 0..Len(layout)
  /\ vo \in 0..(Len(value) + 1)
  /\ out \in Seq(STRING)
  /\ status \in {"running", "done", "mismatch", "unsupported", "unsupportedLocale"}

\* The date of the case as far as its layout records it.
Expected ==
  [ok |-> TRUE, day |-> case.day, month |-> case.month,
   pm |-> case.pm /\ \E i \in DOMAIN case.elems : case.elems[i].kind = "period"]

\* What Format returns: the translated string or one of its errors.
Returned == {"done", "mismatch", "unsupported"}

\* Format always returns a string or an error: every iteration of its loop
\* consumes layout, and no slice of the value runs past its end, even
\* when a two-byte WriteRune has left valueOffset at len(value)+1.
FormatTerminates == status = "running" ~> status \in Returned

\* The contract of Parse (the comment on Format): a value written in the locale with the given
\* layout is translated into one time.Parse reads back as the same time.
RoundTrip == status = "done" /\ case.kind = "localized" => parsed = Expected

\* A number written with "2" ends where its digits end, not after one byte.
Aligned(elems) ==
  \A i \in DOMAIN elems :
    elems[i].kind = "day" => \A j \in (i + 1)..Len(elems) : elems[j].kind = "lit"

\* The round trip holds for every layout whose variable-width "2" day is
\* followed by no name or period (the scanner copies it byte for byte).
RoundTripAligned ==
  status = "done" /\ case.kind = "localized" /\ Aligned(case.elems) => parsed = Expected
=============================================================================

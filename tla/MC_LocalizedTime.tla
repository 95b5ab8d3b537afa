--------------------------- MODULE MC_LocalizedTime --------------------------
(* Two months and one weekday of the English tables and of a Spanish       *)
(* locale (whose short names end in "." and whose day periods contain      *)
(* spaces), a second locale without day periods, and a third whose month  *)
(* names prefix one another.  The layouts put the day, written "2" or      *)
(* "_2", before and after month names and the period; days 5 and 12 give  *)
(* one- and two-digit numbers.  Besides the values the locale's users     *)
(* write, English values and values cut short are given.                   *)
EXTENDS LocalizedTime, TLC

MCStd ==
   [longMonth |-> <<<<"J","a","n","u","a","r","y">>, <<"F","e","b","r","u","a","r","y">>>>,
    shortMonth |-> <<<<"J","a","n">>, <<"F","e","b">>>>,
    longDay |-> <<<<"M","o","n","d","a","y">>>>,
    shortDay |-> <<<<"M","o","n">>>>,
    period |-> <<<<"A","M">>, <<"P","M">>>>]

Es ==
   [longMonth |-> <<<<"e","n","e","r","o">>, <<"f","e","b","r","e","r","o">>>>,
    shortMonth |-> <<<<"e","n","e",".">>, <<"f","e","b",".">>>>,
    longDay |-> <<<<"l","u","n","e","s">>>>,
    shortDay |-> <<<<"l","u","n",".">>>>,
    period |-> <<<<"a","."," ","m",".">>, <<"p","."," ","m",".">>>>]

NoPeriods == [Es EXCEPT !.period = <<>>]

\* A locale whose second long month name is a prefix of its first, so
\* lookup must keep the longer match it found first.
Prefixed == [Es EXCEPT !.longMonth = <<<<"m","a","y","o">>, <<"m","a">>>>]

Day  == [kind |-> "day", tab |-> "", text |-> <<"2">>]
UDay == [kind |-> "underDay", tab |-> "", text |-> <<"_","2">>]
LM   == [kind |-> "name", tab |-> "longMonth", text |-> <<"J","a","n","u","a","r","y">>]
SM   == [kind |-> "name", tab |-> "shortMonth", text |-> <<"J","a","n">>]
LD   == [kind |-> "name", tab |-> "longDay", text |-> <<"M","o","n","d","a","y">>]
PM   == [kind |-> "period", tab |-> "period", text |-> <<"P","M">>]
Sp   == [kind |-> "lit", tab |-> "", text |-> <<" ">>]
Comma == [kind |-> "lit", tab |-> "", text |-> <<",">>]

MCLayouts ==
  {<<Day, Sp, LM>>, <<UDay, Sp, LM>>, <<LM, Sp, Day>>, <<SM, Sp, UDay>>,
   <<LD, Comma, Sp, Day, Sp, SM>>, <<UDay, Sp, SM, Sp, PM>>,
   <<SM, Sp, Day, Sp, PM>>}

Digits(n) == IF n < 10 THEN <<ToString(n)>>
             ELSE <<ToString(n \div 10), ToString(n % 10)>>

\* The value a user of the locale writes for the date in the layout.
Render(loc, elems, d) ==
  FlattenSeq([i \in DOMAIN elems |->
    LET e == elems[i] IN
    CASE e.kind = "day" -> Digits(d.day)
      [] e.kind = "underDay" -> (IF d.day < 10 THEN <<" ">> ELSE <<>>) \o Digits(d.day)
      [] e.kind = "name" /\ e.tab \in {"longMonth", "shortMonth"} -> loc[e.tab][d.month]
      [] e.kind = "name" -> loc[e.tab][1]
      [] e.kind = "period" -> loc.period[IF d.pm THEN 2 ELSE 1]
      [] OTHER -> e.text])

MCDates == [day : {5, 12}, month : {1, 2}, pm : BOOLEAN]

\* The languages NewLocale knows; "zz" is one it does not.
MCTables == [l \in {"es", "np", "pre"} |->
               CASE l = "es" -> Es [] l = "np" -> NoPeriods [] l = "pre" -> Prefixed]

\* The bytes of U+65E5 (E6 97 A5), and the bytes WriteRune produces for
\* these (and for those it produces).
MCHighByte == [b \in {"xE6", "x97", "xA5", "xC3", "xC2", "xA6", "x83", "x82"} |->
                 CASE b = "xE6" -> 230 [] b = "x97" -> 151 [] b = "xA5" -> 165
                   [] b = "xC3" -> 195 [] b = "xC2" -> 194 [] b = "xA6" -> 166
                   [] b = "x83" -> 131 [] b = "x82" -> 130]

\* A value the locale's user writes, one in English, and one cut short.
MCValue(loc, kind, elems, d) ==
  CASE kind = "localized" -> Render(loc, elems, d)
    [] kind = "english"   -> Render(MCStd, elems, d)
    [] kind = "truncated" -> Render(loc, SubSeq(elems, 1, Len(elems) - 1), d)

MCCases ==
  {LET d == c[3] IN
     [elems |-> c[1], layout |-> FlattenSeq([i \in DOMAIN c[1] |-> c[1][i].text]),
      lang |-> c[2], value |-> MCValue(MCTables[IF c[2] = "pre" THEN "pre" ELSE "es"], c[4], c[1], d), kind |-> c[4],
      day |-> d.day, month |-> d.month, pm |-> d.pm] :
    c \in MCLayouts \X {"es", "np", "pre"} \X MCDates \X {"localized", "english", "truncated"}}

\* The day written twice with "_2" and one byte between: after the first
\* "_2" the arm's second check reads " _2" as if it were "__2".
MCUnderscoreCases ==
  {LET e == <<UDay, Sp, UDay>> IN
     [elems |-> e, layout |-> FlattenSeq([i \in DOMAIN e |-> e[i].text]),
      lang |-> "es", value |-> Render(Es, e, d), kind |-> "localized",
      day |-> d.day, month |-> d.month, pm |-> d.pm] :
    d \in [day : {5, 12}, month : {1}, pm : {FALSE}]}

\* A language NewLocale does not support.
MCUnsupported ==
  {[elems |-> <<Day, Sp, LM>>, layout |-> <<"2", " ", "J","a","n","u","a","r","y">>,
    lang |-> "zz", value |-> <<"5", " ", "e","n","e","r","o">>, kind |-> "localized",
    day |-> 5, month |-> 1, pm |-> FALSE]}

MCAllCases == MCCases \cup MCUnsupported

\* A layout with the literal U+65E5 after the day, as CJK layouts have.
Nichi == <<[kind |-> "lit", tab |-> "", text |-> <<"xE6">>],
           [kind |-> "lit", tab |-> "", text |-> <<"x97">>],
           [kind |-> "lit", tab |-> "", text |-> <<"xA5">>]>>

MCMultiByteCases ==
  {LET e == <<LM, Sp, Day>> \o Nichi IN
     [elems |-> e, layout |-> FlattenSeq([i \in DOMAIN e |-> e[i].text]),
      lang |-> "es", value |-> Render(Es, e, d), kind |-> "localized",
      day |-> d.day, month |-> d.month, pm |-> d.pm] :
    d \in [day : {5}, month : {1}, pm : {FALSE}]}

\* The cases of the localized run: besides MCAllCases, the multibyte value
\* under its own kind, which RoundTripAligned does not judge, so that the
\* two-byte WriteRune advance past the value's last byte is explored.
MCPassCases ==
  MCAllCases \cup {[c EXCEPT !.kind = "nonAscii"] : c \in MCMultiByteCases}
=============================================================================

------------------------------- MODULE Codecs -------------------------------
(***************************************************************************)
(* What the program computes from a text, each as a function of the text:  *)
(* urlencode.c, urldecode.c and json_decode.c of the web plugin,           *)
(* ls_parse_int.c, libwidechar.c, and wrongly.c and somehow.c of xkb.  A   *)
(* behaviour takes one text and computes; the properties compare what      *)
(* comes out with what was meant.                                          *)
(*                                                                         *)
(* A character is a name.  Numbers and codes have few digits: CdBase is 3, *)
(* so INT_MAX and SIZE_MAX are small too, and so is MAX_DEPTH.             *)
(***************************************************************************)
EXTENDS Integers, FiniteSets, Sequences, SequencesExt

CONSTANTS CdMaxText,  \* bound: the length of a text
          CdIntMax,   \* INT_MAX
          CdSizeMax,  \* SIZE_MAX
          CdMaxDepth, \* MAX_DEPTH of json_decode()
          CdBadLists  \* what somehow_bad may be: sequence of sets of names

ASSUME CdAssumption == {CdMaxText, CdIntMax, CdSizeMax, CdMaxDepth} \subseteq Nat

\* The names have neither parentheses nor colons; one is empty where two commas meet.
ASSUME CdBadListsAssumption == CdBadLists \in Seq(SUBSET Seq({"us", "pc"}))

\* A text of xkb's is in memory, so a size_t holds its length.
ASSUME CdTextFits == CdMaxText + 1 <= CdSizeMax

VARIABLES cd,     \* the function, the text and its other argument
          cdDone, \* whether it has returned,
          cdOut   \* and what

cdvars == <<cd, cdDone, cdOut>>

CdBase == 3
Digits == <<"0", "1", "2">>
IsDigit(c) == c \in ToSet(Digits)
Value(c) == (CHOOSE k \in 1..CdBase : Digits[k] = c) - 1
-----------------------------------------------------------------------------
(* urlencode() and urldecode().  A character's code has two digits.        *)

UrlChars == <<"0", "1", "2", "%", "+", "space", "letter", "/", "newline">>
CodeOf(c) == (CHOOSE k \in DOMAIN UrlChars : UrlChars[k] = c) - 1

ShouldBeEscaped(c) == ~IsDigit(c) /\ c # "letter"

UrlencodeChar(c, plus) ==
  IF plus /\ c = "space" THEN <<"+">>
  ELSE IF ShouldBeEscaped(c)
       THEN <<"%", Digits[(CodeOf(c) \div CdBase) + 1], Digits[(CodeOf(c) % CdBase) + 1]>>
       ELSE <<c>>

Urlencode(src, plus) == FoldLeft(LAMBDA dst, c : dst \o UrlencodeChar(c, plus), <<>>, src)

\* Mutant: an overflow of the size is not noticed.
UrlencodeSizeWraps(src, plus) ==
  FoldLeft(LAMBDA res, c : (res + Len(UrlencodeChar(c, plus))) % (CdSizeMax + 1), 0, src)

\* urlencode_size(): the length, modulo 2^n, or -1 if a sum is less than its last summand.
UrlencodeSize(src, plus) ==
  FoldLeft(LAMBDA res, c :
             LET summand == Len(UrlencodeChar(c, plus))
                 sum     == (res + summand) % (CdSizeMax + 1)
             IN IF res = -1 \/ sum < summand THEN -1 ELSE sum,
           0, src)

\* urldecode_size()
UrldecodeSize(src) ==
  LET size[i \in 1..Len(src) + 3] ==
        IF i > Len(src) THEN 0 ELSE 1 + size[IF src[i] = "%" THEN i + 3 ELSE i + 1]
  IN size[1]

\* urldecode(): <<"nil">> if a "%" is not followed by two digits.
Urldecode(src) ==
  LET n == Len(src)
      from[i \in 1..n + 1] ==
        IF i > n THEN <<>>
        ELSE IF src[i] # "%" THEN <<IF src[i] = "+" THEN "space" ELSE src[i]>> \o from[i + 1]
        ELSE IF i + 2 > n \/ ~IsDigit(src[i + 1]) \/ ~IsDigit(src[i + 2]) THEN <<"nil">>
        ELSE <<UrlChars[Value(src[i + 1]) * CdBase + Value(src[i + 2]) + 1]>> \o from[i + 3]
      res == from[1]
  IN IF "nil" \in ToSet(res) THEN <<"nil">> ELSE res

\* l_urlencode(), which is out of memory (-1) when there is no such size, and when it is
\* SIZE_MAX, for that is (size_t) -1, too; and l_urldecode(): the text, and the size of the
\* buffer it must fill, which is asserted.
UrlencodeCall(src, plus) ==
  LET nres == UrlencodeSize(src, plus)
  IN [size |-> IF nres = CdSizeMax THEN -1 ELSE nres, text |-> Urlencode(src, plus)]
UrldecodeCall(src) == [size |-> UrldecodeSize(src), text |-> Urldecode(src)]
-----------------------------------------------------------------------------
(* ls_strtou_b() and ls_full_strtou_b().                                   *)

\* Mutant: only the product is compared with INT_MAX.
StrtouSumWraps(s) ==
  FoldLeft(LAMBDA st, c :
             IF st.stop \/ ~IsDigit(c) THEN [st EXCEPT !.stop = TRUE]
             ELSE IF st.ret > CdIntMax \div CdBase THEN [st EXCEPT !.stop = TRUE, !.ret = -1]
             ELSE [st EXCEPT !.ret = @ * CdBase + Value(c), !.end = @ + 1],
           [ret |-> 0, end |-> 0, stop |-> FALSE], s)

\* The number that starts the text and where it ends; -1 stands for -ERANGE.
Strtou(s) ==
  FoldLeft(LAMBDA st, c :
             IF st.stop \/ ~IsDigit(c) THEN [st EXCEPT !.stop = TRUE]
             ELSE IF \/ st.ret > CdIntMax \div CdBase
                     \/ st.ret * CdBase > CdIntMax - Value(c)
             THEN [st EXCEPT !.stop = TRUE, !.ret = -1]
             ELSE [st EXCEPT !.ret = @ * CdBase + Value(c), !.end = @ + 1],
           [ret |-> 0, end |-> 0, stop |-> FALSE], s)

\* -1 stands for -ERANGE and -EINVAL.
FullStrtouB(s) ==
  IF s = <<>> \/ Strtou(s).ret < 0 \/ Strtou(s).end # Len(s) THEN -1 ELSE Strtou(s).ret
-----------------------------------------------------------------------------
(* libwidechar.  Bytes: a plain character, the two bytes of a wide one or of a mark that   *)
(* has no width, one that cannot be printed, and NUL.                      *)

Bytes == {"plain", "lead", "wide", "mark", "control", "nul"}
BadMark == <<"plain">>

\* next() at byte i, which is mbrtowc(), and wcwidth(): the bytes of the character, 0 if it is
\* not valid, and its width, -1 if it cannot be printed.
NextChar(v, i) ==
  CASE v[i] = "plain" -> [n |-> 1, w |-> 1]
    [] v[i] \in {"control", "nul"} -> [n |-> 1, w |-> -1]
    [] v[i] = "lead" /\ i < Len(v) /\ v[i + 1] = "wide" -> [n |-> 2, w |-> 2]
    [] v[i] = "lead" /\ i < Len(v) /\ v[i + 1] = "mark" -> [n |-> 2, w |-> 0]
    [] OTHER -> [n |-> 0, w |-> -1]

\* libwidechar_width(), or -1.
Width(v) ==
  LET from[i \in 1..Len(v) + 1] ==
        IF i > Len(v) THEN 0
        ELSE LET c == NextChar(v, i) IN
             IF c.w < 0 \/ from[i + c.n] < 0 THEN -1 ELSE c.w + from[i + c.n]
  IN from[1]

\* Mutant: a character is taken if there was room before it.
TruncateToWidthLate(v, max) ==
  LET from[i \in 1..Len(v) + 1] == [width \in 0..max + 1 |->
        IF i > Len(v) THEN [len |-> i - 1, width |-> width]
        ELSE LET c == NextChar(v, i) IN
             IF c.w < 0 THEN [len |-> -1, width |-> 0]
             ELSE IF width >= max THEN [len |-> i - 1, width |-> width]
             ELSE from[i + c.n][width + c.w]]
  IN from[1][0]

\* libwidechar_truncate_to_width(): how many bytes, and their width; no bytes are -1.  What is
\* made of the text from a byte on, for each width of what is before it.
TruncateToWidth(v, max) ==
  LET from[i \in 1..Len(v) + 1] == [width \in 0..max |->
        IF i > Len(v) THEN [len |-> i - 1, width |-> width]
        ELSE LET c == NextChar(v, i) IN
             IF c.w < 0 THEN [len |-> -1, width |-> 0]
             ELSE IF width + c.w > max THEN [len |-> i - 1, width |-> width]
             ELSE from[i + c.n][width + c.w]]
  IN from[1][0]

\* libwidechar_make_valid_and_printable(): after a byte that is not valid the next is looked at.
MakeValidAndPrintable(v) ==
  LET from[i \in 1..Len(v) + 1] ==
        IF i > Len(v) THEN <<>>
        ELSE LET c == NextChar(v, i) IN
             IF c.w >= 0 THEN SubSeq(v, i, i + c.n - 1) \o from[i + c.n]
             ELSE BadMark \o from[i + (IF c.n = 0 THEN 1 ELSE c.n)]
  IN from[1]
-----------------------------------------------------------------------------
(* xkb: the names of the groups.                                           *)

GroupChars == {"us", "pc", "comma", "(", ")", ":"}

\* wrongly_parse_layout(), and the same of somehow_parse_symbols(), where "+" is the comma.
\* The balance is a size_t, and comes back to zero from below.
ParseLayout(layout) ==
  LET end == FoldLeft(LAMBDA st, c :
                CASE c = "comma" /\ st.balance = 0 -> [st EXCEPT !.out = Append(@, st.piece), !.piece = <<>>]
                  [] c = "(" -> [st EXCEPT !.balance = (@ + 1) % (CdSizeMax + 1), !.piece = Append(@, c)]
                  [] c = ")" -> [st EXCEPT !.balance = (@ + CdSizeMax) % (CdSizeMax + 1), !.piece = Append(@, c)]
                  [] OTHER   -> [st EXCEPT !.piece = Append(@, c)],
              [balance |-> 0, piece |-> <<>>, out |-> <<>>], layout)
  IN Append(end.out, end.piece)

BadMatches(bad, s) ==
  /\ IsPrefix(bad, s)
  /\ Len(s) = Len(bad) \/ s[Len(bad) + 1] \in {"(", ":"}

\* check_bad(), of the names that the commas of the option divide it into; none if it is empty.
CheckBad(bad, s) == s = <<>> \/ \E name \in bad : BadMatches(name, s)

\* What is left of a sequence without some of its elements.
Without(seq, bad) == SelectSeq(seq, LAMBDA x : x \notin bad)

\* somehow_parse_symbols()
ParseSymbols(symbols, bad) ==
  LET pieces == ParseLayout(symbols)
  IN Without(pieces, {piece \in ToSet(pieces) : CheckBad(bad, piece)})
-----------------------------------------------------------------------------
(* json_decode(): a value is a scalar, or an array of values.              *)

JsonChars == {"[", "]", "scalar"}
Opened(text, i) == Cardinality({j \in 1..i : text[j] = "["})
Closed(text, i) == Cardinality({j \in 1..i : text[j] = "]"})
IsJson(text) ==
  /\ text # <<>> /\ Opened(text, Len(text)) = Closed(text, Len(text))
  /\ \A i \in 1..Len(text) - 1 : Opened(text, i) > Closed(text, i)

\* convert(): every value takes one of recur_lim.
JsonDecode(text) ==
  LET end == FoldLeft(LAMBDA lim, c : IF c = "]" \/ lim < 0 THEN lim ELSE lim - 1, CdMaxDepth, text)
  IN IF end < 0 THEN "depth limit exceeded" ELSE "decoded"
-----------------------------------------------------------------------------
CdTexts(chars, n) == BoundedSeq(chars, n)

CdInputs ==
  [fn : {"urlencode"}, text : CdTexts(ToSet(UrlChars), CdMaxText), arg : {0, 1}]
    \cup [fn : {"urldecode"}, text : CdTexts(ToSet(UrlChars), CdMaxText), arg : {0}]
    \cup [fn : {"strtou"}, text : CdTexts(ToSet(Digits) \cup {"letter"}, CdMaxText + 1), arg : {0}]
    \cup [fn : {"truncate"}, text : CdTexts(Bytes, CdMaxText), arg : 0..CdMaxText]
    \cup [fn : {"valid"}, text : CdTexts(Bytes, CdMaxText + 1), arg : {0}]
    \cup [fn : {"wrongly"}, text : CdTexts(GroupChars, CdMaxText + 1), arg : {0}]
    \cup [fn : {"somehow"}, text : CdTexts(GroupChars, CdMaxText + 1), arg : DOMAIN CdBadLists]
    \cup [fn : {"json"}, text : {t \in CdTexts(JsonChars, CdMaxText + 2) : IsJson(t)}, arg : {0}]

CdInit == cd \in CdInputs /\ cdDone = FALSE /\ cdOut = <<>>
CdOff  == cd = [fn |-> "none", text |-> <<>>, arg |-> 0] /\ cdDone = TRUE /\ cdOut = <<>>

Compute ==
  /\ ~cdDone /\ cdDone' = TRUE
  /\ cdOut' = CASE cd.fn = "urlencode" -> UrlencodeCall(cd.text, cd.arg = 1)
                [] cd.fn = "urldecode" -> UrldecodeCall(cd.text)
                [] cd.fn = "strtou"    -> FullStrtouB(cd.text)
                [] cd.fn = "truncate"  -> TruncateToWidth(cd.text, cd.arg)
                [] cd.fn = "valid"     -> MakeValidAndPrintable(cd.text)
                [] cd.fn = "wrongly"   -> ParseLayout(cd.text)
                [] cd.fn = "somehow"   -> ParseSymbols(cd.text, CdBadLists[cd.arg])
                [] cd.fn = "json"      -> JsonDecode(cd.text)
  /\ UNCHANGED cd

CdNext == Compute

\* What the theorems are about; in the run other components take their steps beside it.
CdSpec == CdInit /\ [][CdNext]_cdvars

Computed(fns) == cd.fn \in fns /\ cdDone
-----------------------------------------------------------------------------
\* urldecode() gives back what urlencode() took, in either notation; each fills its buffer to
\* the last byte, as it asserts; and a size that is not below SIZE_MAX is noticed, never wrapped.
TextsComeBack ==
  /\ Computed({"urlencode"}) =>
       /\ cdOut.size = IF Len(cdOut.text) >= CdSizeMax THEN -1 ELSE Len(cdOut.text)
       /\ Urldecode(cdOut.text) = cd.text
       /\ UrldecodeSize(cdOut.text) = Len(cd.text)
  /\ Computed({"urldecode"}) => cdOut.text = <<"nil">> \/ cdOut.size = Len(cdOut.text)

\* What a numeral is worth, and what the commas of a layout that are not in parentheses divide.
Worth(s) == FoldLeft(LAMBDA sum, c : sum * CdBase + Value(c), 0, s)
Outside(s) == {i \in 1..Len(s) :
                 /\ s[i] = "comma"
                 /\ Cardinality({j \in 1..i : s[j] = "("}) = Cardinality({j \in 1..i : s[j] = ")"})}
Cuts(s) == Outside(s) \cup {0, Len(s) + 1}
Cut(s, k) == CHOOSE c \in Cuts(s) : Cardinality({d \in Cuts(s) : d < c}) = k - 1
Pieces(s) == [k \in 1..Cardinality(Cuts(s)) - 1 |-> SubSeq(s, Cut(s, k) + 1, Cut(s, k + 1) - 1)]

\* A name of the symbols without its variant, "(...)", and its group, ":...".
Marks(p) == {i \in 1..Len(p) : p[i] \in {"(", ":"}}
Stem(p) == SubSeq(p, 1, Min(Marks(p) \cup {Len(p) + 1}) - 1)

\* A numeral is read as the number it is worth if an int can hold it, and refused otherwise,
\* never cut or wrapped; and a layout is divided at the commas outside of parentheses, even
\* where those do not match and the balance goes below zero. Of the names of the symbols, just
\* those are left out that are empty or, without their variants and groups, in the list.
ReadAsMeant ==
  /\ Computed({"strtou"}) =>
       cdOut = IF cd.text # <<>> /\ (\A i \in 1..Len(cd.text) : IsDigit(cd.text[i]))
                  /\ Worth(cd.text) <= CdIntMax
               THEN Worth(cd.text) ELSE -1
  /\ Computed({"wrongly"}) => cdOut = Pieces(cd.text)
  /\ Computed({"somehow"}) =>
       cdOut = Without(Pieces(cd.text), {p \in ToSet(Pieces(cd.text)) :
                 p = <<>> \/ Stem(p) \in CdBadLists[cd.arg]})

\* The beginnings that fit, and the longest of them.
Fitting(v, max) == {n \in 0..Len(v) : Width(SubSeq(v, 1, n)) \in 0..max}
Longest(v, max) == CHOOSE n \in Fitting(v, max) : \A m \in Fitting(v, max) : m <= n

\* A text is cut to the longest beginning, in whole characters, that is no wider than asked,
\* unless the next character is not valid; and the text made valid and printable is so, and
\* is the text itself if that was.
FitsTheWidth ==
  /\ Computed({"truncate"}) =>
       LET most == Longest(cd.text, cd.arg)
       IN IF most < Len(cd.text) /\ NextChar(cd.text, most + 1).w < 0
          THEN cdOut.len = -1
          ELSE cdOut = [len |-> most, width |-> Width(SubSeq(cd.text, 1, most))]
  /\ Computed({"valid"}) =>
       Width(cdOut) # -1 /\ (cdOut = cd.text <=> Width(cd.text) # -1)

\* json_decode() fails for its depth only what is nested deeper than the limit, scalars counted.
DepthIsNesting ==
  Computed({"json"}) /\ cdOut = "depth limit exceeded" =>
    \E i \in 1..Len(cd.text) :
      Opened(cd.text, i) - Closed(cd.text, i) + (IF cd.text[i] = "scalar" THEN 1 ELSE 0) > CdMaxDepth
=============================================================================

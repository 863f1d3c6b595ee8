---------------------------- MODULE JsonGrammar ----------------------------
(***************************************************************************)
(* What a text of JSON denotes, by the grammar and not by a parser: every  *)
(* way to take it apart is tried.  The language is JSON's with a comma     *)
(* allowed after the last item, names that are not repeated and have no    *)
(* NUL, and objects and arrays in each other to a bound.                   *)
(***************************************************************************)
EXTENDS JsonText

CONSTANT Samples    \* texts

ASSUME SamplesAssumption == Samples \subseteq Strings

Blank(t) == ToSet(t) \subseteq White
Enclosed(t, open, close) == Len(t) > 1 /\ t[1] = open /\ t[Len(t)] = close
Inner(t) == SubSeq(t, 2, Len(t) - 1)

\* A text that is not blank, without the blanks around it.
Trimmed(t) ==
  LET dark == {i \in DOMAIN t : t[i] \notin White} IN SubSeq(t, Min(dark), Max(dark))

\* The ways to write a character of a string, each with what it stands for.
Spellings ==
  {<<<<c>>, c>> : c \in Symbols \ {"QUOTE", "\\", "LF", "NUL"}} \cup
  { <<<<"\\", "QUOTE">>, "QUOTE">>, <<<<"\\", "\\">>, "\\">>, <<<<"\\", "/">>, "/">>, <<<<"\\", "n">>, "LF">>,
    <<<<"\\", "u", "0000">>, "NUL">>, <<<<"\\", "u", "0041">>, "A">>,
    <<<<"\\", "u", "d83d", "\\", "u", "de00">>, "SMILE">> }

\* All strings that a text between quotes can stand for.
Spelt(t) ==
  LET from[k \in 1 .. Len(t) + 1] ==
        IF k > Len(t) THEN {<<>>}
        ELSE UNION {{<<p[2]>> \o rest : rest \in from[k + Len(p[1])]} :
                      p \in {p \in Spellings : IsPrefix(p[1], SubSeq(t, k, Len(t)))}}
  IN from[1]

\* All lists of what the parts between a text's commas mean: nothing at all, or
\* an item and, after a comma, a list.
Lists(t, means) ==
  LET from[k \in 1 .. Len(t) + 2] ==
        (IF Blank(SubSeq(t, k, Len(t))) THEN {<<>>} ELSE {}) \cup
        UNION {{<<v>> \o l : v \in means[SubSeq(t, k, j - 1)], l \in from[j + 1]} :
                 j \in {j \in k .. Len(t) + 1 : j = Len(t) + 1 \/ t[j] = "COMMA"}}
  IN from[1]

Quoted(t) == IF Enclosed(t, "QUOTE", "QUOTE") THEN Spelt(Inner(t)) ELSE {}

\* What a member means: a name and a value.
Pairs(t, means) ==
  UNION {{<<name, v>> : name \in IF Blank(SubSeq(t, 1, i - 1)) THEN {} ELSE Quoted(Trimmed(SubSeq(t, 1, i - 1))),
                        v \in means[SubSeq(t, i + 1, Len(t))]} : i \in {i \in DOMAIN t : t[i] = ":"}}

ObjectOf(pairs) == Object([i \in DOMAIN pairs |-> pairs[i][1]], [i \in DOMAIN pairs |-> pairs[i][2]])

\* What a text without blanks around it means, if its parts mean this.
Meant(t, means) ==
  CASE t = <<"null">> -> {Null}
    [] t \in {<<"true">>, <<"false">>} -> {Boolean(t[1])}
    [] IsNumber(t) -> {Number(Rounded(t))}
    [] Enclosed(t, "[", "]") -> {Array(l) : l \in Lists(Inner(t), means)}
    [] Enclosed(t, "LBRACE", "RBRACE") ->
         {ObjectOf(l) : l \in {l \in Lists(Inner(t), [u \in Strings |-> Pairs(u, means)]) :
                                 IsInjective([i \in DOMAIN l |-> l[i][1]]) /\ \A i \in DOMAIN l : l[i][1] \in Names}}
    [] OTHER -> {String(chars) : chars \in Quoted(t)}

\* All values that a text can denote, with so many levels.
Denoted[levels \in 0 .. MAX_NESTING + 1] ==
  [t \in Strings |-> IF levels = 0 \/ Blank(t) THEN {} ELSE Meant(Trimmed(t), Denoted[levels - 1])]

\* parse_value reads a text to its end exactly when the text is of the language,
\* as the one value it denotes.
ReadAsWritten(t) ==
  LET read == parse_value(t, 1, 0)
      whole == read # Nothing /\ Blank(SubSeq(t, read.next, Len(t)))
  IN Denoted[MAX_NESTING + 1][t] = IF whole THEN {read.value} ELSE {}

Misread == {t \in Samples : ~ReadAsWritten(t)}
=============================================================================

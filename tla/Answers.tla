------------------------------ MODULE Answers ------------------------------
(***************************************************************************)
(* The lines of the modem that at_parse_creg, at_parse_cusd and            *)
(* at_parse_cops take apart by hand or by expression.  A line is a         *)
(* sequence of tokens: a colon, a comma, a space, a quote, or an item (a   *)
(* number, a word) whose characters none of the scanners looks at.  Space  *)
(* and quote are names here for what no item is.                           *)
(***************************************************************************)
EXTENDS Integers, SequencesExt

CONSTANTS
  Numbers,       \* the items that spell a number
  Space, Quote   \* the tokens " " and "\""

ASSUME TokensAssumption ==
  Space # Quote /\ {Space, Quote} \cap ({":", ","} \cup Numbers) = {}

FirstOf(line, token) == SelectInSeq(line, LAMBDA t : t = token)      \* or 0
LastOf(line, token)  == SelectLastInSeq(line, LAMBDA t : t = token)

trimLeft(line) ==
  LET first == SelectInSeq(line, LAMBDA t : t # Space)
  IN  IF first = 0 THEN <<>> ELSE SubSeq(line, first, Len(line))
trimSpaces(line) ==
  trimLeft(SubSeq(line, 1, SelectLastInSeq(line, LAMBDA t : t # Space)))

-----------------------------------------------------------------------------
(* at_parse_creg: +CREG: [<p1>,]<p2>[,<p3>,<p4>].                          *)
(* The states are those of the code: even ones look for the end of a       *)
(* field, odd ones for its beginning; p[f] is where field f begins, or 0.  *)

CregStep(line, a, i) ==
  LET begins == a.state % 2 = 1 /\ (a.state = 3 \/ line[i] # Space)
      ends   == a.state \in 1 .. 6 /\ line[i] = ","
      colon  == a.state = 0 /\ line[i] = ":"
  IN  [state |-> a.state + (IF begins THEN 1 ELSE 0) + (IF ends \/ colon THEN 1 ELSE 0),
       p     |-> IF begins THEN [a.p EXCEPT ![(a.state + 1) \div 2] = i] ELSE a.p]

CregScan(line) ==
  FoldLeftDomain(LAMBDA a, i : CregStep(line, a, i),
                 [state |-> 0, p |-> [f \in 1 .. 4 |-> 0]], line)

(* The C string that begins at i: the comma after it has become a zero. *)
StringAt(line, i) ==
  LET rest == SubSeq(line, i, Len(line))
      end  == FirstOf(rest, ",")
  IN  IF end = 0 THEN rest ELSE SubSeq(rest, 1, end - 1)

(* strtol: what is not a number is 0. *)
strtol(string) ==
  LET digits == trimSpaces(string)
  IN  IF digits # <<>> /\ digits[1] \in Numbers THEN digits[1] ELSE "0"

NoCreg == [ok |-> FALSE, status |-> "unknown", registered |-> FALSE, lac |-> <<>>, ci |-> <<>>]

(* Fault: with a cell behind it, the status is taken for the mode. *)
StatusFieldSecond(given) == IF 2 \in given THEN 2 ELSE 1

(* The status is the first field, or the second of two or four. *)
StatusField(given) == IF given \in {{1, 2}, {1, 2, 3, 4}} THEN 2 ELSE 1

at_parse_creg(line) ==
  LET scan   == CregScan(line)
      given  == {f \in 1 .. 4 : scan.p[f] # 0}
      p(f)   == IF f \in given THEN StringAt(line, scan.p[f]) ELSE <<>>
      status == strtol(p(StatusField(given)))
      cell   == CASE given = {1, 2, 3}    -> <<p(2), p(3)>>
                  [] given = {1, 2, 3, 4} -> <<p(3), p(4)>>
                  [] OTHER                -> <<<<>>, <<>>>>
  IN  IF scan.state < 2 THEN NoCreg
      ELSE [ok |-> TRUE, status |-> status, registered |-> status \in {"1", "5"},
            lac |-> cell[1], ci |-> cell[2]]

-----------------------------------------------------------------------------
(* at_parse_cusd: +CUSD: <m>[,<str>,<dcs>], the text in quotes or not.     *)

(* Of a text that is one quote, substr leaves nothing. *)
Unquoted(text) ==
  IF text # <<>> /\ text[1] = Quote /\ text[Len(text)] = Quote
  THEN SubSeq(text, 2, Len(text) - 1)
  ELSE text

NoCusd == [ok |-> FALSE, text |-> <<>>, dcs |-> "none"]

(* Fault: the text ends at the second comma, not at the last. *)
TextEndSecond(line) ==
  FirstOf(line, ",") + FirstOf(SubSeq(line, FirstOf(line, ",") + 1, Len(line)), ",")

(* The expression is greedy: the text extends to the last comma. *)
TextEnd(line) == LastOf(line, ",")

at_parse_cusd(line) ==
  LET after == trimSpaces(SubSeq(line, 2, Len(line)))
      first == FirstOf(after, ",")
      last  == TextEnd(after)
      mode  == trimSpaces(SubSeq(after, 1, first - 1))
      dcs   == trimSpaces(SubSeq(after, last + 1, Len(after)))
      text  == SubSeq(after, first + 1, last - 1)
      IsNumeral(field) == Len(field) = 1 /\ field[1] \in Numbers
  IN  IF first < last /\ IsNumeral(mode) /\ IsNumeral(dcs)
      THEN [ok |-> TRUE, text |-> Unquoted(trimLeft(text)), dcs |-> dcs[1]]
      ELSE NoCusd

-----------------------------------------------------------------------------
(* at_parse_cops: +COPS: <mode>[,<format>,<oper>], where the operator is   *)
(* what stands between the first two quotes.                               *)

NoProvider == [ok |-> FALSE, name |-> <<>>]

at_parse_cops(line) ==
  LET open  == FirstOf(line, Quote)
      after == SubSeq(line, open + 1, Len(line))
      close == FirstOf(after, Quote)
  IN  IF open = 0 \/ close = 0 THEN NoProvider
      ELSE [ok |-> TRUE, name |-> SubSeq(after, 1, close - 1)]
=============================================================================

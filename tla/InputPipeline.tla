--------------------------- MODULE InputPipeline ---------------------------
(***************************************************************************)
(* What becomes of a recipient's name between the payment form and the     *)
(* Payment collection.  The server cleans every body before it validates   *)
(* it (sanitizeRequestBody, globalSanitization), and the payment route     *)
(* cleans what it has validated once more.                                 *)
(*                                                                         *)
(* A text is a sequence of parts: a space, a hyphen, a full stop, an       *)
(* apostrophe, what encoding makes of that, and letters.  "w" are letters  *)
(* that are no listed word, "x" two letters.  The other letters make a     *)
(* listed word when written together, and come to three or more each: "a"  *)
(* and "b" a word deleted before hyphens are, as exe and cute; "e" and "f" *)
(* one deleted with the spaces behind it, as wai and tfor; "c" and "d" one *)
(* deleted last, as sys and objects, or net and cat.  The form's maximum   *)
(* of 100 characters is the server's, and what cleaning makes longer the   *)
(* server refuses, so that no maximum appears here.                        *)
(***************************************************************************)
EXTENDS Places, Sequences

Letters == {"w", "x", "a", "b", "c", "d", "e", "f"}
FormParts == Letters \cup {" ", "-", ".", "'"}
Encoded == "&#x27;"

\* What \b takes for a part of a word; names have no digits and no capitals
\* that matter, passwords do (Credentials).
WordParts == Letters \cup {"U", "1"}

\* A pass over a whole text, before the next one begins.
Pass(Change(_), text) == [ t \in {text} |-> Change(t) ][text]

Without(text, positions) == Picked(text, DOMAIN text \ positions)

PartAt(text, i) == IF i \in DOMAIN text THEN text[i] ELSE ""

-----------------------------------------------------------------------------
(* sanitizeInput, as the calls for a request body configure it *)

\* A listed word, here of two halves, where it stands alone (the regexes' \b).
WordAt(text, i, first, second) ==
  /\ PartAt(text, i) = first /\ PartAt(text, i + 1) = second
  /\ PartAt(text, i - 1) \notin WordParts /\ PartAt(text, i + 2) \notin WordParts

KeywordAt(text, i) == WordAt(text, i, "a", "b")
LateWordAt(text, i) == WordAt(text, i, "c", "d")
DelayAt(text, i) == WordAt(text, i, "e", "f") /\ PartAt(text, i + 2) = " "

DropKeywords(text) ==
  Without(text, UNION { {i, i + 1} : i \in { j \in DOMAIN text : KeywordAt(text, j) } })

DropLateWords(text) ==
  Without(text, UNION { {i, i + 1} : i \in { j \in DOMAIN text : LateWordAt(text, j) } })

\* waitfor and delay go with all the spaces behind them.
DropDelays(text) ==
  Without(text, { k \in DOMAIN text : \E i \in DOMAIN text :
    /\ DelayAt(text, i) /\ i <= k
    /\ \A j \in i + 2 .. k : text[j] = " " })

\* Mutant: hyphens are looked for one by one.
DropDashes(text) == Without(text, { i \in DOMAIN text : text[i] = "-" })

\* Hyphens are deleted in pairs, from the left.
DashesBefore(text, i) ==
  Cardinality({ j \in 1 .. i - 1 : \A k \in j .. i - 1 : text[k] = "-" })

DropDashPairs(text) ==
  Without(text, { i \in DOMAIN text :
    /\ text[i] = "-"
    /\ \/ DashesBefore(text, i) % 2 = 1
       \/ DashesBefore(text, i) % 2 = 0 /\ PartAt(text, i + 1) = "-" })

\* What is encoded once loses & and ; when it is cleaned again.
Encode(text) ==
  [ i \in DOMAIN text |->
      CASE text[i] = "'" -> Encoded
        [] text[i] = Encoded -> "#x27"
        [] OTHER -> text[i] ]

Trim(text) ==
  Without(text, { i \in DOMAIN text :
    \/ \A j \in 1 .. i : text[j] = " "
    \/ \A j \in i .. Len(text) : text[j] = " " })

\* The patterns in the order of the lists: words, hyphens, waitfor and delay, and
\* the words of the lists' ends, of which hyphens may come to be side by side.
sanitizeInput(text) ==
  Pass(Trim, Pass(Encode, Pass(DropLateWords,
    Pass(DropDelays, Pass(DropDashPairs, Pass(DropKeywords, text))))))

-----------------------------------------------------------------------------
(* The two whitelists for a recipient's name, and the whole way *)

\* validateInput of the form: two characters of its pattern, not all of them
\* spaces.
FormAccepts(text) ==
  /\ \A i \in DOMAIN text : text[i] \in FormParts
  /\ \E i \in DOMAIN text : text[i] # " "
  /\ Len(text) > 1 \/ text[1] \in Letters

\* recipientName of VALIDATION_PATTERNS: a letter, one part in between at the
\* least, a letter.
ServerAccepts(text) ==
  /\ \A i \in DOMAIN text : text[i] \in Letters \cup {" ", "-", "'"}
  /\ text # << >> /\ text # <<"x">>
  /\ text[1] \in Letters /\ text[Len(text)] \in Letters

\* sanitizeRequestBody, then globalSanitization, whose trim finds nothing left.
Validated(text) == Pass(Trim, sanitizeInput(text))

\* The second sanitizeRequestBody of the payment route.
Stored(text) == sanitizeInput(Validated(text))

\* The answer of the route: a name that the second cleaning has emptied fails
\* the schema's required.
Outcome(text) ==
  IF ~ServerAccepts(Validated(text)) THEN "400"
  ELSE IF Stored(text) = << >> THEN "500"
  ELSE "201"
=============================================================================

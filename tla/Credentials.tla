---------------------------- MODULE Credentials ----------------------------
(***************************************************************************)
(* What becomes of a customer's e-mail and password on their way from the  *)
(* forms to the Customer collection and back: cleaned like every body,     *)
(* validated by POST /register and POST /login with different rules, and   *)
(* matched by the schema.                                                  *)
(*                                                                         *)
(* Parts of a password, each of two characters: "w", "a" and "b" are       *)
(* small letters, a and b written together a word on the sanitizer's list, *)
(* as dr and op; "U" capitals, "1" digits, "@" special characters that     *)
(* stay, "$" those that the sanitizer deletes ($ and &).  Of an e-mail,    *)
(* each of one character: "o" and "n", "w" and "U" any other letter,       *)
(* digit or underscore, the latter a capital; "=", a hyphen, a full stop;  *)
(* an apostrophe, like & and / encoded; "+", any other that EMAIL_REGEX    *)
(* allows; "i", after the @ only, the six letters of import.               *)
(***************************************************************************)
EXTENDS InputPipeline

CONSTANTS
  MaxPassword,  \* 128 characters: 64 parts
  MaxLocal,     \* 64: the characters before the @
  MaxEmail      \* 254: of the whole e-mail

ASSUME LengthAssumption == MaxPassword \in Nat /\ MaxLocal \in Nat /\ MaxEmail \in Nat

LowerParts == {"w", "a", "b"}
PasswordParts == LowerParts \cup {"U", "1", "@", "$"}
EmailLetters == {"w", "U", "o", "n"}
LocalParts == EmailLetters \cup {"=", "+", "'", "-", "."}

-----------------------------------------------------------------------------
(* Passwords *)

\* PASSWORD_REGEX, of both forms and of utils/validation: no maximum.
StrongPassword(text) ==
  /\ Len(text) >= 4
  /\ \A class \in {LowerParts, {"U"}, {"1"}, {"@", "$"}} : \E i \in DOMAIN text : text[i] \in class

\* The pattern among the command patterns that lists $ and &.
DropSpecial(text) == Without(text, { i \in DOMAIN text : text[i] = "$" })

\* The words first, so that one that appears when $ is deleted stays.
sanitizePassword(text) == Pass(DropSpecial, Pass(DropKeywords, text))

\* validatePassword
RegisterTakes(text) ==
  StrongPassword(sanitizePassword(text)) /\ Len(sanitizePassword(text)) <= MaxPassword

\* Mutant: what was typed is hashed.
TypedPassword(text) == text

\* What argon2 hashes.
HashedPassword(text) == sanitizePassword(text)

\* validateLogin looks at the length alone, and argon2.verify compares.
LoginMatches(typed, hashed) ==
  Len(sanitizePassword(typed)) \in 4 .. MaxPassword /\ sanitizePassword(typed) = hashed

-----------------------------------------------------------------------------
(* E-mails, as the part before and the part after the @ *)

\* EMAIL_REGEX: anything before the @, and labels between dots after it.
EmailMatches(local, domain) ==
  /\ local # << >> /\ \A i \in DOMAIN local : local[i] \in LocalParts
  /\ domain # << >>
  /\ \A i \in DOMAIN domain : domain[i] = "." =>
       PartAt(domain, i - 1) \notin {"", "."} /\ PartAt(domain, i + 1) \notin {"", "."}

LowerCase(text) == [ i \in DOMAIN text |-> IF text[i] = "U" THEN "w" ELSE text[i] ]

\* on, a letter or more, and =, as the attribute of an event has them.
HandlerAt(text, i, end) ==
  /\ PartAt(text, i) = "o" /\ PartAt(text, i + 1) = "n"
  /\ i + 2 < end /\ PartAt(text, end) = "="
  /\ \A j \in i + 2 .. end - 1 : text[j] \in EmailLetters

DropHandlers(text) ==
  Without(text, { k \in DOMAIN text :
    \E i, end \in DOMAIN text : HandlerAt(text, i, end) /\ k \in i .. end })

\* Before the @.  Encoding an apostrophe makes an e-mail that EMAIL_REGEX refuses.
sanitizeEmail(text) == Encode(Pass(DropHandlers, LowerCase(text)))

\* After the @: where import follows it the @ is deleted with it.
LosesAt(domain) == domain[1] = "i"

\* sanitizeRequestBody, then sanitizeXSS of globalSanitization.
CleanedEmail(text) == Pass(DropHandlers, sanitizeEmail(text))

\* isEmail wants a dot after the @, two letters or more behind the last, none at the
\* ends before the @ nor two together; and the maxima.
Characters(domain) == Len(domain) + 5 * Cardinality({ i \in DOMAIN domain : domain[i] = "i" })

WellFormed(local, domain) ==
  /\ \E i \in DOMAIN domain : domain[i] = "."
  /\ PartAt(domain, Len(domain) - 1) = "." => domain[Len(domain)] = "i"
  /\ \A i \in DOMAIN local : local[i] = "." =>
       PartAt(local, i - 1) \notin {"", "."} /\ PartAt(local, i + 1) \notin {"", "."}
  /\ Len(local) <= MaxLocal /\ Len(local) + 1 + Characters(domain) <= MaxEmail

\* The schema's pattern for an e-mail.
SchemaMatches(local) == \A i \in DOMAIN local : local[i] \in EmailLetters \cup {"-", "."}

\* The answer of POST /register as far as the e-mail decides it.
EmailOutcome(local, domain) ==
  LET cleaned == CleanedEmail(local)
  IN  IF LosesAt(domain) \/ ~(EmailMatches(cleaned, domain) /\ WellFormed(cleaned, domain)) THEN "400"
      ELSE IF ~SchemaMatches(cleaned) THEN "500"
      ELSE "201"

\* What POST /login looks for: validateLogin takes the cleaned e-mail and cleans it with
\* sanitizeXSS again.
EmailFinds(local, domain, stored) ==
  /\ ~LosesAt(domain) /\ EmailMatches(CleanedEmail(local), domain)
  /\ Pass(DropHandlers, CleanedEmail(local)) = stored
=============================================================================

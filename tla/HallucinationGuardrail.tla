------------------------ MODULE HallucinationGuardrail -------------------------
(***************************************************************************)
(* hallucinationGuardrail.ts: the amounts of a reply, each looked for in   *)
(* the knowledge base near words about the same thing, and the prices also *)
(* compared with the price list.                                           *)
(*                                                                         *)
(* The context of an amount is its line and those next to it.              *)
(***************************************************************************)
EXTENDS PriceCatalog, Integers

CONSTANTS Categories,  \* CONTEXT_CATEGORIES
          CategoriesOf, \* the categories a word is a keyword of
          Markers,     \* the words of NON_QUOTABLE_MARKERS
          Radius       \* CONTEXT_WINDOW_RADIUS, in lines

ASSUME GuardrailAssumption ==
    /\ CategoriesOf \in [Words -> SUBSET Categories]
    /\ Markers \subseteq Words
    /\ Radius \in Nat

\* The sizes in Latin letters: no \b matches next to a Cyrillic one, nor between
\* the letters of "gr".
IsLatinClaim(size) == size.unit = "kg or g"

Claim(amount, kind) == [amount |-> amount, kind |-> kind]

extractNumberClaims(reply) ==
    {Claim(p, "price") : p \in UNION {ToSet(PricesOn(reply[i])) : i \in DOMAIN reply}}
    \cup {Claim(s.grams, "size") :
             s \in {z \in UNION {ToSet(SizesWritten(reply[i])) : i \in DOMAIN reply} : IsLatinClaim(z)}}

\* The amounts of a line among which a claim is looked for, in every spelling.
Amounts(line, kind) ==
    IF kind = "price" THEN ToSet(PricesOn(line)) ELSE {s.grams : s \in ToSet(SizesWritten(line))}

\* The lines in which the claim is found, as a number or as the end of one.  No
\* reply writes its sizes in both scripts.
allIndicesOf(claim, lines) ==
    {i \in DOMAIN lines : \E n \in Amounts(lines[i], claim.kind) : Within(claim.amount, n)}

\* Mutant of windowAround: only the line itself.
ownLine(lines, index) == WordsOf(lines[index])

windowAround(lines, index) ==
    UNION {WordsOf(lines[i]) : i \in DOMAIN lines \cap (index - Radius)..(index + Radius)}

categoriesFor(window) == UNION {CategoriesOf[w] : w \in window}

isNonQuotable(window) == window \cap Markers # {}

\* Mutant of isVerifiedInContext: the number is somewhere in the knowledge base.
isPresent(claim, replyWindow, lines) == allIndicesOf(claim, lines) # {}

isVerifiedInContext(claim, replyWindow, lines) ==
    \E i \in allIndicesOf(claim, lines) :
       /\ ~isNonQuotable(windowAround(lines, i))
       /\ \/ categoriesFor(replyWindow) = {}
          \/ categoriesFor(replyWindow) \cap categoriesFor(windowAround(lines, i)) # {}

checkForUnverifiedNumbers(reply, knowledgeBase) ==
    LET claims == extractNumberClaims(reply)
        firstIndex(c) == Min(allIndicesOf(c, reply))
        unverified ==
            {c \in claims : ~isVerifiedInContext(c, windowAround(reply, firstIndex(c)),
                                                 knowledgeBase)}
        prices == {c.amount : c \in {d \in claims : d.kind = "price"}}
    IN /\ unverified = {}
       /\ findMisattributedPrices(reply, prices, parsePriceCatalog(knowledgeBase)) = {}
================================================================================

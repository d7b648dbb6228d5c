--------------------------- MODULE PriceCatalogProofs --------------------------
(***************************************************************************)
(* What the guardrail makes of prices, for any price list, any reply and   *)
(* any words: it holds a price to its product and packing, and it lets one *)
(* that is right pass.                                                     *)
(***************************************************************************)
EXTENDS HallucinationGuardrail, FlattenProofs

Cells == [words : SUBSET Words, sizes : Seq([grams : Nat, unit : Units]), prices : Seq(Nat)]

Texts == Seq(Seq(Cells))

\* The products a line is about: those it names, or else those the reply names.
About(reply, i, catalog) ==
    LET named == mentionedEntries(WordsOf(reply[i]), catalog) IN
    IF named # {} THEN named
    ELSE mentionedEntries(UNION {WordsOf(reply[k]) : k \in DOMAIN reply}, catalog)

\* What these products cost in a packing.
Costs(products, size) == {e.prices[size] : e \in {o \in products : size \in DOMAIN o.prices}}

\* A line with a readable size for each of its prices.
IsLadder(line) == Len(PricesOn(line)) = Len(SizesOn(line))

-----------------------------------------------------------------------------
LEMMA PricesTyped ==
    ASSUME NEW line \in Seq(Cells)
    PROVE  PricesOn(line) \in Seq(Nat)
<1> DEFINE prices == [i \in DOMAIN line |-> line[i].prices]
<1>1. /\ DOMAIN line = 1..Len(line) /\ Len(line) \in Nat
      /\ \A i \in 1..Len(line) : line[i] \in Cells
  BY LenProperties, ElementOfSeq
<1>2. prices \in Seq(Seq(Nat))
  <2>1. \A cell \in Cells : cell.prices \in Seq(Nat)
    BY DEF Cells
  <2> QED
    BY <1>1, <2>1, IsASeq
<1> QED
  BY <1>2, FlattenProperties DEF PricesOn

LEMMA PricesIndexed ==
    ASSUME NEW reply \in Texts, NEW i \in DOMAIN reply
    PROVE  /\ PricesOn(reply[i]) \in Seq(Nat)
           /\ DOMAIN PricesOn(reply[i]) = 1..Len(PricesOn(reply[i]))
<1>1. reply[i] \in Seq(Cells)
  BY DEF Texts
<1> QED
  BY <1>1, PricesTyped

\* The price in the j-th place of a ladder is judged by the j-th size.
LEMMA LadderJudged ==
    ASSUME NEW reply \in Texts, NEW i \in DOMAIN reply, NEW j \in DOMAIN PricesOn(reply[i]),
           IsLadder(reply[i]), NEW catalog
    PROVE  LET price == PricesOn(reply[i])[j]
               size == SizesOn(reply[i])[j]
               mentions == mentionedEntries(UNION {WordsOf(reply[k]) : k \in DOMAIN reply}, catalog)
               costs == Costs(About(reply, i, catalog), size)
           IN isMisattributed(price, reply[i], j, mentions, catalog) <=>
                 IF costs # {} THEN price \notin costs
                 ELSE \/ size \in catalog.knownSizes
                      \/ \A s \in catalog.knownSizes : price \notin Costs(About(reply, i, catalog), s)
<1> DEFINE price == PricesOn(reply[i])[j]
           size == SizesOn(reply[i])[j]
           mentions == mentionedEntries(UNION {WordsOf(reply[k]) : k \in DOMAIN reply}, catalog)
           about == About(reply, i, catalog)
<1>1. j # 0
  BY PricesIndexed
<1>2. sizesGoverning(reply[i], IF PricesOn(reply[i])[j] = price THEN j ELSE 0) = {size}
  BY <1>1 DEF sizesGoverning, IsLadder
<1>3. about = LET named == mentionedEntries(WordsOf(reply[i]), catalog)
              IN IF named # {} THEN named ELSE mentions
  BY DEF About
<1> HIDE DEF price, size, mentions, about
<1>4. isMisattributed(price, reply[i], j, mentions, catalog) <=>
         LET sold == {s \in {size} : Costs(about, s) # {}} IN
         IF sold # {} THEN price \notin UNION {Costs(about, s) : s \in sold}
         ELSE \/ {size} \cap catalog.knownSizes # {}
              \/ price \notin UNION {Costs(about, s) : s \in catalog.knownSizes}
  BY <1>2, <1>3 DEF isMisattributed, Costs
<1>5. CASE Costs(about, size) # {}
  <2>1. {s \in {size} : Costs(about, s) # {}} = {size}
    BY <1>5
  <2> QED
    BY <1>4, <1>5, <2>1 DEF price, size, mentions, about
<1>6. CASE Costs(about, size) = {}
  <2>1. {s \in {size} : Costs(about, s) # {}} = {}
    BY <1>6
  <2> QED
    BY <1>4, <1>6, <2>1 DEF price, size, mentions, about
<1> QED
  BY <1>5, <1>6

-----------------------------------------------------------------------------
PricesOf(reply) == UNION {ToSet(PricesOn(reply[i])) : i \in DOMAIN reply}

NamesAProduct(reply, catalog) ==
    mentionedEntries(UNION {WordsOf(reply[k]) : k \in DOMAIN reply}, catalog) # {}

\* checkForUnverifiedNumbers holds a reply to the price list it was given.  In a
\* reply that passes and names a product, a price in a line with a readable size
\* for each price is what one of the products of this line costs in this very
\* packing; where none is sold in it, it is no packing of the list at all, and
\* the price is one of these products' prices.
THEOREM PassedPricesAreRight ==
    ASSUME NEW reply \in Texts, NEW knowledgeBase,
           checkForUnverifiedNumbers(reply, knowledgeBase),
           NamesAProduct(reply, parsePriceCatalog(knowledgeBase)),
           NEW i \in DOMAIN reply, NEW j \in DOMAIN PricesOn(reply[i]), IsLadder(reply[i])
    PROVE  LET catalog == parsePriceCatalog(knowledgeBase)
               price == PricesOn(reply[i])[j]
               size == SizesOn(reply[i])[j]
               costs == Costs(About(reply, i, catalog), size)
           IN \/ price \in costs
              \/ /\ costs = {}
                 /\ size \notin catalog.knownSizes
                 /\ \E s \in catalog.knownSizes : price \in Costs(About(reply, i, catalog), s)
<1> DEFINE catalog == parsePriceCatalog(knowledgeBase)
           price == PricesOn(reply[i])[j]
           mentions == mentionedEntries(UNION {WordsOf(reply[k]) : k \in DOMAIN reply}, catalog)
           claimed == {c.amount : c \in {d \in extractNumberClaims(reply) : d.kind = "price"}}
<1>1. findMisattributedPrices(reply, claimed, catalog) = {}
  BY DEF checkForUnverifiedNumbers
<1>2. price \in claimed
  <2>1. Claim(price, "price") \in extractNumberClaims(reply)
    BY DEF extractNumberClaims, ToSet
  <2> QED
    BY <2>1 DEF Claim
<1>3. Within(price, price)
  BY DEF Within
<1> HIDE DEF catalog, price, claimed, mentions
<1>4. ~isMisattributed(price, reply[i], j, mentions, catalog)
  BY <1>1, <1>2, <1>3 DEF findMisattributedPrices, NamesAProduct, mentions, catalog, price
<1> QED
  BY <1>4, LadderJudged DEF mentions, catalog, price

\* Of a reply in which each line has a size for each price, and each price is
\* what a product of its line costs in its packing, findMisattributedPrices
\* withholds none, if none of the prices ends another one: without this it does,
\* as the run engine_quote shows.
THEOREM RightPricesPass ==
    ASSUME NEW reply \in Texts, NEW catalog,
           \A i \in DOMAIN reply : \A j \in DOMAIN PricesOn(reply[i]) :
              /\ IsLadder(reply[i])
              /\ PricesOn(reply[i])[j] \in Costs(About(reply, i, catalog), SizesOn(reply[i])[j]),
           \A c, d \in PricesOf(reply) : Within(c, d) => c = d
    PROVE  findMisattributedPrices(reply, PricesOf(reply), catalog) = {}
<1> DEFINE mentions == mentionedEntries(UNION {WordsOf(reply[k]) : k \in DOMAIN reply}, catalog)
<1> SUFFICES ASSUME NEW c \in PricesOf(reply), NEW i \in DOMAIN reply,
                    NEW j \in DOMAIN PricesOn(reply[i]),
                    Within(c, PricesOn(reply[i])[j]),
                    isMisattributed(c, reply[i], j, mentions, catalog)
             PROVE  FALSE
  BY DEF findMisattributedPrices
<1>1. c = PricesOn(reply[i])[j]
  BY DEF PricesOf, ToSet
<1>2. /\ IsLadder(reply[i])
      /\ c \in Costs(About(reply, i, catalog), SizesOn(reply[i])[j])
  BY <1>1
<1> QED
  BY <1>1, <1>2, LadderJudged
=============================================================================

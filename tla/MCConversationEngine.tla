------------------------- MODULE MCConversationEngine --------------------------
(***************************************************************************)
(* Small instances of ConversationEngine.  The history holds two           *)
(* exchanges, so that the third drops one.                                 *)
(***************************************************************************)
EXTENDS ConversationEngine

Plain(text) == [text |-> text, language |-> "uz", media |-> 0, phone |-> FALSE, location |-> FALSE]

MCWords == Plain("words")
MCContact == [Plain("card") EXCEPT !.phone = TRUE]
MCLocation == [Plain("card") EXCEPT !.location = TRUE]
MCVoice == [Plain("none") EXCEPT !.media = 1]

\* The kinds of batch the branches of the engine tell apart: words, both
\* cards, a sticker, more files than are attached, and a wholesale buyer.
MCBatches ==
    {MCWords, MCContact, MCLocation, Plain("none"), [Plain("none") EXCEPT !.media = 3],
     [Plain("b2b") EXCEPT !.media = 1]}

MCSpoken == {MCWords, MCContact, MCVoice}

-----------------------------------------------------------------------------
\* Words of the price list: peanuty is said of a flour, and begins with the
\* stem of peanut.  The pistachio paste is "pista pastasi" in Uzbek, of which
\* the program knows neither word.
MCWordList == {"almondy", "flour", "keto", "peanuty", "peanut", "pistachio", "cashew", "paste",
               "pista", "pastasi", "delivery", "doNotQuote"}

MCStemOf == [w \in MCWordList |-> w]

MCExcess == [w \in MCWordList |-> [s \in MCWordList |->
                CASE w = s -> 2
                  [] w = "peanuty" /\ s = "peanut" -> 6
                  [] OTHER -> NoPrefix]]

MCCategoriesOf == [w \in MCWordList |-> CASE w = "delivery" -> {"delivery"}
                                          [] w \in {"doNotQuote", "pista", "pastasi"} -> {}
                                          [] OTHER -> {"product"}]

Names == [almondFlour |-> {"almondy", "flour"}, ketoFlour |-> {"almondy", "flour", "keto"},
          peanutFlour |-> {"peanuty", "flour"}, peanuts |-> {"peanut"},
          pistachioPaste |-> {"pistachio", "paste"}, cashewPaste |-> {"cashew", "paste"}]

\* A price list: the packings a product has a price for.  The list that replaces
\* the first one has a dearer almond flour, at the price of the keto flour.
OldList == [almondFlour |-> (150 :> 35 @@ 500 :> 85), ketoFlour |-> (150 :> 30 @@ 500 :> 80),
            peanutFlour |-> (500 :> 35), peanuts |-> (500 :> 30),
            pistachioPaste |-> (200 :> 110 @@ 500 :> 250), cashewPaste |-> (200 :> 50 @@ 500 :> 110)]
NewList == [OldList EXCEPT !.almondFlour = (150 :> 30 @@ 500 :> 85)]

\* The knowledge base that holds a list.
Prose(words, sizes, prices) == <<Cell(words, sizes, prices)>>
Blank == Prose({}, <<>>, <<>>)
Header(sizes) ==
    Blank \o [i \in DOMAIN sizes |-> Cell({}, <<Size(sizes[i], "Cyrillic")>>, <<>>)]
Row(list, product, sizes) ==
    <<Cell(Names[product], <<>>, <<>>)>>
       \o [i \in DOMAIN sizes |->
              Cell({}, <<>>, IF sizes[i] \in DOMAIN list[product] THEN <<list[product][sizes[i]]>> ELSE <<>>)]
Table(list, products, sizes) ==
    <<Header(sizes), Separator>> \o [i \in DOMAIN products |-> Row(list, products[i], sizes)]
TextOf(list) ==
    Table(list, <<"almondFlour", "ketoFlour", "peanutFlour">>, <<150, 500>>) \o <<Blank>>
       \o Table(list, <<"peanuts">>, <<500>>) \o <<Blank>>
       \o Table(list, <<"pistachioPaste", "cashewPaste">>, <<200, 500>>) \o <<Blank, Blank, Blank>>
       \o <<Prose({"delivery", "doNotQuote"}, <<>>, <<25, 82>>)>>

Lists == <<OldList, NewList>>
MCKnowledgeBase == [k \in DOMAIN Lists |-> TextOf(Lists[k])]

\* What a reply says: prices of packings of products, in one of the ways a reply
\* writes these.  "gr" is the Uzbek unit behind a name of the list, as that of
\* the brands; "uzbek" has the Uzbek name, too.
Quote(product, size, price) == [product |-> product, size |-> size, price |-> price]

Holds(quote, list) ==
    quote.size \in DOMAIN list[quote.product] /\ list[quote.product][quote.size] = quote.price

PricesIn(list, product) == Range(list[product])

\* As much of it as the program can read.
HoldsAsRead(quote, list, way) ==
    CASE way = "gr" -> quote.price \in PricesIn(list, quote.product)
      [] way = "uzbek" -> \E p \in DOMAIN list : \E c \in PricesIn(list, p) : Within(quote.price, c)
      [] OTHER -> Holds(quote, list)

UnitIn(way) == IF way = "uzbek" THEN "gr" ELSE way
NameIn(way, product) == IF way = "uzbek" THEN {"pista", "pastasi"} ELSE Names[product]

\* A reply with these quotes, written in these lines.  All are in Uzbek, of either
\* script.
Written(quotes, way, lines) ==
    [truncated |-> FALSE, escalate |-> FALSE,
     language |-> "uz", text |-> lines,
     right |-> {k \in DOMAIN Lists : \A q \in quotes : Holds(q, Lists[k])},
     backedBy |-> {k \in DOMAIN Lists : \A q \in quotes : HoldsAsRead(q, Lists[k], way)}]

Sizes(sizes, way) == [i \in DOMAIN sizes |-> Size(sizes[i], UnitIn(way))]
LineOf(q, way) == Prose(NameIn(way, q.product), Sizes(<<q.size>>, way), <<q.price>>)

Single(product, size, price, way) ==
    LET q == Quote(product, size, price) IN Written({q}, way, <<LineOf(q, way)>>)

\* One line for each of two products, as in the summary of an order.
Summary(q, r, way) == Written({q, r}, way, <<LineOf(q, way), LineOf(r, way)>>)

\* Both packings of a product in one line, and with its name in another line.
Ladder(product, first, second) == {Quote(product, 150, first), Quote(product, 500, second)}
OneLine(product, first, second, way) ==
    Written(Ladder(product, first, second), way,
            <<Prose(Names[product], Sizes(<<150, 500>>, way), <<first, second>>)>>)
NamedBelow(product, first, second, way) ==
    Written(Ladder(product, first, second), way,
            <<Prose({}, Sizes(<<150>>, way), <<first>>), Prose({}, Sizes(<<500>>, way), <<second>>),
              Prose(Names[product], <<>>, <<>>)>>)

\* By a word that only one product has.
ByOneWord(size, price, way) ==
    Written({Quote("pistachioPaste", size, price)}, way,
            <<Prose({"pistachio"}, Sizes(<<size>>, way), <<price>>)>>)

\* A fee for the delivery, which no list backs.
Fee == [Written({}, "Cyrillic", <<Prose({"delivery"}, <<>>, <<25>>)>>)
           EXCEPT !.right = {}, !.backedBy = {}]

MCGoodReplies == {Written({}, "gr", <<Prose(Names["almondFlour"], <<>>, <<>>)>>)}

\* The ways of writing in which a packing can be held to its price.
Read == {"Cyrillic", "kg or g"}

\* 5 is nobody's price and ends 35; 250 is another product's.
MCReplies ==
    {Single(p, s, c, "kg or g") : p \in DOMAIN Names, s \in {150, 500}, c \in {5, 30, 35, 80, 85}}
    \cup {Single(p, s, c, w) : p \in {"almondFlour", "ketoFlour"}, s \in {150, 500},
                               c \in {5, 30, 35, 80, 85}, w \in {"Cyrillic", "gr"}}
    \cup {Single("pistachioPaste", s, c, "uzbek") : s \in {200, 500}, c \in {5, 30, 82, 110, 250}}
    \cup {Summary(Quote("almondFlour", 150, c), Quote(p, 500, d), w) :
             c \in {30, 35}, p \in {"ketoFlour", "peanutFlour", "pistachioPaste"}, d \in {30, 35, 80, 250},
             w \in Read}
    \cup {OneLine(p, c, d, w) : p \in {"almondFlour", "ketoFlour"}, c \in {30, 35, 85}, d \in {35, 80, 85},
                                w \in Units}
    \cup {NamedBelow("almondFlour", c, d, w) : c \in {30, 35}, d \in {35, 85}, w \in Read}
    \cup {ByOneWord(200, c, w) : c \in {110, 250}, w \in Units}
    \cup {Fee}
    \cup {[r EXCEPT !.truncated = t, !.escalate = e] :
             r \in MCGoodReplies \cup {Single("ketoFlour", 150, 35, "Cyrillic")}, t \in BOOLEAN, e \in BOOLEAN}

\* An order of two products, the price of the one at the end of the other's.
MCOrderSummary ==
    {Summary(Quote("cashewPaste", 200, 50), Quote("pistachioPaste", 500, 250), "Cyrillic")}
================================================================================

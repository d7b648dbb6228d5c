----------------------------- MODULE PriceCatalog ------------------------------
(***************************************************************************)
(* priceCatalog.ts: the price list read out of the knowledge base, and the *)
(* prices of a reply that belong to another product or packing.            *)
(*                                                                         *)
(* A text is a sequence of lines, a line a sequence of cells: one for      *)
(* prose, several for a row of a table.  Of a cell its words and its       *)
(* amounts are modelled, the amounts of a kind in their order.  A size is  *)
(* in grams, less than a kilo or whole kilos, and has a unit.  A price is  *)
(* in thousands, below a million, and written in one way: smaller sums and *)
(* the separators of the thousands are left out.                           *)
(***************************************************************************)
EXTENDS Naturals, FiniteSets, SequencesExt

CONSTANTS Words,                 \* the words of three letters and more
          Stems,                 \* the beginnings of words
          StemOf,                \* stemOf: what is left of a word without its last two letters
          Excess,                \* Excess[w][s]: the letters of w that follow s, if w begins with s
          MaxInflectionLength,   \* MAX_INFLECTION_LENGTH
          MaxLinesPerStem        \* MAX_LINES_PER_DISCRIMINATIVE_STEM

\* What Excess is for a word that does not begin with the stem.
NoPrefix == 100

ASSUME CatalogAssumption ==
    /\ StemOf \in [Words -> Stems]
    /\ Excess \in [Words -> [Stems -> 0..NoPrefix]]
    /\ \A w \in Words : Excess[w][StemOf[w]] <= 2
    /\ MaxInflectionLength \in Nat /\ MaxInflectionLength < NoPrefix
    /\ MaxLinesPerStem \in Nat

\* The units of a size: in Cyrillic, in Latin letters as "kg" or "g", and as "gr".
Units == {"Cyrillic", "kg or g", "gr"}

Size(grams, unit) == [grams |-> grams, unit |-> unit]

Cell(words, sizes, prices) == [words |-> words, sizes |-> sizes, prices |-> prices]

\* A row of dashes, which stands between the header of a table and its body.
Separator == <<>>

-----------------------------------------------------------------------------
\* An amount is searched for by its digits, so it is also found at the end of
\* a larger one: 50.000 in 250.000.
Within(amount, other) ==
    \/ amount = other
    \/ \E k \in 1..4 : 10 ^ k > amount /\ other % (10 ^ k) = amount

WordsOf(line) == UNION {line[i].words : i \in DOMAIN line}
SizesWritten(line) == FlattenSeq([i \in DOMAIN line |-> line[i].sizes])

\* The g of "gr" has a letter behind it, so "200 gr" is no size.
IsSize(size) == size.unit # "gr"

SizesOn(line) ==
    LET sizes == SelectSeq(SizesWritten(line), IsSize) IN
    [i \in DOMAIN sizes |-> sizes[i].grams]
PricesOn(line) == FlattenSeq([i \in DOMAIN line |-> line[i].prices])

\* Mutant of wordMatchesStem: any word that begins with the stem.
wordBeginsWithStem(word, stem) == Excess[word][stem] < NoPrefix

wordMatchesStem(word, stem) == Excess[word][stem] <= MaxInflectionLength

stemsOf(words) == {StemOf[w] : w \in words}

\* The header of a price table: every column but the first is a size.
isPriceHeader(line) == \A i \in 2..Len(line) : SizesOn(<<line[i]>>) # <<>>

\* The prices of a row, by the size that heads the column; a dash is no price.
pricesBySize(line, sizes) ==
    LET priced == {i \in 2..Len(line) : i - 1 <= Len(sizes) /\ line[i].prices # <<>>} IN
    [s \in {sizes[i - 1] : i \in priced} |->
        Head(line[Max({i \in priced : sizes[i - 1] = s})].prices)]

\* One line more.  Outside of a price table there are no sizes, and a row of it
\* that names nothing is passed over.
ReadLine(parsed, line) ==
    IF line = Separator THEN parsed
    ELSE IF Len(line) < 2 THEN [parsed EXCEPT !.sizes = <<>>]
    ELSE IF parsed.sizes = <<>>
         THEN [parsed EXCEPT !.sizes = IF isPriceHeader(line)
                                       THEN [i \in 1..Len(line) - 1 |-> Head(SizesOn(<<line[i + 1]>>))]
                                       ELSE <<>>]
    ELSE IF line[1] = Cell({}, <<>>, <<>>) THEN parsed
    ELSE [parsed EXCEPT !.entries = Append(@, [stems |-> stemsOf(line[1].words),
                                               prices |-> pricesBySize(line, parsed.sizes)])]

parsePriceCatalog(text) ==
    LET entries == FoldLeft(ReadLine, [sizes |-> <<>>, entries |-> <<>>], text).entries
        lines(stem) == {i \in DOMAIN entries : stem \in entries[i].stems}
    IN [entries    |-> {entries[i] : i \in DOMAIN entries},
        discriminativeStems |-> {s \in Stems : Cardinality(lines(s)) \in 1..MaxLinesPerStem},
        knownSizes |-> UNION {DOMAIN entries[i].prices : i \in DOMAIN entries}]

-----------------------------------------------------------------------------
\* Mutant of mostSpecific: every match counts.
everyMatch(matches) == matches

\* A name that another one extends is not the one that was meant.
mostSpecific(matches) ==
    {e \in matches : ~ \E o \in matches : e.stems \subseteq o.stems /\ e.stems # o.stems}

\* The full names in the text; failing these, the lines a rare word points at.
mentionedEntries(words, catalog) ==
    LET mentions(stem) == \E w \in words : wordMatchesStem(w, stem)
        full == {e \in catalog.entries : \A s \in e.stems : mentions(s)}
    IN IF full # {} THEN mostSpecific(full)
       ELSE {e \in catalog.entries :
                \E s \in e.stems : s \in catalog.discriminativeStems /\ mentions(s)}

\* Mutant of sizesGoverning: every size of the line.
anySizeOn(line, ordinal) == ToSet(SizesOn(line))

\* The size a price is for: with as many sizes as prices, the n-th price is for
\* the n-th size.  The ordinal is 0 where no price begins.
sizesGoverning(line, ordinal) ==
    IF Len(PricesOn(line)) # Len(SizesOn(line)) \/ ordinal = 0
    THEN ToSet(SizesOn(line))
    ELSE {SizesOn(line)[ordinal]}

\* Is the claim wrong where it is found in the j-th price of this line?
isMisattributed(claim, line, j, replyLevelMentions, catalog) ==
    LET lineLevelMentions == mentionedEntries(WordsOf(line), catalog)
        mentioned == IF lineLevelMentions # {} THEN lineLevelMentions ELSE replyLevelMentions
        sizes == sizesGoverning(line, IF PricesOn(line)[j] = claim THEN j ELSE 0)
        costs(s) == {e.prices[s] : e \in {o \in mentioned : s \in DOMAIN o.prices}}
        soldSizes == {s \in sizes : costs(s) # {}}
    IN IF soldSizes # {} THEN claim \notin UNION {costs(s) : s \in soldSizes}
       ELSE \/ sizes \cap catalog.knownSizes # {}
            \/ claim \notin UNION {costs(s) : s \in catalog.knownSizes}

\* The claimed prices that are attributed to the wrong product, or to a size
\* the product is not sold in.
findMisattributedPrices(reply, claims, catalog) ==
    LET replyLevelMentions ==
            mentionedEntries(UNION {WordsOf(reply[i]) : i \in DOMAIN reply}, catalog)
    IN {c \in claims :
          /\ replyLevelMentions # {}
          /\ \E i \in DOMAIN reply : \E j \in DOMAIN PricesOn(reply[i]) :
                /\ Within(c, PricesOn(reply[i])[j])
                /\ isMisattributed(c, reply[i], j, replyLevelMentions, catalog)}
================================================================================

-------------------------------- MODULE ReplyText ------------------------------
(***************************************************************************)
(* How a text becomes requests: splitIntoMessages of ConversationEngine.ts *)
(* makes bubbles of its paragraphs, and the sender of a platform cuts a    *)
(* bubble that is too long.  A text is a sequence whose elements are       *)
(* blank lines (Gap), and characters, which are their own positions.       *)
(***************************************************************************)
EXTENDS Integers, SequencesExt

CONSTANTS MaxSegments,      \* MAX_MESSAGE_SEGMENTS
          TelegramLimit,    \* TELEGRAM_MAX_MESSAGE_LENGTH
          InstagramLimit    \* INSTAGRAM_MAX_MESSAGE_LENGTH

\* A chunk holds a character whatever the place of a gap.
ASSUME ReplyTextAssumption ==
    /\ MaxSegments \in Nat \ {0}
    /\ TelegramLimit \in Nat \ {0, 1}
    /\ InstagramLimit \in Nat \ {0, 1}

Gap == 0

\* A run of blank lines is one gap.
IsText(text) ==
    \A i \in DOMAIN text :
       /\ text[i] \in {i, Gap}
       /\ i > 1 /\ text[i] = Gap => text[i - 1] # Gap

Characters(text) == {text[i] : i \in DOMAIN text} \ {Gap}

\* The number of the paragraph that position i is in, or behind.
Paragraph(text, i) ==
    Cardinality({j \in 1..i : text[j] # Gap /\ (j > 1 => text[j - 1] = Gap)})

\* Mutant of Bubble: what is over the limit is dropped.
BubbleOfOne(text, k) == {i \in Characters(text) : Paragraph(text, i) = k}

\* The characters of the k-th bubble, the last one taking all that are left.
Bubble(text, k) == {i \in Characters(text) : Min({Paragraph(text, i), MaxSegments}) = k}

\* One bubble for each paragraph.  A text without a character is sent as it is.
SplitIntoMessages(text) ==
    IF Characters(text) = {} THEN <<text>>
    ELSE [k \in 1..Min({Paragraph(text, Len(text)), MaxSegments}) |->
             SubSeq(text, Min(Bubble(text, k)), Max(Bubble(text, k)))]

Slices(text, limit) ==
    IF Len(text) <= limit THEN <<text>>
    ELSE [k \in 1..((Len(text) + limit - 1) \div limit) |->
             SubSeq(text, (k - 1) * limit + 1, Min({k * limit, Len(text)}))]

SplitForTelegramLimit(text) == Slices(text, TelegramLimit)

SplitForInstagramLimit(text) == Slices(text, InstagramLimit)
===============================================================================

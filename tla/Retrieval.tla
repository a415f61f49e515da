----------------------------- MODULE Retrieval -----------------------------
(***************************************************************************)
(* rankSources over one document: the document is cut into overlapping     *)
(* chunks that begin and end between characters, the chunks with a token   *)
(* are the candidates, and those that contain a term of the query are      *)
(* ranked.  Which of them score best (BM25) is left open.                  *)
(*                                                                         *)
(* A text is a sequence of bytes: a letter, a separator, or the bytes of a *)
(* wider letter, whose first byte is the only one where a character        *)
(* starts.  Offsets count from 0, as in the code.                          *)
(***************************************************************************)
EXTENDS Naturals, Sequences, FiniteSets, SequencesExt

CONSTANTS
  Size,         \* 2048 bytes
  Overlap,      \* 256 bytes
  Width,        \* bytes of the widest character: 4 in UTF-8
  MaxChunks,    \* 12000 candidates
  MaxSelected,  \* 8 excerpts
  Query,        \* the distinct terms of the mission
  MaxRunes      \* bound: characters of the document

ASSUME ChunkAssumption ==
  /\ {Size, Overlap, Width, MaxChunks, MaxSelected, MaxRunes} \subseteq Nat \ {0}
  /\ Size >= 2 * Overlap /\ Overlap >= Width
  /\ Query # {}

Wide == <<"w">> \o [i \in 1..Width - 1 |-> "."]

Runes == {<<"a">>, <<"-">>, Wide}

Texts == {FlattenSeq(runes) : runes \in SeqOf(Runes, MaxRunes) \ {<<>>}}

VARIABLES
  text,        \* the document; empty when none is being ranked
  start,       \* where the next chunk begins
  candidates,  \* the chunks <<first, past the last>> with at least one token
  ranking,     \* "none" yet, why it failed, or "selected"
  selected     \* the chunks sent to the model

retrievalVars == <<text, start, candidates, ranking, selected>>

RetrievalInit ==
  /\ text = <<>> /\ start = 0
  /\ candidates = {} /\ ranking = "none" /\ selected = {}

\* Empty documents are left out.
Ranks == text = <<>> /\ text' \in Texts /\ UNCHANGED <<start, candidates, ranking, selected>>

Ranked ==
  /\ text' = <<>> /\ start' = 0
  /\ candidates' = {} /\ ranking' = "none" /\ selected' = {}

RuneStart(i) == text[i + 1] # "."

Boundary(i) == i = Len(text) \/ RuneStart(i)

-----------------------------------------------------------------------------
\* terms: the maximal runs of letters in the bytes from i up to j.
Terms(i, j) ==
  LET Letters(a, b) == \A k \in a + 1..b : text[k] # "-"
  IN  {SubSeq(text, span[1] + 1, span[2]) : span \in
        {s \in (i..j) \X (i..j) :
           /\ s[1] < s[2] /\ Letters(s[1], s[2])
           /\ s[1] = i \/ text[s[1]] = "-"
           /\ s[2] = j \/ text[s[2] + 1] = "-"}}

Matches(chunk) == Terms(chunk[1], chunk[2]) \cap Query # {}

Matching == {c \in candidates : Matches(c)}

-----------------------------------------------------------------------------
\* The chunk ends before the character its 2048th byte would split.
ChunkEnd(from) ==
  LET limit == IF from + Size > Len(text) THEN Len(text) ELSE from + Size
  IN  CHOOSE e \in 0..limit : Boundary(e) /\ \A k \in e + 1..limit : ~Boundary(k)

\* Mutant: consecutive chunks do not overlap.
AdjacentStart(end) == end

\* The next one begins 256 bytes before that end, or at the first character after.
NextStart(end) ==
  CHOOSE s \in end - Overlap..end :
    /\ s = end \/ RuneStart(s)
    /\ \A k \in end - Overlap..s - 1 : ~RuneStart(k)

\* Mutant: the document ends with a chunk that is shorter than the overlap.
ShortChunk(end) == end - start < Overlap

LastChunk(end) == end = Len(text)

\* The document without its last chunk is left with start = Len(text).
Cut ==
  LET end   == ChunkEnd(start)
      found == IF Terms(start, end) = {} THEN candidates ELSE candidates \cup {<<start, end>>}
  IN  /\ ranking = "none" /\ start < Len(text)
      /\ candidates' = found
      /\ ranking' = IF Cardinality(found) > MaxChunks THEN "too_many" ELSE "none"
      /\ start' = IF LastChunk(end) THEN Len(text) ELSE NextStart(end)
      /\ UNCHANGED <<text, selected>>

\* The context is looked at before every chunk.
Cancelled ==
  /\ ranking = "none" /\ start < Len(text)
  /\ ranking' = "cancelled"
  /\ UNCHANGED <<text, start, candidates, selected>>

Fail ==
  /\ text # <<>> /\ ranking = "none" /\ start = Len(text)
  /\ \/ candidates = {} /\ ranking' = "no_sources"
     \/ candidates # {} /\ Matching = {} /\ ranking' = "no_match"
  /\ UNCHANGED <<text, start, candidates, selected>>

\* The chunks of the best scores, at most eight; only those that match score above zero.
Select ==
  /\ text # <<>> /\ ranking = "none" /\ start = Len(text) /\ Matching # {}
  /\ ranking' = "selected"
  /\ selected' \in {best \in SUBSET Matching :
       Cardinality(best) = IF Cardinality(Matching) > MaxSelected
                           THEN MaxSelected ELSE Cardinality(Matching)}
  /\ UNCHANGED <<text, start, candidates>>

-----------------------------------------------------------------------------
(* Properties.                                                             *)

\* Every excerpt is a piece of the document of at most 2048 bytes that splits no
\* character: what is sent as JSON is what the offsets of the artifact say.
ExcerptsAligned ==
  \A c \in candidates :
    /\ c[1] < c[2] /\ c[2] - c[1] <= Size
    /\ Boundary(c[1]) /\ Boundary(c[2])

\* A document that contains a term of the mission as a word is not reported as without
\* a match, wherever the chunks divide it: the overlap, less what the rounding to
\* characters takes from it, keeps every word of that length whole in some chunk.
WordsFound ==
  ranking \in {"no_sources", "no_match"} =>
    \A word \in Terms(0, Len(text)) \cap Query : Len(word) > Overlap - Width + 2
=============================================================================

------------------------------ MODULE Chunking ------------------------------
(***************************************************************************)
(* agent-service: the chunks a policy is split into before it is indexed.  *)
(* (chunking.py.)                                                          *)
(*                                                                         *)
(* A page is the set of its positions that are not white space, which is   *)
(* all that strip, the chunks and the properties tell apart.  One step is  *)
(* one turn of the while loop, or one blank page skipped.                  *)
(***************************************************************************)
EXTENDS Integers, Sequences, FiniteSets

CONSTANTS
    Document,       \* the documents, sequences of pages
    ChunkSize,      \* CHUNK_SIZE_CHARS
    ChunkOverlap    \* CHUNK_OVERLAP_CHARS

\* test_chunking.py:40-41.
ASSUME ChunkAssumption ==
    /\ ChunkSize \in Nat /\ ChunkOverlap \in Nat
    /\ ChunkOverlap < ChunkSize

\* A page that is not blank has a first and a last position with ink.
IsFirst(n, ink) == n \in ink /\ \A m \in ink : n <= m
IsLast(n, ink) == n \in ink /\ \A m \in ink : m <= n

ASSUME DocumentAssumption ==
    /\ Document \subseteq Seq(SUBSET Nat)
    /\ \A document \in Document : \A i \in DOMAIN document :
         document[i] = {} \/ \E n \in document[i] : IsLast(n, document[i])

VARIABLES
    pages,          \* the pages of the document, as their ink
    page,           \* page_number
    start,          \* start, counted from the page's first ink
    chunks          \* the chunks so far; global_index is how many there are

chunkVars == <<pages, page, start, chunks>>

\* page_text.strip() is the page from the first of its ink to the last.
First(ink) == CHOOSE n \in ink : IsFirst(n, ink)
End(ink) == (CHOOSE n \in ink : IsLast(n, ink)) + 1

ChunkInit ==
    /\ pages = <<>>
    /\ page = 1 /\ start = 0
    /\ chunks = <<>>

(* chunk_pages is called with the pages of a document.                      *)
Load(document) ==
    /\ pages = <<>>
    /\ pages' = document
    /\ UNCHANGED <<page, start, chunks>>

BlankPage ==
    /\ page <= Len(pages)
    /\ pages[page] = {}
    /\ page' = page + 1
    /\ UNCHANGED <<pages, start, chunks>>

\* normalized[start:end].strip(), dropped when nothing is left of it.
Appended(from, to) ==
    LET content == pages[page] \cap from..(to - 1)
    IN  IF content = {} THEN chunks
        ELSE Append(chunks, [page |-> page, content |-> content])

(* The next chunk reaches the end of the page: break.                       *)
LastChunk ==
    /\ page <= Len(pages)
    /\ pages[page] # {}
    /\ LET from == First(pages[page]) + start
           end  == End(pages[page])
       IN  /\ from + ChunkSize >= end
           /\ chunks' = Appended(from, end)
    /\ page' = page + 1
    /\ start' = 0
    /\ UNCHANGED pages

(* Mutant: the next chunk starts where this one ends.                       *)
ChunkNoOverlap ==
    /\ page <= Len(pages)
    /\ pages[page] # {}
    /\ LET from == First(pages[page]) + start
       IN  /\ from + ChunkSize < End(pages[page])
           /\ chunks' = Appended(from, from + ChunkSize)
    /\ start' = start + ChunkSize
    /\ UNCHANGED <<pages, page>>

(* It does not: the one after it starts ChunkOverlap before its end.        *)
NextChunk ==
    /\ page <= Len(pages)
    /\ pages[page] # {}
    /\ LET from == First(pages[page]) + start
       IN  /\ from + ChunkSize < End(pages[page])
           /\ chunks' = Appended(from, from + ChunkSize)
    /\ start' = start + ChunkSize - ChunkOverlap
    /\ UNCHANGED <<pages, page>>

ChunkNext ==
    \/ \E document \in Document : Load(document)
    \/ BlankPage \/ LastChunk \/ NextChunk

ChunkSpec == ChunkInit /\ [][ChunkNext]_chunkVars

-----------------------------------------------------------------------------
\* The stretch x..y of a page is whole in one of the chunks.
Whole(p, x, y) ==
    \E i \in DOMAIN chunks : /\ chunks[i].page = p
                             /\ pages[p] \cap x..y \subseteq chunks[i].content

(* The overlap does what it is for: of a page that has been split, no text  *)
(* is lost, and any stretch of up to ChunkOverlap + 1 characters (a short   *)
(* clause that straddles two chunks) is whole in one of them, so that       *)
(* retrieval can find it (chunking.py:50-67).                               *)
StretchesAreWhole ==
    \A p \in 1..(page - 1) : \A x, y \in pages[p] :
        x <= y /\ y - x <= ChunkOverlap => Whole(p, x, y)
=============================================================================

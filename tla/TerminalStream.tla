--------------------------- MODULE TerminalStream ---------------------------
(***************************************************************************)
(* The text that travels from the target to the terminal of the active     *)
(* client: relay.py decodes each chunk it reads by itself, and frames of   *)
(* text share the WebSocket with control frames (JSON objects), which      *)
(* web/index.html tells from text by looking at it.  A character is known  *)
(* by its place in what the target printed; where a read ends among its    *)
(* bytes is up to the line.                                                *)
(***************************************************************************)
EXTENDS Naturals, Sequences, FiniteSets, Functions

CONSTANTS
    Width,          \* [kinds of character -> length in UTF-8]
    Limit,          \* read(4096)
    MaxPrint        \* bound on the characters printed

ASSUME KindsAssumption == {"{", "}"} \subseteq DOMAIN Width
ASSUME WidthAssumption == Width \in [DOMAIN Width -> 1 .. 4] /\ Width["{"] = 1 /\ Width["}"] = 1
ASSUME LimitAssumption == Limit \in Nat \ {0}

VARIABLES
    printed,        \* the kinds of the characters printed so far
    line,           \* their bytes that have not been read: <<character, byte>>
    frames,         \* the frames of output that were sent
    display         \* what the terminal displays

vars == <<printed, line, frames, display>>

Init ==
    printed = <<>> /\ line = <<>> /\ frames = <<>> /\ display = <<>>

\* The place of k among the numbers in S, and the number at place n.
Rank(k, S) == Cardinality({l \in S : l <= k})
Nth(n, S)  == CHOOSE k \in S : Rank(k, S) = n

-----------------------------------------------------------------------------
Prints(k) ==
    /\ Len(printed) < MaxPrint
    /\ printed' = Append(printed, k)
    /\ line' = line \o [j \in 1 .. Width[k] |-> <<Len(printed) + 1, j>>]
    /\ UNCHANGED <<frames, display>>

\* A piece of text: character i as it was printed, or a U+FFFD in its place.
Good(i) == [char |-> i, good |-> TRUE]
Mark(i) == [char |-> i, good |-> FALSE]

Whole(chunk, i) == \A j \in 1 .. Width[printed[i]] : <<i, j>> \in Range(chunk)

\* decode("utf-8", errors="replace") begins a piece at the first byte of a character
\* and at each byte that continues nothing, and makes a mark of it unless the
\* character is there as a whole.
\* Mutant: errors="ignore".
BeginsOrDrops(chunk, k) == chunk[k][2] = 1 /\ Whole(chunk, chunk[k][1])
Begins(chunk, k) == chunk[k][2] = 1 \/ <<chunk[k][1], 1>> \notin Range(chunk)

Piece(chunk, i) == IF Whole(chunk, i) THEN Good(i) ELSE Mark(i)

Decode(chunk) ==
    LET begins == {k \in DOMAIN chunk : Begins(chunk, k)}
    IN  [n \in 1 .. Cardinality(begins) |-> Piece(chunk, chunk[Nth(n, begins)][1])]

\* JSON.parse succeeds on a text that begins with '{'.
IsObject(kinds) == kinds = <<"{", "}">>

Kinds(text) == [k \in DOMAIN text |-> IF text[k].good THEN printed[text[k].char] ELSE "mark"]

\* onmessage: an object is a control frame, whatever it says.
\* Mutant: so is everything that begins with '{'.
DisplaysNoBrace(text) == IF text # <<>> /\ Kinds(text)[1] = "{" THEN <<>> ELSE text
Displays(text) == IF IsObject(Kinds(text)) THEN <<>> ELSE text

\* Frames arrive in the order in which the loop sent them, because it waits for
\* send_str.
Arrives(text) == display' = display \o Displays(text)

\* read() returns what has arrived, up to its limit; the text goes out in one frame.
Forwards(n) ==
    /\ n <= Limit
    /\ LET text == Decode(SubSeq(line, 1, n)) IN
        /\ frames' = Append(frames, text)
        /\ Arrives(text)
    /\ line' = SubSeq(line, n + 1, Len(line))
    /\ UNCHANGED printed

Next ==
    \/ \E k \in DOMAIN Width : Prints(k)
    \/ \E n \in 1 .. Len(line) : Forwards(n)

Spec == Init /\ [][Next]_vars

-----------------------------------------------------------------------------
(* Properties *)

Pieces(i, good) == Cardinality({k \in DOMAIN display : display[k] = [char |-> i, good |-> good]})
AllRead(i) == \A k \in DOMAIN line : line[k][1] # i

\* What is displayed is displayed in the order in which it was printed.
InOrder ==
    \A k \in 1 .. Len(display) - 1 :
        \/ display[k].char < display[k + 1].char
        \/ display[k].char = display[k + 1].char /\ ~ display[k].good

\* Wherever the reads end, a character that was read is displayed once and in
\* order; or two marks or more stand for it, never more than it has bytes; or
\* nothing does, and it came in a frame that was an object.  So a character of one
\* byte is never damaged, and what damages a character never takes its neighbour.
DamageIsLocal ==
    /\ InOrder
    /\ \A i \in DOMAIN printed : AllRead(i) =>
        \/ Pieces(i, TRUE) = 1 /\ Pieces(i, FALSE) = 0
        \/ Pieces(i, TRUE) = 0 /\ Pieces(i, FALSE) \in 2 .. Width[printed[i]]
        \/ /\ Pieces(i, TRUE) = 0 /\ Pieces(i, FALSE) = 0
           /\ \E f \in DOMAIN frames : IsObject(Kinds(frames[f])) /\ Good(i) \in Range(frames[f])
=============================================================================

------------------------- MODULE BackwardReferences -------------------------
(* How encode_data (encode.rs) of qualities 2 to 11 turns blocks of input     *)
(* into commands: it lengthens the last command of the block before, lets     *)
(* the matcher of the quality add commands that name their distances by the   *)
(* distance ring, and either postpones the metablock or writes it, compressed *)
(* or stored, and starts the next with the ring that a decoder will have.     *)
(* Which matches the hash tables find is left open: any distance and length   *)
(* inside the block and the window, or a word of the static dictionary.       *)
EXTENDS ZopfliNodes

CONSTANTS
    Searches,       \* the matchers: "greedy" (2-9), "zopfli" (10), "twice" (11)
    Catables,       \* the values of params.catable
    Dictionaries,   \* the sizes of a custom dictionary, 0 for none
    Offered,        \* how many new bytes a call of encode_data may find
    MaxInput,       \* bound: bytes of input of a behaviour, without the dictionary
    MaxMeta,        \* MaxMetablockSize
    BlockSize,      \* input_block_size()
    HashLength,     \* HashTypeLength() of the hasher, in this model's scale
    MinMatch,       \* the shortest copy
    Words,          \* how far beyond the window a dictionary word is named
    Sparse, Sparser, Margin,    \* the leaps of the sparse search: 8, 16 and kMargin
    Unknown         \* 0x7ffffff0, further than any distance

ASSUME SizesAssumption ==
    /\ MaxBackward \in Nat /\ MaxInput \in Nat /\ Unknown \in Nat
    /\ Offered \subseteq Nat /\ Dictionaries \subseteq Nat /\ Catables \subseteq BOOLEAN
    /\ HashLength \in Nat \ {0} /\ Words \subseteq Nat \ {0}
    /\ Sparse \in Nat /\ Sparser \in Nat /\ Sparse <= Sparser /\ Margin \in Nat
ASSUME MatchAssumption ==
    /\ MinMatch \in Nat /\ MinMatch >= 2
    /\ Unknown > MaxInput + MaxBackward + ShortCodes

VARIABLES
    search, catable, custom,
    input, processed, flushed,  \* input_pos_, last_processed_pos_, last_flush_pos_
    firstBytes,     \* is_first_mb: catable bytes written raw, 0 to 2
    ring, saved,    \* dist_cache_, saved_dist_cache_
    commands, lastInsert,       \* commands_, last_insert_len_
    allocated,      \* cmd_alloc_size_
    position, posEnd,           \* of the block the matcher is in
    insertLength,   \* insert_length of the greedy matcher
    nodes, queue, at,           \* of the shortest-path search
    orig,           \* what the two passes of quality 11 start from
    phase,          \* "idle", "greedy", "nodes", "tail" or "finished"
    meant,          \* what the pending bytes were meant to be made of
    theirs,         \* the decoder's ring after the metablocks written
    emitted         \* the last metablock: as meant and as a decoder reads it

stream == << input, processed, flushed, firstBytes >>
pending == << ring, commands, lastInsert, meant >>
block == << position, posEnd >>
graph == << nodes, queue, at, orig >>
written == << saved, theirs, emitted >>
fixed == << search, catable, custom >>
vars == << fixed, stream, pending, allocated, block, insertLength, graph, phase, written >>

NoBlock == /\ position = 0 /\ posEnd = 0 /\ insertLength = 0
           /\ nodes = << >> /\ queue = {} /\ at = 0 /\ orig = << >>

Nothing == << Unknown, Unknown, Unknown, Unknown >>

\* The ring of a new encoder; a catable stream starts with no known distance.
StartRing == IF catable THEN Nothing ELSE << 4, 11, 15, 16 >>

\* params.use_dictionary: words of the static dictionary.
UseDictionary == ~ catable /\ custom = 0

(* Where the decoder is: at its start, with the ring of RFC 7932, or, for a   *)
(* catable stream, behind another stream that left any ring at all.           *)
TheirRing == IF catable THEN Nothing ELSE << 4, 11, 15, 16 >>
Earlier   == IF catable THEN MaxBackward ELSE 0

Init ==
    /\ search \in Searches /\ catable \in Catables /\ custom \in Dictionaries
    /\ input = custom /\ processed = custom /\ flushed = custom /\ firstBytes = 0
    /\ ring = StartRing /\ saved = StartRing /\ theirs = TheirRing
    /\ commands = << >> /\ lastInsert = 0 /\ meant = << >> /\ allocated = 0
    /\ NoBlock
    /\ phase = "idle"
    /\ emitted = [meant |-> << >>, read |-> << >>]

-----------------------------------------------------------------------------
(* The start of encode_data.                                                  *)

\* The last command, longer by n.
Longer(n) == [commands EXCEPT ![Len(commands)].len = @ + n]

\* A word of the dictionary that happens to lie at the last distance is lengthened.
CanExtend_AnyReach(from) ==
    LET last == commands[Len(commands)]
    IN last.code < ShortCodes \/ last.code - ShortCodes + 1 = ring[1]

\* extend_last_command: a copy goes on as long as the input does (grows \in 0 .. bytes).
CanExtend(from) ==
    LET last == commands[Len(commands)]
    IN /\ last.code < ShortCodes \/ last.code - ShortCodes + 1 = ring[1]
       /\ ring[1] <= Window(from - last.len)

Extensions(from, bytes) ==
    IF commands # << >> /\ lastInsert = 0 /\ CanExtend(from) THEN 0 .. bytes ELSE {0}

\* No room is counted for the command that closes the metablock.
NewSize_NotTheLast(bytes) == Len(commands) + (bytes \div 2)

(* What encode_data makes room for; before the last block it adds some slack, *)
(* which is left out.                                                         *)
NewSize(bytes) == Len(commands) + (bytes \div 2) + 1

(* encode_data up to the matcher, with "bytes" new bytes: the first two of a  *)
(* catable stream are stored raw, the array of commands grows, the last       *)
(* command may be lengthened.                                                 *)
EncodeData(bytes) ==
    LET raw  == IF catable /\ firstBytes < 2 /\ bytes > 0
                THEN IF bytes < 2 THEN bytes ELSE 2 ELSE 0
        left == bytes - raw
        from == processed + raw
    IN /\ phase = "idle"
       /\ input + bytes <= custom + MaxInput
       /\ input' = input + bytes
       /\ firstBytes' = IF raw = 2 THEN 2 ELSE firstBytes + raw
       /\ flushed' = flushed + raw
       /\ allocated' = IF NewSize(left) > allocated THEN NewSize(left) ELSE allocated
       /\ \E grows \in Extensions(from, left) :
            /\ commands' = IF grows = 0 THEN commands ELSE Longer(grows)
            /\ meant' = meant \o [i \in 1 .. grows |-> << "copy", ring[1], 0 >>]
            /\ processed' = from
            /\ position' = from + grows
            /\ posEnd' = from + left
            /\ IF search = "greedy"
               THEN /\ phase' = "greedy"
                    /\ insertLength' = lastInsert
                    /\ UNCHANGED graph
               ELSE /\ phase' = "nodes"
                    /\ nodes' = InitNodes(left - grows)
                    /\ queue' = {[pos |-> 0, cache |-> ring]}
                    /\ at' = 0
                    /\ orig' = [pass |-> IF search = "twice" THEN 1 ELSE 2, ring |-> ring,
                                commands |-> commands', lastInsert |-> lastInsert, meant |-> meant']
                    /\ UNCHANGED insertLength
       /\ UNCHANGED << fixed, ring, lastInsert, written >>

-----------------------------------------------------------------------------
(* CreateBackwardReferences (backward_references/mod.rs).                     *)

Searching == phase = "greedy" /\ position + HashLength < posEnd

(* A match, perhaps at one of the next positions: up to four times a better   *)
(* one may turn up a byte later.                                              *)
Delays == {delay \in 0 .. 4 : delay > 0 => position + delay - 1 + HashLength < posEnd}

MatchFound(delay, distance, len) ==
    LET p      == position + delay
        window == Window(p)
        code   == ComputeDistanceCode(distance, window, ring)
    IN /\ Searching
       /\ p + len <= posEnd
       /\ distance > window => UseDictionary
       /\ ring' = IF distance <= window /\ code > 0 THEN Remember(ring, distance) ELSE ring
       /\ commands' = Append(commands, NewCommand(insertLength + delay, len, code))
       /\ insertLength' = 0
       /\ position' = p + len
       /\ meant' = meant \o Literals(delay) \o Bytes(distance, len, window)
       /\ UNCHANGED << fixed, stream, lastInsert, allocated, posEnd, graph, phase, written >>

Distances(p) == 1 .. Window(p) \cup {Window(p) + word : word \in Words}

GreedyMatch ==
    \E delay \in Delays : \E distance \in Distances(position + delay) :
        \E len \in MinMatch .. posEnd - position : MatchFound(delay, distance, len)

(* No match: a literal, and after a long spree of them some more that are not *)
(* searched; near the end of the block, all of its rest.                      *)
GreedyMiss ==
    /\ Searching
    /\ \E leap \in {0, Sparse, Sparser} :
         LET p == position + 1
             to == IF leap = 0 THEN p
                   ELSE IF p + Sparser >= posEnd - Margin THEN posEnd ELSE p + leap
         IN /\ position' = to
            /\ insertLength' = insertLength + to - position
            /\ meant' = meant \o Literals(to - position)
    /\ UNCHANGED << fixed, stream, ring, commands, lastInsert, allocated, posEnd, graph,
                    phase, written >>

\* The end of the block: what is left over is inserted by a later command.
GreedyEnd ==
    /\ phase = "greedy" /\ ~ Searching
    /\ lastInsert' = insertLength + posEnd - position
    /\ meant' = meant \o Literals(posEnd - position)
    /\ insertLength' = 0
    /\ position' = posEnd
    /\ phase' = "tail"
    /\ UNCHANGED << fixed, stream, ring, commands, allocated, posEnd, graph, written >>

-----------------------------------------------------------------------------
(* The shortest-path search (hq.rs): UpdateNodes, EvaluateNode and            *)
(* BrotliZopfliCreateCommands.                                                *)

NumBytes == posEnd - position
InSearch == phase = "nodes" /\ at + HashLength - 1 < NumBytes

\* UpdateZopfliNode: the command from "start" that copies "len" at "at" is cheaper.
Update(start, distance, len, short) ==
    /\ nodes' = [nodes EXCEPT ![at + len] =
                   [@ EXCEPT !.len = len, !.dist = distance,
                             !.insert = at - start.pos, !.short = short]]
    /\ UNCHANGED << fixed, stream, pending, allocated, block, insertLength, queue, at, orig,
                    phase, written >>

\* A way through a distance of the ring as it is at the start of the command.
UpdateByRing ==
    /\ InSearch
    /\ \E start \in queue, code \in 0 .. ShortCodes - 1 :
         /\ Resolve(start.cache, code) \in 1 .. Window(position + at)
         /\ \E len \in MinMatch .. NumBytes - at :
              Update(start, Resolve(start.cache, code), len, code + 1)

\* A way through one of the matches found at this position.
UpdateByMatch ==
    /\ InSearch
    /\ \E start \in queue, distance \in Distances(position + at) :
         /\ distance > Window(position + at) => UseDictionary
         /\ \E len \in MinMatch .. NumBytes - at : Update(start, distance, len, 0)

\* The next position: its way is now final, and ways may start from it.
EvaluateNext ==
    /\ InSearch /\ at + 1 + HashLength - 1 < NumBytes
    /\ at' = at + 1
    /\ nodes' = [nodes EXCEPT ![at + 1].shortcut = Shortcut(nodes, at + 1, position)]
    /\ queue' = IF Reached(nodes, at + 1)
                THEN queue \cup {[pos |-> at + 1, cache |-> NodeCache(nodes', at + 1, orig.ring)]}
                ELSE queue
    /\ UNCHANGED << fixed, stream, pending, allocated, block, insertLength, orig, phase, written >>

\* The commands of the way to the last node that was reached.
PathCommands ==
    Ways(nodes, NumBytes, position, orig.lastInsert, orig.ring)[LastReached(nodes, NumBytes)]

(* The end of a pass.  The first of two is a trial: the second starts again   *)
(* from what was saved.                                                       *)
CreateCommands ==
    LET done  == LastReached(nodes, NumBytes)
        made  == PathCommands
        rest  == NumBytes - done
    IN /\ phase = "nodes"
       /\ ~ InSearch \/ at + HashLength >= NumBytes
       /\ ring' = made.ring
       /\ commands' = orig.commands \o made.commands
       /\ lastInsert' = rest + (IF made.commands = << >> THEN orig.lastInsert ELSE 0)
       /\ meant' = orig.meant \o made.meant \o Literals(rest)
       /\ phase' = IF orig.pass = 1 THEN "again" ELSE "tail"
       /\ position' = IF orig.pass = 1 THEN position ELSE posEnd
       /\ nodes' = << >> /\ queue' = {} /\ at' = 0
       /\ UNCHANGED << fixed, stream, allocated, posEnd, insertLength, orig, written >>

\* The second pass goes on with the left-over literals of the first.
SecondPass_KeepsInsert ==
    /\ phase = "again"
    /\ ring' = orig.ring
    /\ commands' = orig.commands
    /\ meant' = orig.meant
    /\ nodes' = InitNodes(NumBytes)
    /\ queue' = {[pos |-> 0, cache |-> ring']}
    /\ at' = 0
    /\ orig' = [orig EXCEPT !.pass = 2, !.lastInsert = lastInsert]
    /\ phase' = "nodes"
    /\ UNCHANGED << fixed, stream, lastInsert, allocated, block, insertLength, written >>

\* BrotliCreateHqZopfliBackwardReferences between its two passes.
SecondPass ==
    /\ phase = "again"
    /\ ring' = orig.ring
    /\ commands' = orig.commands
    /\ lastInsert' = orig.lastInsert
    /\ meant' = orig.meant
    /\ nodes' = InitNodes(NumBytes)
    /\ queue' = {[pos |-> 0, cache |-> ring']}
    /\ at' = 0
    /\ orig' = [orig EXCEPT !.pass = 2]
    /\ phase' = "nodes"
    /\ UNCHANGED << fixed, stream, allocated, block, insertLength, written >>

-----------------------------------------------------------------------------
(* The end of encode_data.                                                    *)

\* The block is kept: the next call adds to the same metablock.
Postpone ==
    /\ phase = "tail"
    /\ input - flushed + BlockSize <= MaxMeta
    /\ processed' = input
    /\ position' = 0 /\ posEnd' = 0 /\ orig' = << >>
    /\ phase' = "idle"
    /\ UNCHANGED << fixed, input, flushed, firstBytes, pending, allocated, insertLength,
                    nodes, queue, at, written >>

\* Command::init_insert: a last command without a copy for the left-over literals.
Closed == IF lastInsert > 0
          THEN Append(commands, NewCommand(lastInsert, 0, ShortCodes)) ELSE commands

Compressed ==
    LET read == Decode(Closed, flushed + Earlier, theirs)
    IN /\ emitted' = [meant |-> meant, read |-> read.out]
       /\ theirs' = read.cache
       /\ UNCHANGED ring

\* The fallback to a stored metablock forgets that its copies are not decoded.
Stored_KeepsRing ==
    /\ emitted' = [meant |-> << >>, read |-> << >>]
    /\ UNCHANGED << ring, theirs >>

\* store_uncompressed_meta_block, after the ring was put back.
Stored ==
    /\ emitted' = [meant |-> << >>, read |-> << >>]
    /\ ring' = saved
    /\ UNCHANGED theirs

\* A flush that finds no new byte writes nothing.
NothingToWrite ==
    /\ phase = "tail"
    /\ input = flushed
    /\ position' = 0 /\ posEnd' = 0 /\ orig' = << >>
    /\ phase' = "idle"
    /\ UNCHANGED << fixed, stream, pending, allocated, insertLength, nodes, queue, at, written >>

(* WriteMetaBlockInternal and what encode_data does after it; without a byte  *)
(* to write the last metablock is empty.                                      *)
WriteMetaBlock(last) ==
    /\ phase = "tail"
    /\ last \/ input # flushed
    /\ IF input = flushed THEN UNCHANGED << ring, theirs, emitted >> ELSE Compressed \/ Stored
    /\ saved' = ring'
    /\ flushed' = input /\ processed' = input
    /\ commands' = << >> /\ lastInsert' = 0 /\ meant' = << >>
    /\ position' = 0 /\ posEnd' = 0 /\ orig' = << >>
    /\ phase' = IF last THEN "finished" ELSE "idle"
    /\ UNCHANGED << fixed, input, firstBytes, allocated, insertLength, nodes, queue, at >>

Done == phase = "finished" /\ UNCHANGED vars

Next ==
    \/ \E bytes \in Offered : EncodeData(bytes)
    \/ GreedyMatch \/ GreedyMiss \/ GreedyEnd
    \/ UpdateByRing \/ UpdateByMatch \/ EvaluateNext
    \/ CreateCommands \/ SecondPass
    \/ Postpone \/ NothingToWrite
    \/ \E last \in BOOLEAN : WriteMetaBlock(last)
    \/ Done

Spec == Init /\ [][Next]_vars

-----------------------------------------------------------------------------
(* Properties.                                                                *)

(* A decoder that follows RFC 7932 reads the commands of every metablock as   *)
(* the literals, copies and words the matcher chose: a distance named by the  *)
(* ring when the command was made (WriteMetaBlockInternal, store_meta_block)  *)
(* means the same in the decoder's ring, for commands lengthened by           *)
(* extend_last_command and for ways found by the shortest-path search too.    *)
DecodesAsMeant == emitted.read = emitted.meant

(* Whenever a metablock starts, saved_dist_cache_ is the ring a decoder has   *)
(* there, whether the metablocks before it were compressed or stored; and the *)
(* ring the matcher works with is that ring after the pending commands.       *)
RingIsTheDecoders ==
    /\ saved = theirs
    /\ phase \in {"idle", "tail"} => ring = Decode(commands, flushed + Earlier, saved).cache

(* Between two blocks the pending commands and the left-over literals are     *)
(* exactly the bytes processed since the last metablock: none is encoded      *)
(* twice or dropped when a matcher stops before the end of its block.         *)
CommandsCoverInput ==
    phase = "idle" => Decode(commands, flushed, saved).at + lastInsert = processed

(* The commands, with the one that closes the metablock, fit the array that   *)
(* encode_data allocated before it knew how many there would be.              *)
CommandsFit == /\ Len(commands) <= allocated
               /\ phase = "tail" => Len(Closed) <= allocated

=============================================================================

------------------------------ MODULE BagWriter ------------------------------
(* libs/bag/writer.cpp: the parts of a recording and its index.  `parts` and  *)
(* `index` are on disk and survive the process; the rest is BagWriter::Impl.  *)
(* A message is [n, topic]: the n-th to arrive, on that topic.                *)
EXTENDS Naturals, Sequences, FiniteSets, Functions

CONSTANT Topics

\* The topics of a recording are those that had a sample.
ASSUME TopicsAssumption == IsFiniteSet(Topics)

VARIABLES
  parts,      \* the .mcap files; of `messages`, the first `flushed` are on disk
  index,      \* metadata.yaml as loadMetadata() reads it, or NoIndex
  count,      \* metadata.message_count
  noted,      \* metadata.dropped_messages
  indexed,    \* metadata.parts
  topics,     \* Impl::topics: messages written per topic
  synced,     \* metadata.topics, as of the last syncTopics()
  valid       \* Impl::valid

memoryVars == <<count, noted, indexed, topics, synced, valid>>
writerVars == <<parts, index, memoryVars>>

\* There is no metadata.yaml, or none that can be read.
NoIndex == << >>

NoMessages == [t \in Topics |-> 0]

Part(number) == [number |-> number, messages |-> << >>, flushed |-> 0, closed |-> FALSE]

\* The constructor opened the first part.
WriterInit == /\ parts = <<Part(1)>> /\ index = NoIndex
              /\ count = 0 /\ noted = 0 /\ indexed = << >>
              /\ topics = NoMessages /\ synced = NoMessages
              /\ valid = TRUE

OpenPart == /\ parts' = Append(parts, Part(Len(parts) + 1))
            /\ UNCHANGED <<index, memoryVars>>

\* Wrong on purpose: the next part is opened over one that was never closed.
FinishPart_LeavesOpen(complete) ==
  LET last == parts[Len(parts)]
  IN /\ indexed' = Append(indexed, [number |-> last.number, messages |-> Len(last.messages),
                                    complete |-> FALSE])
     /\ UNCHANGED <<parts, index, count, noted, topics, synced, valid>>

\* Wrong on purpose: takes close() at its word.
FinishPart_TrustsClose(complete) ==
  LET last  == parts[Len(parts)]
      ended == [last EXCEPT !.closed = complete,
                            !.flushed = IF complete THEN Len(last.messages) ELSE last.flushed]
  IN /\ parts' = [parts EXCEPT ![Len(parts)] = ended]
     /\ indexed' = Append(indexed, [number |-> last.number, messages |-> Len(last.messages),
                                    complete |-> TRUE])
     /\ UNCHANGED <<index, count, noted, topics, synced, valid>>

\* mcap's close() flushes the last chunk and writes the footer.  Whether the
\* file really ends in one (hasCompleteEnding) depends on the disk.
FinishPart(complete) ==
  LET last  == parts[Len(parts)]
      ended == [last EXCEPT !.closed = complete,
                            !.flushed = IF complete THEN Len(last.messages) ELSE last.flushed]
  IN /\ parts' = [parts EXCEPT ![Len(parts)] = ended]
     /\ indexed' = Append(indexed, [number |-> last.number, messages |-> Len(last.messages),
                                    complete |-> complete])
     /\ UNCHANGED <<index, count, noted, topics, synced, valid>>

\* The metadata as saveMetadata() is given it.  `whole` is a ghost: the file in
\* the directory is all of the text.
Metadata(totals) ==
  [messages |-> count, dropped |-> noted, parts |-> indexed, topics |-> totals, whole |-> TRUE]

\* What loadMetadata() makes of a number that is cut short: its first digits, or
\* the default of the field when the field is not there.
Cut(n) == {n \div (10 ^ k) : k \in 0 .. n}

\* Of an entry: a name that no file has, a number cut short, or all of it;
\* `complete` comes last and is true by default.
CutEntry(entry) ==
  {entry, [number |-> 0, messages |-> 0, complete |-> TRUE]}
    \union {[entry EXCEPT !.messages = m, !.complete = TRUE] : m \in Cut(entry.messages)}

\* The entries up to the i-th, which is cut.
CutParts(entries, i) ==
  {[j \in {k \in DOMAIN entries : k <= i} |-> IF j = i THEN e ELSE entries[j]] :
     e \in CutEntry(entries[i])}

\* Some topics, the last of them cut.
CutTopics(totals) ==
  UNION {{[t \in Topics |-> IF t \in T THEN totals[t] ELSE IF t = u THEN c ELSE 0] :
            c \in Cut(totals[u])} : T \in SUBSET Topics, u \in Topics}

\* What loadMetadata() makes of the beginning of a text: nothing, or the fields
\* that are there, in the order in which bag_metadata_t declares them.
Torn(text) ==
  LET left(m, d, p, t) == [messages |-> m, dropped |-> d, parts |-> p, topics |-> t, whole |-> FALSE]
      someParts == UNION {CutParts(text.parts, i) : i \in DOMAIN text.parts}
  IN  {NoIndex}
        \union {left(m, 0, << >>, NoMessages) : m \in Cut(text.messages)}
        \union {left(text.messages, d, << >>, NoMessages) : d \in Cut(text.dropped)}
        \union {left(text.messages, text.dropped, p, NoMessages) : p \in someParts}
        \union {left(text.messages, text.dropped, text.parts, t) : t \in CutTopics(text.topics)}

\* saveMetadata().  It fails when it can see that the temporary was not written,
\* or cannot rename it; the old index stays.  It cannot see that the ofstream
\* loses the text when it is destroyed: then it renames what there is of it.
SaveIndex(outcome, text) ==
  \/ outcome = "saved"  /\ index' = text
  \/ outcome = "failed" /\ index' = index
  \/ outcome = "torn"   /\ index' \in Torn(text)

\* syncTopics() and saveMetadata(), at a roll and at the end of close().
SyncAndSave(outcome) == /\ synced' = topics
                        /\ SaveIndex(outcome, Metadata(topics))
                        /\ UNCHANGED <<parts, count, noted, indexed, topics, valid>>

\* The end of write(): mcap buffers a chunk, which it flushes when full.
WriteMessage(m, flush) ==
  LET last  == parts[Len(parts)]
      grown == Append(last.messages, m)
      longer == [last EXCEPT !.messages = grown,
                             !.flushed = IF flush THEN Len(grown) ELSE last.flushed]
  IN /\ parts' = [parts EXCEPT ![Len(parts)] = longer]
     /\ count' = count + 1
     /\ topics' = [topics EXCEPT ![m.topic] = @ + 1]
     /\ UNCHANGED <<index, noted, indexed, synced, valid>>

\* A part could not be opened, or mcap's write() failed.
Invalidate == valid' = FALSE /\ UNCHANGED <<parts, index, count, noted, indexed, topics, synced>>

NoteDropped(k) == noted' = noted + k /\ UNCHANGED <<parts, index, count, indexed, topics, synced, valid>>

\* close() of a writer that failed: the index as it stands.
SaveAsIs(outcome) == SaveIndex(outcome, Metadata(synced)) /\ UNCHANGED <<parts, memoryVars>>
-----------------------------------------------------------------------------
(* After the process is gone.                                                 *)

\* The messages of a part that a reader finds.
OnDisk(p) == SubSeq(p.messages, 1, p.flushed)

Total(entries) == SumFunction([i \in DOMAIN entries |-> entries[i].messages])

\* rebuildMetadata(): scans the files, whatever the index says of them; what
\* only the recorder knew is carried over from a surviving index.
Rebuilt(files) ==
  LET scanned == [i \in files |-> [number |-> parts[i].number,
                                   messages |-> Len(OnDisk(parts[i])),
                                   complete |-> parts[i].closed]]
      onTopic(p, t) == Cardinality({j \in DOMAIN OnDisk(p) : OnDisk(p)[j].topic = t})
  IN [messages |-> Total(scanned),
      dropped  |-> IF index = NoIndex THEN 0 ELSE index.dropped,
      parts    |-> scanned,
      topics   |-> [t \in Topics |-> SumFunction([i \in files |-> onTopic(parts[i], t)])],
      whole    |-> TRUE]

\* The parts mcap can open; with none nothing is saved.
Reindex(outcome, files) == IF files = {} THEN UNCHANGED index ELSE SaveIndex(outcome, Rebuilt(files))
=============================================================================

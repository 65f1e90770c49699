---------------------------- MODULE AttachmentStream ----------------------------
(***************************************************************************)
(* An attachment as a secret stream (crypto's secretstream.ts): the        *)
(* producer's chunks become records in a staging sink, with a manifest at  *)
(* the end; records of whatever origin and order are decrypted into        *)
(* another sink, which commits what it holds only at the end.  A producer  *)
(* uses its buffer again as soon as it is asked for the next chunk.  The   *)
(* cipher is modelled by what it authenticates: a record is accepted at    *)
(* its own place in its own stream, with the tag it was given.             *)
(***************************************************************************)
EXTENDS Naturals, Sequences

CONSTANTS Streams, Contents, MaxChunks,
          MaxReads  \* bound: records offered for decryption

VARIABLES given,     \* stream -> the chunks its producer gave
          buffer,    \* stream -> the content of its producer's buffer
          enc,       \* stream -> its encryption
          sink,      \* stream -> the records that are staged
          manifests, \* the manifests that were committed
          dec,       \* one decryption
          reads

vars == <<given, buffer, enc, sink, manifests, dec, reads>>

\* What the proofs assume of the constants.
ConstantsFit == "empty" \notin Contents

Nothing == [is |-> "nothing"]
None    == [pc |-> "none"]

Init == /\ given = [s \in Streams |-> <<>>] /\ buffer \in [Streams -> Contents]
        /\ enc = [s \in Streams |-> [pc |-> "start", count |-> 0, pending |-> Nothing]]
        /\ sink = [s \in Streams |-> <<>>] /\ manifests = {} /\ dec = None /\ reads = 0

-----------------------------------------------------------------------------
(* encryptAttachmentStreamToStager.                                        *)
Header(s) == [is |-> "header", stream |-> s]

\* The place in the stream, the additional data and the tag are authenticated.
Chunk(s, n, what, final) ==
  [is |-> "chunk", stream |-> s, index |-> n, content |-> what, final |-> final]

Becomes(s, e) == enc' = [enc EXCEPT ![s] = e]
Stages(s, record) == sink' = [sink EXCEPT ![s] = Append(@, record)]

Start(s) == /\ enc[s].pc = "start" /\ Stages(s, Header(s))
            /\ Becomes(s, [enc[s] EXCEPT !.pc = "reading"])
            /\ UNCHANGED <<given, buffer, manifests, dec, reads>>

\* The chunk that waits for its successor is one the encryption owns.
\* Mutant: it is the producer's own buffer.
PendingBuffer(s) == [is |-> "chunk", content |-> buffer[s]]
Pending(s) == enc[s].pending

\* A chunk is taken; the one before it is encrypted, as it is not the last.
Take(s) ==
  LET e == enc[s]
  IN /\ e.pc = "reading" /\ e.count < MaxChunks
     /\ given' = [given EXCEPT ![s] = Append(@, buffer[s])]
     /\ Becomes(s, [e EXCEPT !.count = @ + 1,
                             !.pending = [is |-> "chunk", content |-> buffer[s]]])
     /\ IF e.pending = Nothing THEN UNCHANGED sink
        ELSE Stages(s, Chunk(s, e.count - 1, Pending(s).content, FALSE))
     /\ UNCHANGED <<buffer, manifests, dec, reads>>

\* The buffer is filled again.
Fill(s, what) == /\ enc[s].pc = "reading" /\ buffer' = [buffer EXCEPT ![s] = what]
                 /\ UNCHANGED <<given, enc, sink, manifests, dec, reads>>

\* The producer ends: the chunk that waits is the last, or there is an empty one.
Finish(s) ==
  LET e == enc[s]
      last == IF e.pending = Nothing THEN "empty" ELSE Pending(s).content
  IN /\ e.pc = "reading" /\ Becomes(s, [e EXCEPT !.pc = "manifest"])
     /\ Stages(s, Chunk(s, IF e.count = 0 THEN 0 ELSE e.count - 1, last, TRUE))
     /\ UNCHANGED <<given, buffer, manifests, dec, reads>>

Manifest(s) == [stream |-> s, count |-> IF enc[s].count = 0 THEN 1 ELSE enc[s].count,
                content |-> given[s]]

Commit(s) == /\ enc[s].pc = "manifest" /\ manifests' = manifests \cup {Manifest(s)}
             /\ Becomes(s, [enc[s] EXCEPT !.pc = "committed"])
             /\ UNCHANGED <<given, buffer, sink, dec, reads>>

\* One chunk too many, a producer or a sink that fails; the sink may have kept some.
Abort(s) == /\ enc[s].pc \in {"reading", "manifest"}
            /\ Becomes(s, [enc[s] EXCEPT !.pc = "aborted"])
            /\ UNCHANGED <<given, buffer, sink, manifests, dec, reads>>

-----------------------------------------------------------------------------
(* decryptAttachmentStreamToStager.                                        *)
Records == UNION {{sink[s][n] : n \in DOMAIN sink[s]} : s \in Streams}

Open(m) == /\ dec = None /\ reads = 0
           /\ dec' = [pc |-> "open", manifest |-> m, stream |-> "none", next |-> 0,
                      final |-> FALSE, got |-> <<>>]
           /\ UNCHANGED <<given, buffer, enc, sink, manifests, reads>>

Fails == dec' = [dec EXCEPT !.pc = "aborted", !.got = <<>>]

\* validateHeaderRecord, then validateChunkRecord and pull
Accepts(r) ==
  IF dec.stream = "none" THEN r.is = "header"
  ELSE /\ r.is = "chunk" /\ r.index = dec.next /\ r.stream = dec.stream
       /\ ~ dec.final /\ dec.next < MaxChunks

Offer(r) ==
  /\ dec # None /\ dec.pc = "open" /\ reads < MaxReads /\ reads' = reads + 1
  /\ IF ~ Accepts(r) THEN Fails
     ELSE IF r.is = "header" THEN dec' = [dec EXCEPT !.stream = r.stream]
     ELSE dec' = [dec EXCEPT !.next = @ + 1, !.final = r.final,
                             !.got = Append(@, r.content)]
  /\ UNCHANGED <<given, buffer, enc, sink, manifests>>

\* An empty attachment is one empty chunk.
Bytes(chunks) == IF chunks = <<"empty">> THEN <<>> ELSE chunks

\* The records end: the last one was final, and the manifest agrees.
Complete == /\ dec.stream = dec.manifest.stream /\ dec.final
            /\ dec.next = dec.manifest.count /\ Bytes(dec.got) = dec.manifest.content

End == /\ dec # None /\ dec.pc = "open"
       /\ IF Complete THEN dec' = [dec EXCEPT !.pc = "committed"]
                                              ELSE Fails
       /\ UNCHANGED <<given, buffer, enc, sink, manifests, reads>>

Next == \/ \E s \in Streams : \/ Start(s) \/ Take(s) \/ Finish(s) \/ Commit(s) \/ Abort(s)
                              \/ \E what \in Contents : Fill(s, what)
        \/ \E m \in manifests : Open(m)
        \/ \E r \in Records : Offer(r)
        \/ End

Spec == Init /\ [][Next]_vars

-----------------------------------------------------------------------------
\* A sink that committed holds the whole attachment its producer gave, whatever records
\* were offered; and the records of every committed attachment, in their order, are
\* such a whole, however its producer used its buffer.
OnlyWholeStreams ==
  /\ dec # None /\ dec.pc = "committed" => Bytes(dec.got) = given[dec.manifest.stream]
  /\ \A m \in manifests :
       LET chunks == Tail(sink[m.stream])
       IN /\ Bytes([n \in DOMAIN chunks |-> chunks[n].content]) = given[m.stream]
          /\ Len(chunks) = m.count
          /\ \A n \in DOMAIN chunks : chunks[n].final <=> n = m.count
=============================================================================

--------------------------- MODULE DmaCopyProofs ----------------------------
(***************************************************************************)
(* What a DMA transfer does to memory, for every word and burst size,      *)
(* every set of regions made of whole words and every set of transfers.    *)
(***************************************************************************)
EXTENDS DmaCopy, TLAPS

\* The bytes of the transfer in the words already finished.
Finished == xfer.len - bytes_remaining

\* A multiple of the word size.
WholeWords(n) == \E k \in Nat : n = DMA_DATA_BYTES * k

\* The engine's registers describe the rest of a legal transfer.
EngineTracks ==
  /\ xfer.src \in Nat /\ xfer.dst \in Nat /\ xfer.len \in Nat
  /\ ~start_address_error(xfer.src, xfer.dst, xfer.len)
  /\ bytes_remaining \in 1 .. xfer.len
  /\ current_source_address = xfer.src + Finished
  /\ current_destination_address = xfer.dst + Finished
  /\ WholeWords(current_source_address)

\* The events so far account for the finished words, and for the word that is
\* read and not yet written.
EventsTrack ==
  accesses = [read |-> IF dma_state \in {"DMA_WRITE_REQUEST", "DMA_WRITE_RESPONSE"}
                         THEN Finished + current_beat_bytes ELSE Finished,
              written |-> Finished]

\* The word waiting to be written is the source's, as it was at the start.
WordIsOriginal ==
  dma_state \in {"DMA_WRITE_REQUEST", "DMA_WRITE_RESPONSE"} =>
    \A lane \in byte_strobe(current_beat_bytes) :
      read_data[lane] = before[xfer.src + Finished + lane]

\* The finished words are copied, and the one being written perhaps.
MemoryTracks ==
  \/ mem = PrefixCopied(Finished)
  \/ /\ dma_state = "DMA_WRITE_RESPONSE"
     /\ mem = PrefixCopied(Finished + current_beat_bytes)

\* The inductive invariant.  CopyExact says what memory holds now; it is kept
\* only because the engine's registers stay inside the operands that passed
\* the start checks, and because the word read was not yet overwritten.
CopyInv ==
  /\ dma_state \in {"DMA_IDLE", "DMA_READ_REQUEST", "DMA_READ_RESPONSE",
                    "DMA_WRITE_REQUEST", "DMA_WRITE_RESPONSE"}
  /\ engine_busy = (dma_state # "DMA_IDLE")
  /\ mem = [a \in Bytes |-> mem[a]]
  /\ dma_state # "DMA_IDLE" =>
       EngineTracks /\ EventsTrack /\ WordIsOriginal /\ MemoryTracks
  /\ DoneMeansCopied

----------------------------------------------------------------------------
(* Words and regions. *)

\* Between two word boundaries there is a whole word.
LEMMA WholeWordFits ==
  ASSUME NEW a \in Nat, NEW e \in Nat, WholeWords(a), WholeWords(e), a < e
  PROVE  a + DMA_DATA_BYTES <= e
<1>0. DMA_DATA_BYTES \in Nat \ {0}
  BY EngineAssumption
<1>1. PICK k \in Nat : a = DMA_DATA_BYTES * k
  BY DEF WholeWords
<1>2. PICK m \in Nat : e = DMA_DATA_BYTES * m
  BY DEF WholeWords
<1>3. k + 1 <= m
  BY <1>0, <1>1, <1>2
<1>4. DMA_DATA_BYTES * (k + 1) <= DMA_DATA_BYTES * m
  BY <1>0, <1>3
<1> QED BY <1>0, <1>1, <1>2, <1>4

\* An aligned address is a whole number of words, and so is the next one.
LEMMA AlignedIsWholeWords ==
  ASSUME NEW a \in Nat
  PROVE  /\ address_is_aligned(a) => WholeWords(a)
         /\ WholeWords(a) => WholeWords(a + DMA_DATA_BYTES)
<1>0. DMA_DATA_BYTES \in Nat \ {0}
  BY EngineAssumption
<1>1. ASSUME address_is_aligned(a) PROVE WholeWords(a)
  <2>1. a = DMA_DATA_BYTES * (a \div DMA_DATA_BYTES) /\ a \div DMA_DATA_BYTES \in Nat
    BY <1>0, <1>1 DEF address_is_aligned
  <2> QED BY <2>1 DEF WholeWords
<1>2. ASSUME WholeWords(a) PROVE WholeWords(a + DMA_DATA_BYTES)
  <2>1. PICK k \in Nat : a = DMA_DATA_BYTES * k
    BY <1>2 DEF WholeWords
  <2>2. a + DMA_DATA_BYTES = DMA_DATA_BYTES * (k + 1) /\ k + 1 \in Nat
    BY <1>0, <2>1
  <2> QED BY <2>2 DEF WholeWords
<1> QED BY <1>1, <1>2

\* Every region ends on a word boundary.
LEMMA RegionEnd ==
  ASSUME NEW r \in Regions
  PROVE  r.base \in Nat /\ r.size \in Nat /\ WholeWords(r.base + r.size)
<1>0. DMA_DATA_BYTES \in Nat \ {0} /\ r.base \in Nat /\ r.size \in Nat
  BY EngineAssumption
<1>1. WholeWords(r.base) /\ WholeWords(r.size)
  BY <1>0, CopyAssumption, AlignedIsWholeWords
<1>2. PICK k \in Nat, m \in Nat : r.base = DMA_DATA_BYTES * k /\ r.size = DMA_DATA_BYTES * m
  BY <1>1 DEF WholeWords
<1>3. r.base + r.size = DMA_DATA_BYTES * (k + m) /\ k + m \in Nat
  BY <1>0, <1>2
<1> QED BY <1>0, <1>3 DEF WholeWords

\* A part of a legal range is legal, and its bytes are memory.
LEMMA LegalPart ==
  ASSUME NEW address \in Nat, NEW length \in Nat, data_range_is_legal(address, length),
         NEW first \in Nat, NEW n \in Nat, n # 0, first + n <= length
  PROVE  /\ data_range_is_legal(address + first, n)
         /\ \A i \in 0 .. n - 1 : address + first + i \in Bytes
<1>1. PICK r \in Regions : /\ address_in_region(address, r)
                           /\ address_in_region(address + length - 1, r)
  BY DEF data_range_is_legal
<1>2. r.base \in Nat /\ r.size \in Nat
  BY RegionEnd
<1>3. /\ address_in_region(address + first, r)
      /\ address_in_region(address + first + n - 1, r)
  BY <1>1, <1>2 DEF address_in_region
<1>4. \A i \in 0 .. n - 1 : address + first + i \in r.base .. r.base + r.size - 1
  BY <1>1, <1>2 DEF address_in_region
<1> QED BY <1>3, <1>4 DEF data_range_is_legal, Bytes

\* The word at an aligned address of a legal range lies in the region whole,
\* also when the range ends inside it.
LEMMA LegalWord ==
  ASSUME NEW address \in Nat, NEW length \in Nat, data_range_is_legal(address, length),
         NEW first \in Nat, first < length, WholeWords(address + first)
  PROVE  data_range_is_legal(address + first, DMA_DATA_BYTES)
<1>0. DMA_DATA_BYTES \in Nat \ {0}
  BY EngineAssumption
<1>1. PICK r \in Regions : /\ address_in_region(address, r)
                           /\ address_in_region(address + length - 1, r)
  BY DEF data_range_is_legal
<1>2. r.base \in Nat /\ r.size \in Nat /\ WholeWords(r.base + r.size)
  BY RegionEnd
<1>3. address + first < r.base + r.size /\ address + first >= r.base
  BY <1>1, <1>2 DEF address_in_region
<1>4. address + first + DMA_DATA_BYTES <= r.base + r.size
  BY <1>2, <1>3, WholeWordFits
<1>5. /\ address_in_region(address + first, r)
      /\ address_in_region(address + first + DMA_DATA_BYTES - 1, r)
  BY <1>0, <1>2, <1>3, <1>4 DEF address_in_region
<1> QED BY <1>5 DEF data_range_is_legal

----------------------------------------------------------------------------
(* One beat. *)

\* The beat is at most a word and at most the rest; the last one ends the
\* transfer and any other is a whole word.
LEMMA BeatBounds ==
  ASSUME EngineTracks
  PROVE  /\ Finished \in Nat
         /\ current_beat_bytes \in Nat \ {0}
         /\ Finished + current_beat_bytes <= xfer.len
         /\ last_beat => Finished + current_beat_bytes = xfer.len
         /\ ~last_beat => /\ current_beat_bytes = DMA_DATA_BYTES
                          /\ bytes_remaining - DMA_DATA_BYTES \in 1 .. xfer.len
         /\ byte_strobe(current_beat_bytes) = 0 .. current_beat_bytes - 1
<1>0. DMA_DATA_BYTES \in Nat \ {0}
  BY EngineAssumption
<1>1. xfer.len \in Nat /\ bytes_remaining \in 1 .. xfer.len
  BY DEF EngineTracks
<1>2. current_beat_bytes \in 1 .. DMA_DATA_BYTES
  BY <1>0, <1>1 DEF current_beat_bytes, last_beat
<1>3. byte_strobe(current_beat_bytes) = 0 .. current_beat_bytes - 1
  BY <1>0, <1>2 DEF byte_strobe
<1>4. /\ Finished \in Nat
      /\ Finished + current_beat_bytes <= xfer.len
      /\ last_beat => Finished + current_beat_bytes = xfer.len
      /\ ~last_beat => /\ current_beat_bytes = DMA_DATA_BYTES
                       /\ bytes_remaining - DMA_DATA_BYTES \in 1 .. xfer.len
  BY <1>0, <1>1 DEF current_beat_bytes, last_beat, Finished
<1> QED BY <1>2, <1>3, <1>4

\* The word read is the source's original one: source and destination are
\* disjoint, or equal and then the prefix copied so far ends before it.
LEMMA ReadOriginal ==
  ASSUME EngineTracks, mem = PrefixCopied(Finished),
         NEW lane \in byte_strobe(current_beat_bytes)
  PROVE  Word(current_source_address)[lane] = before[xfer.src + Finished + lane]
<1> DEFINE source == xfer.src + Finished + lane
<1>0. DMA_DATA_BYTES \in Nat \ {0}
  BY EngineAssumption
<1>1. /\ Finished \in Nat /\ current_beat_bytes \in Nat \ {0}
      /\ Finished + current_beat_bytes <= xfer.len
      /\ lane \in 0 .. current_beat_bytes - 1 /\ lane \in 0 .. DMA_DATA_BYTES - 1
  BY BeatBounds DEF byte_strobe
<1>2. /\ xfer.src \in Nat /\ xfer.dst \in Nat /\ xfer.len \in Nat
      /\ data_range_is_legal(xfer.src, xfer.len)
      /\ ~ranges_overlap(xfer.src, xfer.dst, xfer.len)
      /\ current_source_address = xfer.src + Finished
  BY DEF EngineTracks, start_address_error
<1> HIDE DEF Finished
<1>3. source \in Bytes
  BY <1>1, <1>2, LegalPart
<1>4. Word(current_source_address)[lane] = mem[source]
  BY <1>0, <1>1, <1>2 DEF Word
<1>5. source \notin xfer.dst .. xfer.dst + Finished - 1
  BY <1>1, <1>2 DEF ranges_overlap
<1>6. mem[source] = before[source]
  BY <1>3, <1>5 DEF PrefixCopied
<1> QED BY <1>4, <1>6

\* Writing the word extends the copied prefix by the beat and touches no
\* other byte.
LEMMA StoreExtendsPrefix ==
  ASSUME EngineTracks, mem = PrefixCopied(Finished),
         \A lane \in byte_strobe(current_beat_bytes) :
           read_data[lane] = before[xfer.src + Finished + lane]
  PROVE  Stored = PrefixCopied(Finished + current_beat_bytes)
<1> DEFINE dst == current_destination_address
           beat == current_beat_bytes
<1>1. /\ Finished \in Nat /\ beat \in Nat \ {0}
      /\ byte_strobe(beat) = 0 .. beat - 1
  BY BeatBounds
<1>2. xfer.src \in Nat /\ xfer.dst \in Nat /\ dst = xfer.dst + Finished
  BY DEF EngineTracks
<1> HIDE DEF Finished, dst, beat
<1>3. \A lane \in 0 .. beat - 1 : read_data[lane] = before[xfer.src + Finished + lane]
  BY <1>1 DEF beat
<1>4. Stored = [a \in Bytes |-> IF a - dst \in 0 .. beat - 1
                                  THEN read_data[a - dst] ELSE mem[a]]
  BY <1>1 DEF Stored, Store, dst, beat
<1>5. \A a \in Bytes : a \in Int
  BY RegionEnd DEF Bytes
<1>6. ASSUME NEW a \in Bytes
      PROVE  (IF a - dst \in 0 .. beat - 1 THEN read_data[a - dst] ELSE mem[a])
               = (IF a \in xfer.dst .. xfer.dst + (Finished + beat) - 1
                    THEN before[xfer.src + a - xfer.dst] ELSE before[a])
  <2>0. a \in Int
    BY <1>5
  <2>1. CASE a - dst \in 0 .. beat - 1
    <3>1. read_data[a - dst] = before[xfer.src + Finished + (a - dst)]
      BY <1>3, <2>1
    <3>2. xfer.src + Finished + (a - dst) = xfer.src + a - xfer.dst
      BY <1>1, <1>2, <2>0
    <3>3. a \in xfer.dst .. xfer.dst + (Finished + beat) - 1
      BY <1>1, <1>2, <2>0, <2>1
    <3> QED BY <2>1, <3>1, <3>2, <3>3
  <2>2. CASE a - dst \notin 0 .. beat - 1
    <3>1. a \in xfer.dst .. xfer.dst + (Finished + beat) - 1
            <=> a \in xfer.dst .. xfer.dst + Finished - 1
      <4>1. a < dst \/ a >= dst + beat
        BY <1>1, <1>2, <2>0, <2>2
      <4> QED BY <1>1, <1>2, <2>0, <4>1
    <3>2. mem[a] = IF a \in xfer.dst .. xfer.dst + Finished - 1
                     THEN before[xfer.src + a - xfer.dst] ELSE before[a]
      BY DEF PrefixCopied
    <3> QED BY <2>2, <3>1, <3>2
  <2> QED BY <2>1, <2>2
<1>7. Stored = PrefixCopied(Finished + beat)
  BY <1>4, <1>6 DEF PrefixCopied
<1> QED BY <1>7 DEF beat

----------------------------------------------------------------------------
(* The steps. *)

\* While the operand registers stand still, so does everything computed from
\* them.
LEMMA RegistersKept ==
  ASSUME EngineTracks,
         UNCHANGED <<xfer, bytes_remaining, current_source_address,
                     current_destination_address>>
  PROVE  /\ EngineTracks'
         /\ Finished' = Finished
         /\ current_beat_bytes' = current_beat_bytes
<1>1. Finished' = Finished /\ current_beat_bytes' = current_beat_bytes
  BY DEF Finished, current_beat_bytes, last_beat
<1>2. EngineTracks'
  BY <1>1 DEF EngineTracks, WholeWords, start_address_error
<1> QED BY <1>1, <1>2

\* An idle engine: a start that passes the checks begins a transfer of which
\* nothing is copied, any other start ends at once and copies nothing.
LEMMA IdleStep ==
  ASSUME CopyInv, NEW start \in BOOLEAN,
         NEW t \in IF start THEN Transfers ELSE {NoTransfer}, NEW stored,
         Idle(start, t.src, t.dst, t.len), MemoryStep(stored), HistoryStep(start, t)
  PROVE  CopyInv'
<1>0. /\ dma_state = "DMA_IDLE" /\ ~engine_busy
      /\ mem' = mem
      /\ mem = [a \in Bytes |-> mem[a]]
      /\ bytes_read_event' = 0 /\ bytes_written_event' = 0
  BY DEF CopyInv, Idle, NoEvents, MemoryStep
<1>1. CASE ~start
  <2>1. /\ dma_state' = "DMA_IDLE"
        /\ engine_busy' = FALSE
        /\ ~engine_done'
    BY <1>1 DEF Idle, Announce, Enter
  <2> QED BY <1>0, <2>1 DEF CopyInv, DoneMeansCopied
<1>2. CASE start
  <2> DEFINE empty  == t.len = 0
             failed == ~empty /\ start_address_error(t.src, t.dst, t.len)
  <2>1. t \in Transfers /\ t.src \in Nat /\ t.dst \in Nat /\ t.len \in Nat
    BY <1>2, CopyAssumption
  <2>2. xfer' = t /\ before' = mem /\ accesses' = [read |-> 0, written |-> 0]
    BY <1>0, <1>2 DEF HistoryStep
  <2>3. mem' = PrefixCopied(0)'
    <3>1. \A a \in Bytes : a \notin xfer'.dst .. xfer'.dst + 0 - 1
      BY <2>1, <2>2
    <3>2. PrefixCopied(0)' = [a \in Bytes |-> before'[a]]
      BY <3>1 DEF PrefixCopied
    <3> QED BY <1>0, <2>2, <3>2
  <2>4. CASE empty \/ failed
    <3>1. /\ dma_state' = "DMA_IDLE"
          /\ engine_busy' = FALSE
          /\ engine_error' <=> failed
      BY <1>0, <1>2, <2>4 DEF Idle, Announce, Enter, Rejected
    <3>2. DoneMeansCopied'
      <4>1. CASE failed
        <5>1. engine_error' /\ 0 \in 0 .. xfer'.len
          BY <2>1, <2>2, <3>1, <4>1
        <5> HIDE DEF failed
        <5> QED BY <2>3, <5>1 DEF DoneMeansCopied
      <4>2. CASE empty
        <5>1. ~engine_error' /\ xfer'.len = 0
          BY <2>2, <3>1, <4>2
        <5> QED BY <2>2, <2>3, <5>1 DEF DoneMeansCopied
      <4> QED BY <2>4, <4>1, <4>2
    <3> QED BY <1>0, <3>1, <3>2 DEF CopyInv
  <2>5. CASE ~empty /\ ~failed
    <3>1. /\ dma_state' = "DMA_READ_REQUEST"
          /\ engine_busy' = TRUE
          /\ ~engine_done'
          /\ current_source_address' = t.src
          /\ current_destination_address' = t.dst
          /\ bytes_remaining' = t.len
      BY <1>0, <1>2, <2>5 DEF Idle, Announce, Enter, Rejected
    <3>2. Finished' = 0
      BY <2>1, <2>2, <3>1 DEF Finished
    <3>3. WholeWords(t.src)
      BY <2>1, <2>5, AlignedIsWholeWords DEF start_address_error
    <3>4. EngineTracks'
      <4>1. WholeWords(current_source_address)'
        BY <3>1, <3>3 DEF WholeWords
      <4>2. ~start_address_error(xfer.src, xfer.dst, xfer.len)'
        BY <2>2, <2>5
      <4> QED BY <2>1, <2>2, <2>5, <3>1, <3>2, <4>1, <4>2 DEF EngineTracks
    <3>5. EventsTrack' /\ WordIsOriginal'
      BY <2>2, <3>1, <3>2 DEF EventsTrack, WordIsOriginal
    <3>6. MemoryTracks'
      BY <2>3, <3>2 DEF MemoryTracks, PrefixCopied
    <3> QED BY <1>0, <3>1, <3>4, <3>5, <3>6 DEF CopyInv, DoneMeansCopied
  <2> QED BY <2>4, <2>5
<1> QED BY <1>1, <1>2

\* Waiting for a handshake or a response: only the write request touches
\* memory, and it writes the beat or nothing.
LEMMA WaitStep ==
  ASSUME CopyInv, NEW start \in BOOLEAN, NEW t, NEW stored, NEW rsp,
         NEW ready \in BOOLEAN, stored => ready,
         \/ Request("DMA_READ_REQUEST", "DMA_READ_RESPONSE", start, ready)
         \/ Request("DMA_WRITE_REQUEST", "DMA_WRITE_RESPONSE", start, ready)
         \/ AwaitPort("DMA_READ_RESPONSE", start, rsp)
         \/ AwaitPort("DMA_WRITE_RESPONSE", start, rsp),
         MemoryStep(stored), HistoryStep(start, t)
  PROVE  CopyInv'
<1>1. /\ dma_state # "DMA_IDLE"
      /\ dma_state' \in {"DMA_READ_REQUEST", "DMA_READ_RESPONSE",
                         "DMA_WRITE_REQUEST", "DMA_WRITE_RESPONSE"}
      /\ dma_state' \in {"DMA_WRITE_REQUEST", "DMA_WRITE_RESPONSE"}
           <=> dma_state \in {"DMA_WRITE_REQUEST", "DMA_WRITE_RESPONSE"}
      /\ dma_state = "DMA_WRITE_RESPONSE" => dma_state' = dma_state
      /\ dma_state = "DMA_WRITE_REQUEST" /\ stored => dma_state' = "DMA_WRITE_RESPONSE"
      /\ engine_busy' = engine_busy /\ ~engine_done'
      /\ bytes_read_event' = 0 /\ bytes_written_event' = 0
      /\ UNCHANGED <<current_source_address, current_destination_address,
                     bytes_remaining, read_data>>
  BY DEF Request, AwaitPort, Announce, NoEvents, datapathVars
<1>2. /\ EngineTracks /\ EventsTrack /\ WordIsOriginal /\ MemoryTracks
      /\ engine_busy = TRUE
      /\ mem = [a \in Bytes |-> mem[a]]
  BY <1>1 DEF CopyInv
<1>3. before' = before /\ xfer' = xfer
  BY <1>1 DEF HistoryStep
<1>4. EngineTracks' /\ Finished' = Finished /\ current_beat_bytes' = current_beat_bytes
  BY <1>1, <1>2, <1>3, RegistersKept
<1>5. EventsTrack'
  <2>1. Finished \in Nat /\ current_beat_bytes \in Nat
    BY <1>2, BeatBounds
  <2>2. accesses' = [read |-> accesses.read + 0, written |-> accesses.written + 0]
    BY <1>1 DEF HistoryStep
  <2>3. accesses' = accesses
    BY <1>2, <2>1, <2>2 DEF EventsTrack
  <2> QED BY <1>1, <1>2, <1>4, <2>3 DEF EventsTrack
<1>6. WordIsOriginal'
  BY <1>1, <1>2, <1>3, <1>4 DEF WordIsOriginal, byte_strobe
<1>7. MemoryTracks' /\ mem' = [a \in Bytes |-> mem'[a]]
  <2>2. CASE dma_state = "DMA_WRITE_REQUEST" /\ stored
    <3>1. mem = PrefixCopied(Finished)
      BY <1>2, <2>2 DEF MemoryTracks
    <3>2. mem' = PrefixCopied(Finished + current_beat_bytes)
      <4>1. \A lane \in byte_strobe(current_beat_bytes) :
              read_data[lane] = before[xfer.src + Finished + lane]
        BY <1>2, <2>2 DEF WordIsOriginal
      <4>2. Stored = PrefixCopied(Finished + current_beat_bytes)
        BY <1>2, <3>1, <4>1, StoreExtendsPrefix
      <4> QED BY <2>2, <4>2 DEF MemoryStep
    <3>3. MemoryTracks'
      BY <1>1, <1>3, <1>4, <2>2, <3>2 DEF MemoryTracks, PrefixCopied
    <3> QED BY <3>2, <3>3 DEF PrefixCopied
  <2>3. CASE ~(dma_state = "DMA_WRITE_REQUEST" /\ stored)
    <3>1. mem' = mem
      BY <2>3 DEF MemoryStep
    <3> QED BY <1>1, <1>2, <1>3, <1>4, <3>1 DEF MemoryTracks, PrefixCopied
  <2> QED BY <2>2, <2>3
<1> QED BY <1>1, <1>2, <1>4, <1>5, <1>6, <1>7 DEF CopyInv, DoneMeansCopied

\* A failed access ends the transfer with a prefix copied.
LEMMA ErrorStep ==
  ASSUME CopyInv, NEW start \in BOOLEAN, NEW t, NEW stored, NEW rsp,
         \/ PortError("DMA_READ_RESPONSE", start, rsp)
         \/ PortError("DMA_WRITE_RESPONSE", start, rsp),
         MemoryStep(stored), HistoryStep(start, t)
  PROVE  CopyInv'
<1>1. /\ dma_state \in {"DMA_READ_RESPONSE", "DMA_WRITE_RESPONSE"}
      /\ dma_state' = "DMA_IDLE" /\ engine_busy' = FALSE /\ engine_error'
  BY DEF PortError, Announce, Enter
<1>2. EngineTracks /\ MemoryTracks /\ mem = [a \in Bytes |-> mem[a]]
  BY <1>1 DEF CopyInv
<1>3. before' = before /\ xfer' = xfer /\ mem' = mem
  BY <1>1 DEF HistoryStep, MemoryStep
<1>4. \E n \in 0 .. xfer.len : mem = PrefixCopied(n)
  <2>1. /\ xfer.len \in Nat /\ Finished \in Nat /\ current_beat_bytes \in Nat
        /\ Finished + current_beat_bytes <= xfer.len
    BY <1>2, BeatBounds DEF EngineTracks
  <2>2. Finished \in 0 .. xfer.len /\ Finished + current_beat_bytes \in 0 .. xfer.len
    BY <2>1
  <2> QED BY <1>2, <2>2 DEF MemoryTracks
<1>5. DoneMeansCopied'
  <2>1. PICK n \in 0 .. xfer.len : mem = PrefixCopied(n)
    BY <1>4
  <2>2. mem' = PrefixCopied(n)'
    BY <1>3, <2>1 DEF PrefixCopied
  <2> QED BY <1>1, <1>3, <2>2 DEF DoneMeansCopied
<1> QED BY <1>1, <1>2, <1>3, <1>5 DEF CopyInv

\* The word that arrives is the original source word.
LEMMA ReadStep ==
  ASSUME CopyInv, NEW start \in BOOLEAN, NEW t, NEW stored,
         NEW rsp \in ReadResponses,
         ReadDone(start, rsp), MemoryStep(stored), HistoryStep(start, t)
  PROVE  CopyInv'
<1>1. /\ dma_state = "DMA_READ_RESPONSE" /\ dma_state' = "DMA_WRITE_REQUEST"
      /\ engine_busy' = engine_busy /\ ~engine_done'
      /\ bytes_read_event' = current_beat_bytes /\ bytes_written_event' = 0
      /\ UNCHANGED <<current_source_address, current_destination_address, bytes_remaining>>
  BY DEF ReadDone, Announce
<1>2. /\ EngineTracks /\ EventsTrack /\ mem = PrefixCopied(Finished)
      /\ engine_busy = TRUE
  BY <1>1 DEF CopyInv, MemoryTracks
<1>3. before' = before /\ xfer' = xfer /\ mem' = mem
  BY <1>1 DEF HistoryStep, MemoryStep
<1>4. EngineTracks' /\ Finished' = Finished /\ current_beat_bytes' = current_beat_bytes
  BY <1>1, <1>2, <1>3, RegistersKept
<1>5. EventsTrack'
  <2>1. Finished \in Nat /\ current_beat_bytes \in Nat
    BY <1>2, BeatBounds
  <2>2. accesses = [read |-> Finished, written |-> Finished]
    BY <1>1, <1>2 DEF EventsTrack
  <2>3. accesses' = [read |-> accesses.read + current_beat_bytes,
                     written |-> accesses.written + 0]
    BY <1>1 DEF HistoryStep
  <2>4. accesses' = [read |-> Finished + current_beat_bytes, written |-> Finished]
    BY <2>1, <2>2, <2>3
  <2> QED BY <1>1, <1>4, <2>4 DEF EventsTrack
<1>6. WordIsOriginal'
  <2>1. read_data' = Word(current_source_address)
    BY <1>1 DEF ReadDone, ReadResponses
  <2>2. \A lane \in byte_strobe(current_beat_bytes) :
          read_data'[lane] = before[xfer.src + Finished + lane]
    BY <1>2, <2>1, ReadOriginal
  <2> QED BY <1>3, <1>4, <2>2 DEF WordIsOriginal, byte_strobe
<1>7. MemoryTracks' /\ mem' = [a \in Bytes |-> mem'[a]]
  BY <1>2, <1>3, <1>4 DEF MemoryTracks, PrefixCopied
<1> QED BY <1>1, <1>2, <1>4, <1>5, <1>6, <1>7 DEF CopyInv, DoneMeansCopied

\* The answer to a write says that the beat is in memory; the last one ends
\* the transfer, any other moves on by a whole word.
LEMMA WriteStep ==
  ASSUME CopyInv, NEW start \in BOOLEAN, NEW t, NEW stored,
         NEW rsp \in WriteResponses,
         WriteDone(start, rsp), MemoryStep(stored), HistoryStep(start, t)
  PROVE  CopyInv'
<1>0. DMA_DATA_BYTES \in Nat \ {0}
  BY EngineAssumption
<1>1. /\ dma_state = "DMA_WRITE_RESPONSE"
      /\ bytes_read_event' = 0 /\ bytes_written_event' = current_beat_bytes
      /\ engine_done' => last_beat
  BY DEF WriteDone, Announce
<1>2. EngineTracks /\ EventsTrack /\ WordIsOriginal /\ MemoryTracks
  BY <1>1 DEF CopyInv
<1>3. before' = before /\ xfer' = xfer /\ mem' = mem
  BY <1>1 DEF HistoryStep, MemoryStep
<1>4. /\ Finished \in Nat /\ current_beat_bytes \in Nat \ {0}
      /\ Finished + current_beat_bytes <= xfer.len
      /\ last_beat => Finished + current_beat_bytes = xfer.len
      /\ ~last_beat => /\ current_beat_bytes = DMA_DATA_BYTES
                       /\ bytes_remaining - DMA_DATA_BYTES \in 1 .. xfer.len
  BY <1>2, BeatBounds
<1>5. mem = PrefixCopied(Finished + current_beat_bytes)
  <2>1. mem = Stored
    <3>1. PICK e \in {TRUE} \cup {mem # Stored} : rsp = [error |-> e]
      BY <1>1 DEF WriteDone, WriteResponses
    <3>2. ~e
      BY <3>1 DEF WriteDone
    <3> QED BY <3>1, <3>2
  <2>2. CASE mem = PrefixCopied(Finished)
    <3>1. \A lane \in byte_strobe(current_beat_bytes) :
            read_data[lane] = before[xfer.src + Finished + lane]
      BY <1>1, <1>2 DEF WordIsOriginal
    <3> QED BY <1>2, <2>1, <2>2, <3>1, StoreExtendsPrefix
  <2> QED BY <1>2, <2>2 DEF MemoryTracks
<1>6. accesses' = [read |-> Finished + current_beat_bytes,
                   written |-> Finished + current_beat_bytes]
  <2>1. accesses = [read |-> Finished + current_beat_bytes, written |-> Finished]
    BY <1>1, <1>2 DEF EventsTrack
  <2>2. accesses' = [read |-> accesses.read + 0,
                     written |-> accesses.written + current_beat_bytes]
    BY <1>1 DEF HistoryStep
  <2> QED BY <1>4, <2>1, <2>2
<1>7. mem' = [a \in Bytes |-> mem'[a]]
  BY <1>3, <1>5 DEF PrefixCopied
<1>8. CASE last_beat
  <2>1. dma_state' = "DMA_IDLE" /\ engine_busy' = FALSE
    BY <1>8 DEF WriteDone, Enter
  <2>2. mem' = PrefixCopied(xfer.len)' /\ xfer'.len \in 0 .. xfer'.len
    BY <1>2, <1>3, <1>4, <1>5, <1>8 DEF PrefixCopied, EngineTracks
  <2>3. accesses' = [read |-> xfer'.len, written |-> xfer'.len]
    BY <1>3, <1>4, <1>6, <1>8
  <2>4. DoneMeansCopied'
    BY <2>2, <2>3 DEF DoneMeansCopied
  <2> QED BY <1>7, <2>1, <2>4 DEF CopyInv
<1>9. CASE ~last_beat
  <2>1. /\ dma_state' = "DMA_READ_REQUEST" /\ engine_busy' = TRUE /\ ~engine_done'
        /\ current_source_address' = current_source_address + DMA_DATA_BYTES
        /\ current_destination_address' = current_destination_address + DMA_DATA_BYTES
        /\ bytes_remaining' = bytes_remaining - DMA_DATA_BYTES
    BY <1>1, <1>9 DEF WriteDone, Enter
  <2>2. /\ xfer.len \in Nat /\ bytes_remaining \in 1 .. xfer.len
        /\ xfer.src \in Nat /\ xfer.dst \in Nat
    BY <1>2 DEF EngineTracks
  <2>3. Finished' = Finished + DMA_DATA_BYTES
    BY <1>0, <1>3, <2>1, <2>2 DEF Finished
  <2>4. EngineTracks'
    <3>1. current_source_address \in Nat /\ WholeWords(current_source_address)
      BY <1>2, <1>4 DEF EngineTracks
    <3>2. WholeWords(current_source_address + DMA_DATA_BYTES)
      BY <3>1, AlignedIsWholeWords
    <3>3. WholeWords(current_source_address)'
      BY <2>1, <3>2 DEF WholeWords
    <3>4. ~start_address_error(xfer.src, xfer.dst, xfer.len)'
      BY <1>2, <1>3 DEF EngineTracks
    <3>5. /\ current_source_address' = xfer'.src + Finished'
          /\ current_destination_address' = xfer'.dst + Finished'
      BY <1>0, <1>2, <1>3, <1>4, <2>1, <2>2, <2>3 DEF EngineTracks
    <3> QED BY <1>3, <1>4, <1>9, <2>1, <2>2, <3>3, <3>4, <3>5 DEF EngineTracks
  <2>5. EventsTrack' /\ WordIsOriginal'
    BY <1>4, <1>6, <1>9, <2>1, <2>3 DEF EventsTrack, WordIsOriginal
  <2>6. MemoryTracks'
    BY <1>3, <1>4, <1>5, <1>9, <2>3 DEF MemoryTracks, PrefixCopied
  <2> QED BY <1>7, <2>1, <2>4, <2>5, <2>6 DEF CopyInv, DoneMeansCopied
<1> QED BY <1>8, <1>9

\* The invariant is inductive.
LEMMA CopyInvInductive ==
  /\ CopyInit => CopyInv
  /\ CopyInv /\ [CopyNext]_copyVars => CopyInv'
<1>1. ASSUME CopyInit PROVE CopyInv
  BY <1>1 DEF CopyInit, EngineInit, CopyInv, DoneMeansCopied
<1>2. ASSUME CopyInv, CopyReset PROVE CopyInv'
  BY <1>2 DEF CopyReset, EngineReset, CopyInv, DoneMeansCopied
<1>3. ASSUME CopyInv, NEW start \in BOOLEAN, NEW ready \in BOOLEAN,
             NEW src_rsp \in ReadResponses, NEW dst_rsp \in WriteResponses,
             CopyClock(start, ready, src_rsp, dst_rsp)
      PROVE  CopyInv'
  <2>1. PICK t \in (IF start THEN Transfers ELSE {NoTransfer}), stored \in {ready} \cup {FALSE} :
          /\ EngineClock(start, t.src, t.dst, t.len, ready, src_rsp, ready, dst_rsp)
          /\ MemoryStep(stored)
          /\ HistoryStep(start, t)
    BY <1>3 DEF CopyClock
  <2>2. stored => ready
    <3>1. stored = ready \/ stored = FALSE
      BY <2>1
    <3> QED BY <3>1
  <2>3. CASE Idle(start, t.src, t.dst, t.len)
    BY <1>3, <2>1, <2>2, <2>3, IdleStep
  <2>4. CASE \/ Request("DMA_READ_REQUEST", "DMA_READ_RESPONSE", start, ready)
             \/ Request("DMA_WRITE_REQUEST", "DMA_WRITE_RESPONSE", start, ready)
             \/ AwaitPort("DMA_READ_RESPONSE", start, src_rsp)
    BY <1>3, <2>1, <2>2, <2>4, WaitStep
  <2>5. CASE AwaitPort("DMA_WRITE_RESPONSE", start, dst_rsp)
    BY <1>3, <2>1, <2>2, <2>5, WaitStep
  <2>6. CASE \/ PortError("DMA_READ_RESPONSE", start, src_rsp)
             \/ PortError("DMA_WRITE_RESPONSE", start, dst_rsp)
    BY <1>3, <2>1, <2>2, <2>6, ErrorStep
  <2>7. CASE ReadDone(start, src_rsp)
    BY <1>3, <2>1, <2>2, <2>7, ReadStep
  <2>8. CASE WriteDone(start, dst_rsp)
    BY <1>3, <2>1, <2>2, <2>8, WriteStep
  <2> QED BY <2>1, <2>3, <2>4, <2>5, <2>6, <2>7, <2>8 DEF EngineClock
<1>4. ASSUME CopyInv, UNCHANGED copyVars PROVE CopyInv'
  <2>1. UNCHANGED <<dma_state, current_source_address, current_destination_address,
                    bytes_remaining, read_data, engine_busy, engine_done, engine_error,
                    mem, before, xfer, accesses>>
    BY <1>4 DEF copyVars, engineVars
  <2>2. EngineTracks => EngineTracks' /\ Finished' = Finished
                        /\ current_beat_bytes' = current_beat_bytes
    BY <2>1, RegistersKept
  <2>3. DoneMeansCopied'
    BY <1>4, <2>1 DEF CopyInv, DoneMeansCopied, PrefixCopied
  <2> QED BY <1>4, <2>1, <2>2, <2>3
          DEF CopyInv, EventsTrack, WordIsOriginal, MemoryTracks, PrefixCopied, byte_strobe
<1> QED BY <1>1, <1>2, <1>3, <1>4 DEF CopyNext

----------------------------------------------------------------------------

\* CopyExact of the specification: in every cycle of a transfer memory is the
\* old memory with exactly a prefix of the transfer copied.
THEOREM CopyIsExact == CopySpec => []CopyExact
<1>1. CopyInv => CopyExact
  <2> SUFFICES ASSUME CopyInv, engine_busy PROVE CopyExact
    BY DEF CopyExact
  <2>1. EngineTracks /\ MemoryTracks
    BY DEF CopyInv
  <2>2. Finished \in Nat /\ current_beat_bytes \in Nat
    BY <2>1, BeatBounds
  <2>3. Copied = IF dma_state = "DMA_WRITE_RESPONSE" THEN Finished + current_beat_bytes
                 ELSE Finished
    BY <2>2 DEF Copied, Finished
  <2> QED BY <2>1, <2>3 DEF CopyExact, MemoryTracks, Finished
<1> QED BY <1>1, CopyInvInductive, PTL DEF CopySpec

\* DoneMeansCopied of the specification: done without error means that every
\* byte was copied and counted, done with an error that a prefix was.
THEOREM DoneIsCopied == CopySpec => []DoneMeansCopied
<1>1. CopyInv => DoneMeansCopied
  BY DEF CopyInv
<1> QED BY <1>1, CopyInvInductive, PTL DEF CopySpec

\* RequestsInBounds of the specification: the words read lie in a region and
\* what is used of them in the source range of the running transfer, the bytes
\* written in its destination range.
THEOREM RequestsStayInBounds == CopySpec => []RequestsInBounds
<1>1. CopyInv => RequestsInBounds
  <2> SUFFICES ASSUME CopyInv, dma_state # "DMA_IDLE" PROVE RequestsInBounds
    BY DEF RequestsInBounds
  <2>1. /\ EngineTracks /\ Finished \in Nat /\ current_beat_bytes \in Nat \ {0}
        /\ Finished + current_beat_bytes <= xfer.len
    BY BeatBounds DEF CopyInv
  <2>2. /\ xfer.src \in Nat /\ xfer.dst \in Nat /\ xfer.len \in Nat
        /\ data_range_is_legal(xfer.src, xfer.len)
        /\ data_range_is_legal(xfer.dst, xfer.len)
        /\ current_source_address = xfer.src + Finished
        /\ current_destination_address = xfer.dst + Finished
        /\ WholeWords(current_source_address)
    BY <2>1 DEF EngineTracks, start_address_error
  <2> HIDE DEF Finished
  <2>3. data_range_is_legal(current_source_address, DMA_DATA_BYTES)
    BY <2>1, <2>2, LegalWord
  <2>4. data_range_is_legal(current_destination_address, current_beat_bytes)
    BY <2>1, <2>2, LegalPart
  <2>5. /\ Within(current_source_address, current_beat_bytes, xfer.src, xfer.len)
        /\ Within(current_destination_address, current_beat_bytes, xfer.dst, xfer.len)
    BY <2>1, <2>2 DEF Within
  <2> QED BY <2>3, <2>4, <2>5 DEF RequestsInBounds
<1> QED BY <1>1, CopyInvInductive, PTL DEF CopySpec

----------------------------------------------------------------------------
(* Progress. *)

\* A bound on the answered cycles a transfer still needs: four for each byte
\* left, less those already spent on the current word.
CyclesLeft ==
  IF dma_state = "DMA_READ_REQUEST" THEN 4 * bytes_remaining
  ELSE IF dma_state = "DMA_READ_RESPONSE" THEN 4 * bytes_remaining - 1
  ELSE IF dma_state = "DMA_WRITE_REQUEST" THEN 4 * bytes_remaining - 2
  ELSE IF dma_state = "DMA_WRITE_RESPONSE" THEN 4 * bytes_remaining - 3
  ELSE 0

\* Every cycle in which the memory answers takes a running transfer nearer to
\* its end, no other cycle takes it back, and only an ended one has none left.
Progress ==
  /\ CyclesLeft \in Nat
  /\ engine_busy <=> CyclesLeft # 0
  /\ engine_busy => CyclesLeft' <= CyclesLeft
  /\ MemoryAnswers => CyclesLeft' < CyclesLeft

\* The engine is busy in every state but idle, with bytes left.
LEMMA Running ==
  ASSUME CopyInv
  PROVE  /\ dma_state \in {"DMA_IDLE", "DMA_READ_REQUEST", "DMA_READ_RESPONSE",
                           "DMA_WRITE_REQUEST", "DMA_WRITE_RESPONSE"}
         /\ engine_busy <=> dma_state # "DMA_IDLE"
         /\ dma_state # "DMA_IDLE" => bytes_remaining \in Nat /\ bytes_remaining >= 1
<1>1. EngineTracks => bytes_remaining \in Nat /\ bytes_remaining >= 1
  BY DEF EngineTracks
<1> QED BY <1>1 DEF CopyInv

\* What the cycles left amount to in a state.
LEMMA CyclesLeftType ==
  ASSUME CopyInv
  PROVE  CyclesLeft \in Nat /\ (engine_busy <=> CyclesLeft # 0)
BY Running DEF CyclesLeft

\* One cycle of a running transfer, answered or not.
LEMMA EngineProgress ==
  ASSUME CopyInv, engine_busy, NEW start \in BOOLEAN, NEW ready \in BOOLEAN,
         NEW src_rsp, NEW dst_rsp, CopyClock(start, ready, src_rsp, dst_rsp)
  PROVE  /\ CyclesLeft' <= CyclesLeft
         /\ \/ CyclesLeft' < CyclesLeft
            \/ dma_state \in {"DMA_READ_REQUEST", "DMA_WRITE_REQUEST"} /\ ~ready
            \/ dma_state = "DMA_READ_RESPONSE" /\ src_rsp = NoResponse
            \/ dma_state = "DMA_WRITE_RESPONSE" /\ dst_rsp = NoResponse
<1>0. DMA_DATA_BYTES \in Nat \ {0}
  BY EngineAssumption
<1>1. PICK t \in (IF start THEN Transfers ELSE {NoTransfer}) :
        EngineClock(start, t.src, t.dst, t.len, ready, src_rsp, ready, dst_rsp)
  BY DEF CopyClock
<1>2. dma_state # "DMA_IDLE" /\ bytes_remaining \in Nat /\ bytes_remaining >= 1
  BY Running
<1>4. ASSUME NEW state, NEW rsp, AwaitPort(state, start, rsp) PROVE CyclesLeft' = CyclesLeft
  BY <1>4 DEF AwaitPort, CyclesLeft, datapathVars
<1>5. ASSUME NEW state, NEW rsp, PortError(state, start, rsp) PROVE CyclesLeft' \in Int /\ CyclesLeft' < CyclesLeft
  <2>1. dma_state' = "DMA_IDLE"
    BY <1>5 DEF PortError, Enter
  <2>2. CyclesLeft' = 0
    BY <2>1 DEF CyclesLeft
  <2>3. CyclesLeft \in Nat /\ CyclesLeft # 0
    BY CyclesLeftType
  <2> QED BY <2>2, <2>3
<1>6. ASSUME ReadDone(start, src_rsp) PROVE CyclesLeft' \in Int /\ CyclesLeft' < CyclesLeft
  BY <1>2, <1>6 DEF ReadDone, CyclesLeft
<1>7. ASSUME WriteDone(start, dst_rsp) PROVE CyclesLeft' \in Int /\ CyclesLeft' < CyclesLeft
  <2>1. CASE last_beat
    <3>1. dma_state = "DMA_WRITE_RESPONSE" /\ dma_state' = "DMA_IDLE"
      BY <1>7, <2>1 DEF WriteDone, Enter
    <3> QED BY <1>2, <3>1 DEF CyclesLeft
  <2>2. CASE ~last_beat
    <3>1. /\ dma_state = "DMA_WRITE_RESPONSE" /\ dma_state' = "DMA_READ_REQUEST"
          /\ bytes_remaining' = bytes_remaining - DMA_DATA_BYTES
      BY <1>7, <2>2 DEF WriteDone, Enter
    <3>2. CyclesLeft = 4 * bytes_remaining - 3 /\ CyclesLeft' = 4 * bytes_remaining'
      BY <3>1 DEF CyclesLeft
    <3> QED BY <1>0, <1>2, <3>1, <3>2
  <2> QED BY <2>1, <2>2
<1>8. CyclesLeft \in Nat
  BY CyclesLeftType
<1>9. CASE Request("DMA_READ_REQUEST", "DMA_READ_RESPONSE", start, ready)
  <2>1. /\ dma_state = "DMA_READ_REQUEST" /\ bytes_remaining' = bytes_remaining
        /\ dma_state' = IF ready THEN "DMA_READ_RESPONSE" ELSE "DMA_READ_REQUEST"
    BY <1>9 DEF Request, datapathVars
  <2> QED BY <1>2, <2>1 DEF CyclesLeft
<1>10. CASE Request("DMA_WRITE_REQUEST", "DMA_WRITE_RESPONSE", start, ready)
  <2>1. /\ dma_state = "DMA_WRITE_REQUEST" /\ bytes_remaining' = bytes_remaining
        /\ dma_state' = IF ready THEN "DMA_WRITE_RESPONSE" ELSE "DMA_WRITE_REQUEST"
    BY <1>10 DEF Request, datapathVars
  <2> QED BY <1>2, <2>1 DEF CyclesLeft
<1>11. CASE AwaitPort("DMA_READ_RESPONSE", start, src_rsp)
  <2>1. CyclesLeft' = CyclesLeft
    BY <1>4, <1>11
  <2>2. dma_state = "DMA_READ_RESPONSE" /\ src_rsp = NoResponse
    BY <1>11 DEF AwaitPort
  <2> QED BY <1>8, <2>1, <2>2
<1>12. CASE AwaitPort("DMA_WRITE_RESPONSE", start, dst_rsp)
  <2>1. CyclesLeft' = CyclesLeft
    BY <1>4, <1>12
  <2>2. dma_state = "DMA_WRITE_RESPONSE" /\ dst_rsp = NoResponse
    BY <1>12 DEF AwaitPort
  <2> QED BY <1>8, <2>1, <2>2
<1>13. CASE \/ PortError("DMA_READ_RESPONSE", start, src_rsp)
            \/ PortError("DMA_WRITE_RESPONSE", start, dst_rsp)
            \/ ReadDone(start, src_rsp)
            \/ WriteDone(start, dst_rsp)
  <2>1. CyclesLeft' \in Int /\ CyclesLeft' < CyclesLeft
    BY <1>5, <1>6, <1>7, <1>13
  <2> QED BY <1>8, <2>1
<1>14. ~Idle(start, t.src, t.dst, t.len)
  BY <1>2 DEF Idle
<1> QED BY <1>1, <1>9, <1>10, <1>11, <1>12, <1>13, <1>14 DEF EngineClock

\* What TransferEnds rests on, for every word size, set of regions and set of
\* transfers: a started transfer of n bytes ends within 4 n cycles in which the
\* memory answers, however many it does not answer lie between them, so no
\* start that passed the checks can make the engine run for ever.
THEOREM TransfersProgress == CopySpec => [][Progress]_copyVars
<1>1. ASSUME CopyInv, CopyInv', [CopyNext]_copyVars PROVE [Progress]_copyVars
  <2>1. CyclesLeft \in Nat /\ (engine_busy <=> CyclesLeft # 0)
    BY <1>1, CyclesLeftType
  <2>2. CASE UNCHANGED copyVars
    BY <2>2
  <2>3. CASE CopyReset
    <3>1. CyclesLeft' = 0
      BY <2>3 DEF CopyReset, EngineReset, CyclesLeft
    <3>2. ~engine_busy \/ CyclesLeft' < CyclesLeft
      BY <2>1, <3>1
    <3>3. MemoryAnswers => engine_busy
      BY DEF MemoryAnswers
    <3> QED BY <2>1, <3>1, <3>2, <3>3 DEF Progress
  <2>4. CASE \E start, ready \in BOOLEAN, src_rsp \in ReadResponses,
                dst_rsp \in WriteResponses : CopyClock(start, ready, src_rsp, dst_rsp)
    <3>1. engine_busy => CyclesLeft' <= CyclesLeft
      BY <1>1, <2>4, EngineProgress
    <3>2. ASSUME MemoryAnswers PROVE CyclesLeft' < CyclesLeft
      <4>1. PICK start \in BOOLEAN, src_rsp \in ReadResponses, dst_rsp \in WriteResponses :
              /\ engine_busy
              /\ dma_state = "DMA_READ_RESPONSE" => src_rsp # NoResponse
              /\ dma_state = "DMA_WRITE_RESPONSE" => dst_rsp # NoResponse
              /\ CopyClock(start, TRUE, src_rsp, dst_rsp)
        BY <3>2 DEF MemoryAnswers
      <4>2. \/ CyclesLeft' < CyclesLeft
            \/ dma_state = "DMA_READ_RESPONSE" /\ src_rsp = NoResponse
            \/ dma_state = "DMA_WRITE_RESPONSE" /\ dst_rsp = NoResponse
        <5>1. TRUE \in BOOLEAN
          OBVIOUS
        <5> QED BY <1>1, <4>1, <5>1, EngineProgress
      <4> QED BY <4>1, <4>2
    <3> QED BY <2>1, <3>1, <3>2 DEF Progress
  <2> QED BY <1>1, <2>2, <2>3, <2>4 DEF CopyNext
<1> QED BY <1>1, CopyInvInductive, PTL DEF CopySpec
=============================================================================

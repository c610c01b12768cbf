--------------------------- MODULE ServerMemoryProofs ---------------------------
(***************************************************************************)
(* Proofs about ServerMemory, for any number of connections and buffers,   *)
(* any sizes of buffers, headers, texts and files, and any requests.       *)
(*                                                                         *)
(* A write that stays inside its buffer changes no other (WrittenElsewhere)*)
(* so a step of one connection leaves what the others' buffers begin with  *)
(* (OthersContents); what it writes into its own is spelled out cell by    *)
(* cell (AnswerText, Sent).                                                *)
(***************************************************************************)
EXTENDS ServerMemoryInv, SequenceTheorems, TLAPS

(* The constants, as numbers.                                              *)
LEMMA Dimensions ==
  /\ BUF \in Nat /\ HEADER \in Nat /\ LONG \in Nat /\ SHORT \in Nat /\ BUFFERS \in Nat
  /\ 1 <= HEADER /\ HEADER < BUF /\ 1 <= LONG /\ LONG < BUF
  /\ 1 <= SHORT /\ SHORT < LONG /\ 1 <= BUFFERS /\ 1 <= ERRNO /\ ERRNO <= BUF
  /\ ERRNO \in Nat
BY HttpAssumption, MemoryAssumption

(* A buffer ends before the next one begins.                               *)
LEMMA Behind ==
  ASSUME NEW b \in Nat, NEW d \in Nat, b < d
  PROVE  b * BUF \in Nat /\ d * BUF \in Nat /\ b * BUF + BUF <= d * BUF
<1>1. BUF \in Nat
  BY Dimensions
<1>2. PICK k \in Nat : d = (b + 1) + k
  <2>1. d - (b + 1) \in Nat /\ d = (b + 1) + (d - (b + 1))
    OBVIOUS
  <2>. QED BY <2>1
<1>3. d * BUF = (b * BUF + BUF) + k * BUF
  BY <1>1, <1>2
<1>4. k * BUF \in Nat /\ b * BUF \in Nat /\ d * BUF \in Nat
  BY <1>1
<1>. QED BY <1>1, <1>3, <1>4

(* A buffer lies in the array, and does not overlap with another.          *)
LEMMA InAddress ==
  ASSUME NEW b \in Bid
  PROVE  /\ b \in Nat /\ Base(b) \in Nat
         /\ \A i \in 1 .. BUF : Base(b) + i - 1 \in Address
<1>1. b \in Nat /\ b < BUFFERS
  BY Dimensions DEF Bid
<1>2. Base(b) \in Nat /\ Base(b) + BUF <= BUFFERS * BUF /\ BUFFERS * BUF \in Nat
  BY <1>1, Dimensions, Behind DEF Base
<1>. QED BY <1>1, <1>2, Dimensions DEF Address

LEMMA Disjoint ==
  ASSUME NEW b \in Bid, NEW d \in Bid, b # d
  PROVE  Base(b) + BUF <= Base(d) \/ Base(d) + BUF <= Base(b)
<1>1. b \in Nat /\ d \in Nat
  BY InAddress
<1>. QED BY <1>1, Behind DEF Base

(* A write that stays inside its buffer leaves the others alone.           *)
LEMMA WrittenElsewhere ==
  ASSUME NEW b \in Bid, NEW a \in Int, NEW cells \in Seq(CellType), Inside(b, a, cells)
  PROVE  \A d \in Bid, i \in 1 .. BUF :
           d # b => Written(a, cells)[Base(d) + i - 1] = mem[Base(d) + i - 1]
<1>. SUFFICES ASSUME NEW d \in Bid, NEW i \in 1 .. BUF, d # b
              PROVE  Written(a, cells)[Base(d) + i - 1] = mem[Base(d) + i - 1]
  OBVIOUS
<1>1. Base(d) + i - 1 \in Address /\ Base(d) \in Nat /\ Base(b) \in Nat
  BY InAddress
<1>2. DOMAIN cells = 1 .. Len(cells) /\ Len(cells) \in Nat
  BY LenProperties
<1>3. ((Base(d) + i - 1) - a) + 1 \notin DOMAIN cells
  BY <1>1, <1>2, Disjoint, Dimensions DEF Inside
<1>. QED BY <1>1, <1>3 DEF Written

(* A text that fits is what its buffer begins with.                        *)
LEMMA WrittenHere ==
  ASSUME NEW b \in Bid, NEW cells \in Seq(CellType), Len(cells) <= BUF
  PROVE  \A i \in DOMAIN cells : Written(Base(b), cells)[Base(b) + i - 1] = cells[i]
<1>. SUFFICES ASSUME NEW i \in DOMAIN cells
              PROVE  Written(Base(b), cells)[Base(b) + i - 1] = cells[i]
  OBVIOUS
<1>1. DOMAIN cells = 1 .. Len(cells) /\ Len(cells) \in Nat
  BY LenProperties
<1>2. Base(b) + i - 1 \in Address /\ Base(b) \in Nat
  BY <1>1, InAddress, Dimensions
<1>3. ((Base(b) + i - 1) - Base(b)) + 1 = i
  BY <1>1, <1>2
<1>. QED BY <1>2, <1>3 DEF Written

(* What is in memory after a write was there or was written.               *)
LEMMA WrittenType ==
  ASSUME mem \in [Address -> CellType], NEW a \in Int, NEW cells \in Seq(CellType)
  PROVE  /\ Written(a, cells) \in [Address -> CellType]
         /\ \A x \in Address : \/ Written(a, cells)[x] = mem[x]
                               \/ \E i \in DOMAIN cells : Written(a, cells)[x] = cells[i]
<1>1. \A i \in DOMAIN cells : cells[i] \in CellType
  BY LenProperties, ElementOfSeq
<1>2. \A x \in Address : (x - a) + 1 \in DOMAIN cells => cells[(x - a) + 1] \in CellType
  BY <1>1
<1>. HIDE DEF CellType
<1>. QED BY <1>2 DEF Written

(* The texts that are written.                                             *)
LEMMA TimesIs ==
  ASSUME NEW S, NEW cell \in S, NEW n \in Nat
  PROVE  /\ Times(cell, n) \in Seq(S) /\ Len(Times(cell, n)) = n
         /\ DOMAIN Times(cell, n) = 1 .. n
         /\ \A i \in 1 .. n : Times(cell, n)[i] = cell
BY DEF Times

(* The cells that are ever written.                                        *)
LEMMA Cells ==
  /\ Nul \in CellType /\ Raw \in CellType
  /\ Cell("400", None) \in CellType /\ Cell("404", None) \in CellType
  /\ \A c \in Client : Cell("head", c) \in CellType /\ Cell("request", c) \in CellType
  /\ \A f \in File \union {Far} : Cell("file", f) \in CellType
BY DEF Nul, Raw, Cell, CellType

(* The text that answer_text makes.                                        *)
IsText(T, code, c, path, read) ==
  /\ T \in Seq(CellType) /\ DOMAIN T = 1 .. Len(T)
  /\ \A i \in DOMAIN T : T[i].tag # "request"
  /\ code = "BAD_REQUEST" =>
       Len(T) = LONG + 1 /\ \A i \in 1 .. LONG : T[i] = Cell("400", None)
  /\ code = "NO_FOUND" =>
       Len(T) = SHORT + 1 /\ \A i \in 1 .. SHORT : T[i] = Cell("404", None)
  /\ code = "GET_REQUEST" /\ read = -1 => Len(T) = HEADER + 1
  /\ code = "GET_REQUEST" /\ read # -1 =>
       /\ Len(T) = (HEADER + read) + 1
       /\ \A i \in 1 .. HEADER : T[i] = Cell("head", c)
       /\ \A i \in 1 .. read : T[HEADER + i] = Cell("file", path)

LEMMA AnswerText ==
  ASSUME NEW c \in Client, NEW code \in Codes, NEW path \in File \union {Far, None},
         code = "GET_REQUEST" => path # None, NEW read \in -1 .. BUF,
         NEW T, T = answer_text(code, c, path, read)
  PROVE  IsText(T, code, c, path, read)
<1>. USE DEF IsText
<1>1. \A i \in 1 .. 1 : <<Nul>>[i] = Nul
  OBVIOUS
<1>2. <<Nul>> \in Seq(CellType) /\ Len(<<Nul>>) = 1 /\ <<Nul, Nul>> \in Seq(CellType)
      /\ Len(<<Nul, Nul>>) = 2 /\ \A i \in 1 .. 2 : <<Nul, Nul>>[i] = Nul
  BY Cells
<1>3. /\ Nul.tag # "request" /\ Cell("400", None).tag # "request"
      /\ Cell("404", None).tag # "request" /\ Cell("head", c).tag # "request"
      /\ Cell("file", path).tag # "request"
  BY DEF Nul, Cell
<1>4. CASE code = "BAD_REQUEST"
  <2>1. T = Append(Times(Cell("400", None), LONG), Nul)
    BY <1>4 DEF answer_text
  <2>2. PICK s \in Seq(CellType) : /\ s = Times(Cell("400", None), LONG) /\ Len(s) = LONG
                                   /\ \A i \in 1 .. LONG : s[i] = Cell("400", None)
    BY Cells, TimesIs, Dimensions
  <2>3. /\ T \in Seq(CellType) /\ Len(T) = LONG + 1
        /\ \A i \in 1 .. LONG : T[i] = s[i]
        /\ T[LONG + 1] = Nul /\ DOMAIN T = 1 .. LONG + 1
    <3>. HIDE DEF CellType
    <3>. QED BY <2>1, <2>2, Cells, Dimensions, AppendProperties
  <2>4. \A i \in DOMAIN T : T[i].tag # "request"
    BY <1>3, <2>2, <2>3, Dimensions
  <2>5. \A i \in 1 .. LONG : T[i] = s[i] /\ s[i] = Cell("400", None)
    BY <2>2, <2>3
  <2>. QED BY <1>4, <2>3, <2>4, <2>5
<1>5. CASE code = "NO_FOUND"
  <2>1. T = Append(Times(Cell("404", None), SHORT), Nul)
    BY <1>5 DEF answer_text
  <2>2. PICK s \in Seq(CellType) : /\ s = Times(Cell("404", None), SHORT) /\ Len(s) = SHORT
                                   /\ \A i \in 1 .. SHORT : s[i] = Cell("404", None)
    BY Cells, TimesIs, Dimensions
  <2>3. /\ T \in Seq(CellType) /\ Len(T) = SHORT + 1
        /\ \A i \in 1 .. SHORT : T[i] = s[i]
        /\ T[SHORT + 1] = Nul /\ DOMAIN T = 1 .. SHORT + 1
    <3>. HIDE DEF CellType
    <3>. QED BY <2>1, <2>2, Cells, Dimensions, AppendProperties
  <2>4. \A i \in DOMAIN T : T[i].tag # "request"
    BY <1>3, <2>2, <2>3, Dimensions
  <2>5. \A i \in 1 .. SHORT : T[i] = s[i] /\ s[i] = Cell("404", None)
    BY <2>2, <2>3
  <2>. QED BY <1>5, <2>3, <2>4, <2>5
<1>6. CASE code = "GET_REQUEST" /\ read = -1
  <2>1. T = Times(Cell("head", c), HEADER - 1) \o <<Nul, Nul>>
    BY <1>6 DEF answer_text
  <2>2. PICK s \in Seq(CellType) : /\ s = Times(Cell("head", c), HEADER - 1)
                                   /\ Len(s) = HEADER - 1
                                   /\ \A i \in 1 .. HEADER - 1 : s[i] = Cell("head", c)
    <3>1. HEADER - 1 \in Nat
      BY Dimensions
    <3>. QED BY <3>1, Cells, TimesIs
  <2>3. PICK t \in Seq(CellType) : t = <<Nul, Nul>> /\ Len(t) = 2 /\ \A i \in 1 .. 2 : t[i] = Nul
    BY <1>2
  <2>4. /\ T \in Seq(CellType) /\ Len(T) = HEADER + 1 /\ DOMAIN T = 1 .. HEADER + 1
        /\ \A i \in 1 .. HEADER + 1 :
             T[i] = IF i <= HEADER - 1 THEN s[i] ELSE t[i - (HEADER - 1)]
    <3>1. T = s \o t
      BY <2>1, <2>2, <2>3
    <3>. HIDE DEF CellType
    <3>. QED BY <2>2, <2>3, <3>1, Dimensions, ConcatProperties, LenProperties
  <2>. QED BY <1>3, <1>6, <2>2, <2>3, <2>4, Dimensions
<1>7. CASE code = "GET_REQUEST" /\ read # -1
  <2>1. T = Times(Cell("head", c), HEADER) \o Times(Cell("file", path), read) \o <<Nul>>
    BY <1>7 DEF answer_text
  <2>2. PICK s \in Seq(CellType) : /\ s = Times(Cell("head", c), HEADER) /\ Len(s) = HEADER
                                   /\ \A i \in 1 .. HEADER : s[i] = Cell("head", c)
    BY Cells, TimesIs, Dimensions
  <2>3. read \in Nat /\ path \in File \union {Far}
    BY <1>7, Dimensions
  <2>4. PICK t \in Seq(CellType) : /\ t = Times(Cell("file", path), read) /\ Len(t) = read
                                   /\ \A i \in 1 .. read : t[i] = Cell("file", path)
    BY <2>3, Cells, TimesIs
  <2>5. PICK u \in Seq(CellType) : u = <<Nul>> /\ Len(u) = 1 /\ u[1] = Nul
    BY <1>2
  <2>6. PICK v : v = s \o t
    OBVIOUS
  <2>7. /\ v \in Seq(CellType) /\ Len(v) = HEADER + read
        /\ \A i \in 1 .. HEADER + read : v[i] = IF i <= HEADER THEN s[i] ELSE t[i - HEADER]
    <3>. HIDE DEF CellType
    <3>1. Len(s) + Len(t) = HEADER + read
      BY <2>2, <2>4
    <3>. QED BY <2>2, <2>6, <3>1, ConcatProperties
  <2>8. /\ T \in Seq(CellType) /\ Len(T) = (HEADER + read) + 1
        /\ DOMAIN T = 1 .. (HEADER + read) + 1
        /\ \A i \in 1 .. (HEADER + read) + 1 :
             T[i] = IF i <= HEADER + read THEN v[i] ELSE u[i - (HEADER + read)]
    <3>1. T = v \o u
      BY <2>1, <2>2, <2>4, <2>5, <2>6
    <3>2. Len(v) + Len(u) = (HEADER + read) + 1
      BY <2>5, <2>7
    <3>. HIDE DEF CellType
    <3>3. /\ T \in Seq(CellType) /\ Len(T) = (HEADER + read) + 1
          /\ \A i \in 1 .. (HEADER + read) + 1 :
               T[i] = IF i <= HEADER + read THEN v[i] ELSE u[i - (HEADER + read)]
      BY <2>5, <2>7, <3>1, <3>2, ConcatProperties
    <3>. QED BY <3>3, LenProperties
  <2>9. \A i \in 1 .. HEADER : T[i] = Cell("head", c)
    <3>. SUFFICES ASSUME NEW i \in 1 .. HEADER PROVE T[i] = Cell("head", c)
      OBVIOUS
    <3>1. /\ i \in 1 .. HEADER + read /\ i <= HEADER + read /\ i <= HEADER
          /\ i \in 1 .. (HEADER + read) + 1
      BY <2>3, Dimensions
    <3>2. T[i] = v[i]
      BY <2>8, <3>1
    <3>3. v[i] = s[i]
      BY <2>7, <3>1
    <3>. QED BY <2>2, <3>2, <3>3
  <2>10. \A i \in 1 .. read : T[HEADER + i] = Cell("file", path)
    <3>. QED BY <2>3, <2>4, <2>7, <2>8, Dimensions
  <2>11. T[(HEADER + read) + 1] = Nul
    <3>. QED BY <2>3, <2>5, <2>8, Dimensions
  <2>12. \A i \in DOMAIN T : T[i].tag # "request"
    <3>. SUFFICES ASSUME NEW i \in DOMAIN T PROVE T[i].tag # "request"
      OBVIOUS
    <3>1. i \in 1 .. (HEADER + read) + 1 /\ HEADER \in Nat
      BY <2>8, Dimensions
    <3>2. i \in 1 .. HEADER \/ i - HEADER \in 1 .. read \/ i = (HEADER + read) + 1
      BY <2>3, <3>1
    <3>3. i = HEADER + (i - HEADER)
      BY <3>1
    <3>. QED BY <1>3, <2>9, <2>10, <2>11, <3>2, <3>3
  <2>. QED BY <1>7, <2>8, <2>9, <2>10, <2>12
<1>. QED BY <1>4, <1>5, <1>6, <1>7 DEF Codes

(* What is sent is what the buffer begins with, if it is no longer.        *)
LEMMA ReadFromIs ==
  ASSUME mem \in [Address -> CellType], NEW b \in Bid, NEW n \in Nat
  PROVE  /\ ReadFrom(Base(b), n) \in Seq(CellType) /\ Len(ReadFrom(Base(b), n)) = n
         /\ n <= BUF => \A i \in 1 .. n : ReadFrom(Base(b), n)[i] = mem[Base(b) + i - 1]
<1>0. PICK r : r = ReadFrom(Base(b), n)
  OBVIOUS
<1>1. r \in [1 .. n -> CellType]
  <2>1. Raw \in CellType
    BY Cells
  <2>. HIDE DEF CellType, Raw
  <2>. QED BY <1>0, <2>1 DEF ReadFrom
<1>2. \A i \in 1 .. n : n <= BUF => r[i] = mem[Base(b) + i - 1]
  <2>. SUFFICES ASSUME NEW i \in 1 .. n, n <= BUF PROVE r[i] = mem[Base(b) + i - 1]
    OBVIOUS
  <2>1. Base(b) + i - 1 \in Address
    BY InAddress, Dimensions
  <2>. QED BY <1>0, <2>1 DEF ReadFrom
<1>. HIDE DEF CellType
<1>3. r \in Seq(CellType) /\ Len(r) = n
  BY <1>1
<1>. QED BY <1>0, <1>2, <1>3

(* A connection that holds a buffer holds one, and it is BufferOf it.      *)
LEMMA Owner ==
  ASSUME PoolInv, NEW c \in Client, stage[c] \in Holding
  PROVE  /\ BufferOf(c) \in Bid /\ Holds(c, BufferOf(c))
         /\ \A b \in Bid : Holds(c, b) => b = BufferOf(c)
<1>1. \E b \in Bid : owner[b] = c /\ b \notin released
  BY DEF PoolInv, Holds
<1>2. BufferOf(c) \in Bid /\ owner[BufferOf(c)] = c /\ BufferOf(c) \notin released
  BY <1>1 DEF BufferOf
<1>. HIDE DEF BufferOf
<1>. QED BY <1>2 DEF PoolInv, Holds

(* What a step of c in buffer b leaves as it is for the other connections. *)
OthersStay(c) ==
  \A d \in Client : d # c =>
    /\ stage'[d] = stage[d] /\ res'[d] = res[d] /\ request'[d] = request[d]
    /\ answer'[d] = answer[d] /\ sent'[d] = sent[d]

SamePlace(b) ==
  \A d \in Bid, i \in 1 .. BUF :
    d # b => mem'[Base(d) + i - 1] = mem[Base(d) + i - 1]

(* What is read of a file: at most a buffer, and -1 of a directory.        *)
LEMMA FilesRead ==
  ASSUME NEW st \in FileState
  PROVE  /\ st.size \in Nat /\ bytes_read(st) \in -1 .. BUF
         /\ st.kind \in {"regular", "absent", "directory"}
         /\ bytes_read(st) = -1 <=> st.kind = "directory"
         /\ st.kind # "directory" /\ st.size <= BUF => bytes_read(st) = st.size
         /\ bytes_read(st) <= st.size
         /\ bytes_read(st) # st.size /\ st.kind # "directory" => bytes_read(st) = BUF
<1>1. st.size \in Nat /\ st.kind \in {"regular", "absent", "directory"}
  <2>1. CASE st \in [kind : {"regular"}, size : Sizes]
    BY <2>1, MemoryAssumption
  <2>2. CASE st \in [kind : {"absent", "directory"}, size : {0}]
    BY <2>2
  <2>. QED BY <2>1, <2>2 DEF FileState, FileStates
<1>2. BUF \in Nat
  BY Dimensions
<1>. QED BY <1>1, <1>2 DEF bytes_read

(* The text that a connection's answer is.                                 *)
LEMMA TextIs ==
  ASSUME TypeOK, StageInv, NEW c \in Client, answer[c].code # "none", NEW T, T = TextFor(c)
  PROVE  /\ IsText(T, answer[c].code, c, answer[c].path, bytes_read(answer[c].got))
         /\ T \in Seq(CellType) /\ DOMAIN T = 1 .. Len(T)
         /\ bytes_read(answer[c].got) \in -1 .. BUF
<1>1. /\ answer[c].code \in Codes /\ answer[c].path \in File \union {Far, None}
      /\ answer[c].got \in FileState
  BY DEF TypeOK
<1>2. answer[c].code = "GET_REQUEST" => answer[c].path # None
  BY DEF StageInv, StageOf
<1>3. bytes_read(answer[c].got) \in -1 .. BUF
  BY <1>1, FilesRead
<1>4. IsText(T, answer[c].code, c, answer[c].path, bytes_read(answer[c].got))
  BY <1>1, <1>2, <1>3, AnswerText DEF TextFor
<1>. QED BY <1>3, <1>4 DEF IsText

(* A step of c inside its buffer leaves the others' contents as they are.  *)
LEMMA OthersContents ==
  ASSUME TypeOK, StageInv, ContentsInv, NEW c \in Client, NEW b \in Bid, ~strayed,
         OthersStay(c), SamePlace(b),
         \A d \in Client, e \in Bid : d # c /\ (Holds(d, e))' => e # b /\ Holds(d, e),
         NEW d \in Client, d # c
  PROVE  (ContentsOf(d))'
<1>1. stage'[d] = stage[d] /\ res'[d] = res[d] /\ answer'[d] = answer[d]
  BY DEF OthersStay
<1>2. PICK T : T = TextFor(d)
  OBVIOUS
<1>3. T = (TextFor(d))'
  BY <1>1, <1>2 DEF TextFor
<1>4. Finished(d) <=> (Finished(d))'
  BY <1>1 DEF Finished
<1>5. Finished(d) => Len(T) <= BUF
  BY <1>2 DEF ContentsInv, ContentsOf
<1>6. (Finished(d) => Len(TextFor(d)) <= BUF)'
  BY <1>3, <1>4, <1>5
<1>7. ASSUME NEW e \in Bid, (Holds(d, e))'
      PROVE  /\ (stage[d] = "received" /\ res[d] > 0 => mem[Base(e)] = Cell("request", d))'
             /\ (stage[d] = "sending" => Contains(e, TextFor(d)))'
  <2>1. e # b /\ Holds(d, e)
    BY <1>7
  <2>2. /\ stage[d] = "received" /\ res[d] > 0 => mem[Base(e)] = Cell("request", d)
        /\ stage[d] = "sending" => Contains(e, T)
    BY <1>2, <2>1 DEF ContentsInv, ContentsOf
  <2>3. \A i \in 1 .. BUF : mem'[Base(e) + i - 1] = mem[Base(e) + i - 1]
    BY <2>1 DEF SamePlace
  <2>4. mem'[Base(e)] = mem[Base(e)]
    <3>1. 1 \in 1 .. BUF /\ Base(e) + 1 - 1 = Base(e)
      BY Dimensions, InAddress
    <3>. QED BY <2>3, <3>1
  <2>5. ASSUME stage[d] = "sending" PROVE (Contains(e, TextFor(d)))'
    <3>1. Len(T) <= BUF /\ answer[d].code # "none"
      BY <1>5, <2>5 DEF Finished, StageInv, StageOf, Answered
    <3>2. DOMAIN T = 1 .. Len(T) /\ Len(T) \in Nat
      BY <1>2, <3>1, TextIs, LenProperties
    <3>3. \A i \in DOMAIN T : i \in 1 .. BUF
      BY <3>1, <3>2, Dimensions
    <3>4. \A i \in DOMAIN T : mem'[Base(e) + i - 1] = T[i]
      BY <2>2, <2>3, <2>5, <3>3 DEF Contains
    <3>. QED BY <1>3, <3>4 DEF Contains, Base
  <2>. QED BY <1>1, <2>2, <2>4, <2>5 DEF Base, Cell
<1>. QED BY <1>6, <1>7 DEF ContentsOf

(* Nothing is lent, and nothing in memory, at the start.                   *)
LEMMA InitIInv == Init => IInv
<1>. SUFFICES ASSUME Init PROVE IInv
  OBVIOUS
<1>. USE DEF Init
<1>1. TypeOK
  <2>1. Raw \in CellType
    BY Cells
  <2>2. mem \in [Address -> CellType]
    <3>. HIDE DEF CellType, Raw
    <3>. QED BY <2>1
  <2>3. NoAnswer \in [code : Codes \union {"none"}, path : File \union {Far, None},
                      st : FileState, got : FileState]
    BY DEF NoAnswer, Nothing, FileState, FileStates
  <2>4. answer \in [Client -> [code : Codes \union {"none"}, path : File \union {Far, None},
                               st : FileState, got : FileState]]
    <3>. HIDE DEF FileState, NoAnswer, Codes
    <3>. QED BY <2>3
  <2>5. sent \in [Client -> Seq(CellType)]
    <3>. HIDE DEF CellType
    <3>. QED OBVIOUS
  <2>6. Lending!TypeOK
    BY DEF Lending!Init, Lending!TypeOK
  <2>7. res \in [Client -> -ERRNO .. BUF]
    BY Dimensions
  <2>8. proc \in {"up", "killed"} /\ strayed \in BOOLEAN /\ serving \in Client \union {None}
        /\ request \in [Client -> Request \union {None}] /\ stage \in [Client -> Stages]
    BY DEF Stages
  <2>. QED BY <2>2, <2>4, <2>5, <2>6, <2>7, <2>8 DEF TypeOK
<1>2. PoolInv
  BY MemoryAssumption DEF PoolInv, Lending!Init, Holds, Holding
<1>3. StageInv
  BY MemoryAssumption, Dimensions DEF StageInv, StageOf, Answered, Finished, NoAnswer
<1>4. RequestInv
  BY DEF RequestInv, Raw, Cell
<1>5. ContentsInv
  BY DEF ContentsInv, ContentsOf, Finished
<1>6. StrayInv /\ SentInv /\ KilledOnlyWhen
  BY DEF StrayInv, SentInv, KilledOnlyWhen
<1>7. AnswerIntact
  BY DEF AnswerIntact
<1>8. AnsweredAsAsked
  BY DEF AnsweredAsAsked, NoAnswer
<1>. QED BY <1>1, <1>2, <1>3, <1>4, <1>5, <1>6, <1>7, <1>8 DEF IInv

--------------------------------------------------------------------------------
(* A buffer is lent to a connection that reads.                            *)
LEMMA LendStep ==
  ASSUME TypeOK, PoolInv, NEW c \in Client, NEW b \in Bid, stage[c] = "reading",
         Lending!Lend(c, b), stage' = [stage EXCEPT ![c] = "received"]
  PROVE  /\ (Lending!TypeOK)' /\ PoolInv' /\ stage' \in [Client -> Stages]
         /\ stage'[c] = "received" /\ (Holds(c, b))'
         /\ \A e \in Bid : (Holds(c, e))' => e = b
         /\ \A d \in Client, e \in Bid : d # c /\ (Holds(d, e))' => e # b /\ Holds(d, e)
<1>1. /\ owner \in [Bid -> Client \union {None}] /\ released \subseteq Bid
      /\ stage \in [Client -> Stages]
  BY DEF TypeOK, Lending!TypeOK
<1>2. /\ owner[b] = None /\ owner' = [owner EXCEPT ![b] = c] /\ released' = released
      /\ \A d \in Bid : owner[d] = c => d \in released
  BY DEF Lending!Lend
<1>3. b \notin released
  BY <1>2 DEF PoolInv
<1>4. (Holds(c, b))'
  BY <1>1, <1>2, <1>3 DEF Holds
<1>5. \A e \in Bid : (Holds(c, e))' => e = b
  BY <1>1, <1>2, <1>3 DEF Holds
<1>6. \A d \in Client, e \in Bid : d # c /\ (Holds(d, e))' => e # b /\ Holds(d, e)
  BY <1>1, <1>2, <1>3 DEF Holds
<1>7. \A d \in Client, e \in Bid : d # c /\ Holds(d, e) => (Holds(d, e))'
  BY <1>1, <1>2, <1>3, MemoryAssumption DEF Holds
<1>8. stage' \in [Client -> Stages] /\ stage'[c] = "received"
      /\ \A d \in Client : d # c => stage'[d] = stage[d]
  BY <1>1 DEF Stages
<1>9. (Lending!TypeOK)'
  BY <1>1, <1>2 DEF Lending!TypeOK
<1>10. PoolInv'
  <2>1. \A e \in released' : owner'[e] # None
    BY <1>1, <1>2, <1>3 DEF PoolInv
  <2>2. \A d \in Client, e \in Bid : (Holds(d, e))' => stage'[d] \in Holding
    BY <1>6, <1>8 DEF PoolInv, Holding
  <2>3. \A d \in Client : stage'[d] \in Holding => \E e \in Bid : (Holds(d, e))'
    BY <1>4, <1>7, <1>8 DEF PoolInv
  <2>4. \A d \in Client, e, f \in Bid : (Holds(d, e))' /\ (Holds(d, f))' => e = f
    BY <1>5, <1>6 DEF PoolInv
  <2>. QED BY <2>1, <2>2, <2>3, <2>4 DEF PoolInv
<1>. QED BY <1>4, <1>5, <1>6, <1>8, <1>9, <1>10

(* What AnswerIntact says of one connection, when it gets out.             *)
SentAs(c, out) ==
  CASE answer[c].code = "BAD_REQUEST" -> out = Times(Cell("400", None), LONG)
    [] answer[c].code = "NO_FOUND" ->
         Len(out) = LONG /\ \A i \in 1 .. SHORT : out[i] = Cell("404", None)
    [] answer[c].code = "GET_REQUEST" /\ answer[c].got.kind = "regular" ->
         out = Times(Cell("head", c), HEADER)
                 \o Times(Cell("file", answer[c].path), answer[c].got.size)
    [] OTHER -> TRUE

SentWhole(c) == SentAs(c, sent[c])

(* What stays true of the other connections when c's step strays no        *)
(* further and sends nothing.                                              *)
LEMMA ReadStep ==
  ASSUME IInv, NEW c \in Client, stage[c] = "reading", OthersStay(c), strayed' = strayed,
         stage'[c] = "received", answer'[c] = answer[c], UNCHANGED <<proc, serving>>, proc = "up"
  PROVE  StrayInv' /\ SentInv' /\ KilledOnlyWhen' /\ AnswerIntact' /\ AnsweredAsAsked'
<1>1. /\ answer[c] = NoAnswer /\ res[c] = 0
  BY DEF IInv, StageInv, StageOf, Answered
<1>2. StrayInv'
  <2>1. /\ res[c] \in 0 .. BUF - 1 /\ ~Finished(c) /\ answer[c].path # Far
    BY <1>1, Dimensions, HttpAssumption DEF NoAnswer, Finished
  <2>. QED BY <2>1 DEF IInv, StrayInv, OthersStay, Finished
<1>3. SentInv'
  BY DEF IInv, SentInv, OthersStay
<1>4. AnswerIntact'
  <2>. SUFFICES ASSUME ~strayed, NEW d \in Client, d # c, stage[d] = "sent"
                PROVE  (SentWhole(d))'
    BY DEF AnswerIntact, SentWhole, SentAs, OthersStay
  <2>. QED BY DEF IInv, AnswerIntact, SentWhole, SentAs, OthersStay
<1>5. AnsweredAsAsked'
  BY <1>1 DEF IInv, AnsweredAsAsked, OthersStay, NoAnswer
<1>. QED BY <1>2, <1>3, <1>4, <1>5 DEF KilledOnlyWhen

(* A request arrives in a buffer of its own.                               *)
LEMMA ReceiveStep ==
  ASSUME IInv, NEW c \in Client, NEW b \in Bid, Receive(c, b)
  PROVE  IInv'
<1>. PICK t \in Request, n \in Lengths :
       /\ request' = [request EXCEPT ![c] = t]
       /\ res' = [res EXCEPT ![c] = n]
       /\ Store(b, Base(b), Times(Cell("request", c), n))
  BY DEF Receive
<1>1. /\ proc = "up" /\ stage[c] = "reading" /\ Lending!Lend(c, b)
      /\ stage' = [stage EXCEPT ![c] = "received"]
      /\ UNCHANGED <<proc, serving, answer, sent>>
  BY DEF Receive
<1>2. n \in 1 .. BUF /\ n \in Nat
  BY MemoryAssumption, Dimensions
<1>3. PICK cells : cells = Times(Cell("request", c), n)
  OBVIOUS
<1>4. /\ cells \in Seq(CellType) /\ Len(cells) = n /\ DOMAIN cells = 1 .. n
      /\ \A i \in 1 .. n : cells[i] = Cell("request", c)
  <2>. HIDE DEF CellType, Cell
  <2>. QED BY <1>2, <1>3, Cells, TimesIs
<1>5. Inside(b, Base(b), cells) /\ Base(b) \in Int
  BY <1>2, <1>4, InAddress, Dimensions DEF Inside
<1>6. mem' = Written(Base(b), cells) /\ strayed' = strayed
  <2>1. strayed \in BOOLEAN
    BY DEF IInv, TypeOK
  <2>. QED BY <1>3, <1>5, <2>1 DEF Store
<1>7. /\ (Lending!TypeOK)' /\ PoolInv' /\ stage' \in [Client -> Stages]
      /\ stage'[c] = "received" /\ (Holds(c, b))'
      /\ \A e \in Bid : (Holds(c, e))' => e = b
      /\ \A d \in Client, e \in Bid : d # c /\ (Holds(d, e))' => e # b /\ Holds(d, e)
  BY <1>1, LendStep DEF IInv
<1>8. TypeOK'
  <2>1. mem' \in [Address -> CellType]
    BY <1>4, <1>5, <1>6, WrittenType DEF IInv, TypeOK
  <2>2. request' \in [Client -> Request \union {None}] /\ res' \in [Client -> -ERRNO .. BUF]
    <3>1. n \in -ERRNO .. BUF
      BY <1>2, Dimensions
    <3>. QED BY <3>1 DEF IInv, TypeOK
  <2>. QED BY <1>1, <1>6, <1>7, <2>1, <2>2 DEF IInv, TypeOK
<1>9. /\ OthersStay(c) /\ request'[c] = t /\ res'[c] = n
  BY <1>1 DEF IInv, TypeOK, OthersStay
<1>10. StageInv'
  <2>. SUFFICES ASSUME NEW d \in Client PROVE (StageOf(d))'
    BY DEF StageInv
  <2>1. CASE d = c
    BY <1>1, <1>7, <1>9, <2>1 DEF IInv, StageInv, StageOf, Answered, Finished
  <2>2. CASE d # c
    BY <1>1, <1>9, <2>2 DEF IInv, StageInv, StageOf, OthersStay, Answered, Finished
  <2>. QED BY <2>1, <2>2
<1>11. RequestInv'
  <2>. SUFFICES ASSUME NEW x \in Address, mem'[x].tag = "request"
                PROVE  request'[mem'[x].of] \in Request
    BY DEF RequestInv
  <2>1. mem'[x] = mem[x] \/ mem'[x] = Cell("request", c)
    BY <1>4, <1>5, <1>6, WrittenType DEF IInv, TypeOK
  <2>2. mem[x].tag = "request" => mem[x].of \in Client /\ request[mem[x].of] \in Request
    <3>1. mem[x] \in CellType
      BY DEF IInv, TypeOK
    <3>2. mem[x].tag = "request" => mem[x].of \in Client
      BY <3>1 DEF CellType
    <3>. QED BY <3>2 DEF IInv, RequestInv
  <2>3. Cell("request", c).of = c
    BY DEF Cell
  <2>4. \A d \in Client : request[d] \in Request => request'[d] \in Request
    BY <1>9 DEF OthersStay
  <2>. QED BY <1>9, <2>1, <2>2, <2>3, <2>4
<1>12. ContentsInv'
  <2>. SUFFICES ASSUME ~strayed PROVE \A d \in Client : (ContentsOf(d))'
    BY <1>6 DEF ContentsInv, ContentsOf
  <2>1. SamePlace(b)
    BY <1>4, <1>5, <1>6, WrittenElsewhere DEF SamePlace
  <2>2. ASSUME NEW d \in Client, d # c PROVE (ContentsOf(d))'
    BY <1>7, <1>9, <2>1, <2>2, OthersContents DEF IInv
  <2>3. (Finished(c) => Len(TextFor(c)) <= BUF)'
    BY <1>7 DEF Finished
  <2>4. mem'[Base(b)] = Cell("request", c)
    <3>1. \A i \in DOMAIN cells : mem'[Base(b) + i - 1] = cells[i]
      BY <1>2, <1>4, <1>6, WrittenHere
    <3>2. 1 \in DOMAIN cells /\ Base(b) + 1 - 1 = Base(b) /\ cells[1] = Cell("request", c)
      BY <1>2, <1>4, InAddress
    <3>. QED BY <3>1, <3>2
  <2>5. ASSUME NEW e \in Bid, (Holds(c, e))'
        PROVE  /\ (stage[c] = "received" /\ res[c] > 0 => mem[Base(e)] = Cell("request", c))'
               /\ (stage[c] = "sending" => Contains(e, TextFor(c)))'
    BY <1>7, <2>4, <2>5 DEF Base, Cell
  <2>. QED BY <2>2, <2>3, <2>5 DEF ContentsOf
<1>13. StrayInv' /\ SentInv' /\ KilledOnlyWhen' /\ AnswerIntact' /\ AnsweredAsAsked'
  BY <1>1, <1>6, <1>7, <1>9, ReadStep
<1>. QED BY <1>7, <1>8, <1>10, <1>11, <1>12, <1>13 DEF IInv

(* The read fails or ends; the buffer keeps what it held.                  *)
LEMMA ReceiveNothingStep ==
  ASSUME IInv, NEW c \in Client, NEW b \in Bid, ReceiveNothing(c, b)
  PROVE  IInv'
<1>. PICK n \in {0, -ERRNO} : res' = [res EXCEPT ![c] = n]
  BY DEF ReceiveNothing
<1>1. /\ proc = "up" /\ stage[c] = "reading" /\ Lending!Lend(c, b)
      /\ stage' = [stage EXCEPT ![c] = "received"]
      /\ UNCHANGED <<proc, mem, strayed, request, serving, answer, sent>>
  BY DEF ReceiveNothing
<1>2. n \in -ERRNO .. BUF /\ ~(n > 0)
  BY Dimensions
<1>7. /\ (Lending!TypeOK)' /\ PoolInv' /\ stage' \in [Client -> Stages]
      /\ stage'[c] = "received" /\ (Holds(c, b))'
      /\ \A e \in Bid : (Holds(c, e))' => e = b
      /\ \A d \in Client, e \in Bid : d # c /\ (Holds(d, e))' => e # b /\ Holds(d, e)
  BY <1>1, LendStep DEF IInv
<1>8. TypeOK'
  BY <1>1, <1>2, <1>7 DEF IInv, TypeOK
<1>9. /\ OthersStay(c) /\ res'[c] = n
  BY <1>1 DEF IInv, TypeOK, OthersStay
<1>10. StageInv'
  <2>. SUFFICES ASSUME NEW d \in Client PROVE (StageOf(d))'
    BY DEF StageInv
  <2>1. CASE d = c
    BY <1>1, <1>2, <1>7, <1>9, <2>1 DEF IInv, StageInv, StageOf, Answered, Finished
  <2>2. CASE d # c
    BY <1>1, <1>9, <2>2 DEF IInv, StageInv, StageOf, OthersStay, Answered, Finished
  <2>. QED BY <2>1, <2>2
<1>11. RequestInv'
  BY <1>1 DEF IInv, RequestInv
<1>12. ContentsInv'
  <2>. SUFFICES ASSUME ~strayed PROVE \A d \in Client : (ContentsOf(d))'
    BY <1>1 DEF ContentsInv, ContentsOf
  <2>1. SamePlace(b)
    BY <1>1 DEF SamePlace
  <2>2. ASSUME NEW d \in Client, d # c PROVE (ContentsOf(d))'
    BY <1>7, <1>9, <2>1, <2>2, OthersContents DEF IInv
  <2>3. (Finished(c) => Len(TextFor(c)) <= BUF)'
    BY <1>7 DEF Finished
  <2>5. ASSUME NEW e \in Bid, (Holds(c, e))'
        PROVE  /\ (stage[c] = "received" /\ res[c] > 0 => mem[Base(e)] = Cell("request", c))'
               /\ (stage[c] = "sending" => Contains(e, TextFor(c)))'
    BY <1>2, <1>7, <1>9 DEF Base, Cell
  <2>. QED BY <2>2, <2>3, <2>5 DEF ContentsOf
<1>13. StrayInv' /\ SentInv' /\ KilledOnlyWhen' /\ AnswerIntact' /\ AnsweredAsAsked'
  BY <1>1, <1>7, <1>9, ReadStep
<1>. QED BY <1>7, <1>8, <1>10, <1>11, <1>12, <1>13 DEF IInv

(* The text that is parsed is one, and what comes of it.                   *)
LEMMA TextsType ==
  ASSUME NEW cell \in CellType, cell.tag = "request" => request[cell.of] \in Request
  PROVE  TextsAt(cell) \subseteq Text
<1>1. Line("other", Slash) \in Text /\ Line("none", None) \in Text /\ Request \subseteq Text
  BY DEF Text, Request
<1>2. cell.tag \in {"request", "head", "file", "400", "404", "nul", "raw"}
  BY DEF CellType
<1>. HIDE DEF Text, Request, Line, CellType
<1>. QED BY <1>1, <1>2 DEF TextsAt

(* What parse_request makes of a text that does not kill the process.      *)
LEMMA Parsed ==
  ASSUME NEW text \in Text, ~Crashes(text), NEW st \in Found(text)
  PROVE  /\ parse_request(text, st) \in Codes /\ parse_request(text, st) # "none"
         /\ final_path(text) \in File \union {Far, None}
         /\ st \in FileState
         /\ parse_request(text, st) \in {"GET_REQUEST", "NO_FOUND"} => final_path(text) # None
         /\ parse_request(text, st) = "GET_REQUEST" => st.kind = "regular"
         /\ parse_request(text, st) = "BAD_REQUEST" <=> text.method # "get"
         /\ Overflows(text) => final_path(text) = Far
<1>1. st \in FileState
  BY DEF Found, Nothing, FileState, FileStates
<1>2. text.path \in File \union {Slash, Far, None}
  BY DEF Text, Request, Line
<1>3. final_path(text) \in File \union {Far, None}
  BY <1>2, HttpAssumption DEF final_path
<1>4. text.method = "get" => final_path(text) # None
  BY <1>2, HttpAssumption DEF final_path, Crashes
<1>5. Overflows(text) => final_path(text) = Far
  BY HttpAssumption DEF Overflows, final_path, Line
<1>. HIDE DEF FileState
<1>. QED BY <1>1, <1>3, <1>4, <1>5 DEF parse_request, Codes

(* The connection whose answer is made holds the buffer it is made in.     *)
LEMMA ResumeStep ==
  ASSUME IInv, NEW c \in Client, Resume(c)
  PROVE  IInv'
<1>1. PICK b \in Bid : b = BufferOf(c) /\ Holds(c, b) /\ \A e \in Bid : Holds(c, e) => e = b
  BY Owner DEF Resume, IInv, Holding
<1>2. PICK a : a = Base(b) + res[c]
  OBVIOUS
<1>3. /\ proc = "up" /\ serving = None /\ stage[c] = "received"
      /\ mem' = Written(a, <<Nul>>)
      /\ UNCHANGED <<owner, released, request, res, sent>>
  BY <1>1, <1>2 DEF Resume, terminator, poolVars
<1>0. PICK text \in TextsAt(mem'[Base(b)]) : \E st \in Found(text) :
           \/ /\ Crashes(text) \/ Overflows(text)
              /\ proc' = "killed" /\ strayed' = (strayed \/ ~Inside(b, a, <<Nul>>))
              /\ UNCHANGED <<stage, serving, answer>>
           \/ /\ ~Crashes(text)
              /\ stage' = [stage EXCEPT ![c] = "served"]
              /\ serving' = c
              /\ answer' = [answer EXCEPT
                   ![c] = [code |-> parse_request(text, st),
                           path |-> final_path(text), st |-> st, got |-> st]]
              /\ strayed' = (strayed \/ ~Inside(b, a, <<Nul>>) \/ Overflows(text))
              /\ UNCHANGED proc
  BY <1>1, <1>2 DEF Resume, terminator
<1>4. PICK st \in Found(text) :
           \/ /\ Crashes(text) \/ Overflows(text)
              /\ proc' = "killed" /\ strayed' = (strayed \/ ~Inside(b, a, <<Nul>>))
              /\ UNCHANGED <<stage, serving, answer>>
           \/ /\ ~Crashes(text)
              /\ stage' = [stage EXCEPT ![c] = "served"]
              /\ serving' = c
              /\ answer' = [answer EXCEPT
                   ![c] = [code |-> parse_request(text, st),
                           path |-> final_path(text), st |-> st, got |-> st]]
              /\ strayed' = (strayed \/ ~Inside(b, a, <<Nul>>) \/ Overflows(text))
              /\ UNCHANGED proc
  BY <1>0
<1>5. /\ res[c] \in Int /\ Base(b) \in Nat /\ a \in Int /\ strayed \in BOOLEAN
      /\ res[c] > 0 \/ res[c] = 0 \/ res[c] < 0
  <2>1. res[c] \in -ERRNO .. BUF
    BY DEF IInv, TypeOK
  <2>. QED BY <1>2, <2>1, InAddress, Dimensions DEF IInv, TypeOK
<1>6. <<Nul>> \in Seq(CellType) /\ Len(<<Nul>>) = 1 /\ <<Nul>>[1] = Nul
      /\ DOMAIN <<Nul>> = 1 .. 1
  BY Cells
<1>7. Inside(b, a, <<Nul>>) <=> res[c] \in 0 .. BUF - 1
  BY <1>2, <1>5, <1>6, Dimensions DEF Inside
<1>8. /\ mem' \in [Address -> CellType]
      /\ \A x \in Address : mem'[x] = mem[x] \/ mem'[x] = Nul
  <2>1. mem \in [Address -> CellType]
    BY DEF IInv, TypeOK
  <2>2. /\ Written(a, <<Nul>>) \in [Address -> CellType]
        /\ \A x \in Address : \/ Written(a, <<Nul>>)[x] = mem[x]
                              \/ \E i \in DOMAIN <<Nul>> : Written(a, <<Nul>>)[x] = <<Nul>>[i]
    <3>1. <<Nul>> \in Seq(CellType) /\ a \in Int
      BY <1>5, <1>6
    <3>. QED BY ONLY <2>1, <3>1, WrittenType
  <2>3. \A i \in DOMAIN <<Nul>> : <<Nul>>[i] = Nul
    BY <1>6
  <2>. HIDE DEF CellType, Nul
  <2>. QED BY <1>3, <2>2, <2>3
<1>9. RequestInv'
  BY <1>3, <1>8 DEF IInv, RequestInv, Nul, Cell
<1>10. text \in Text
  <2>1. Base(b) \in Address
    <3>1. 1 \in 1 .. BUF /\ Base(b) + 1 - 1 = Base(b)
      BY <1>5, Dimensions
    <3>. QED BY <3>1, InAddress
  <2>2. mem'[Base(b)] \in CellType
    BY <1>8, <2>1
  <2>3. mem'[Base(b)].tag = "request" => request[mem'[Base(b)].of] \in Request
    BY <1>3, <1>9, <2>1 DEF RequestInv
  <2>. QED BY <1>4, <2>2, <2>3, TextsType
<1>11. PoolInv' /\ (Lending!TypeOK)'
  <2>1. (Lending!TypeOK)' /\ \A d \in Client, e \in Bid : (Holds(d, e))' <=> Holds(d, e)
    BY <1>3 DEF IInv, TypeOK, Lending!TypeOK, Holds
  <2>2. \A d \in Client : stage'[d] \in Holding <=> stage[d] \in Holding
    BY <1>3, <1>4 DEF IInv, TypeOK, Holding
  <2>. QED BY <1>3, <2>1, <2>2 DEF IInv, PoolInv
<1>12. OthersStay(c)
  BY <1>3, <1>4 DEF IInv, TypeOK, OthersStay
(* As long as nothing has strayed, the text is what c has sent.            *)
<1>13. ASSUME ~strayed'
       PROVE  /\ ~strayed /\ res[c] \in 0 .. BUF - 1 /\ Inside(b, a, <<Nul>>)
              /\ res[c] > 0 => mem'[Base(b)] = Cell("request", c) /\ text = request[c]
              /\ request[c] \in Request \/ res[c] = 0
  <2>1. ~strayed /\ Inside(b, a, <<Nul>>) /\ res[c] \in 0 .. BUF - 1
    BY <1>4, <1>7, <1>13
  <2>2. ASSUME res[c] > 0
        PROVE  mem'[Base(b)] = Cell("request", c)
    <3>1. mem[Base(b)] = Cell("request", c)
      BY <1>1, <1>3, <2>1, <2>2 DEF IInv, ContentsInv, ContentsOf
    <3>2. Base(b) \in Address /\ Base(b) - a + 1 \notin DOMAIN <<Nul>>
      <4>1. 1 \in 1 .. BUF /\ Base(b) + 1 - 1 = Base(b)
        BY <1>5, Dimensions
      <4>2. Base(b) - a + 1 # 1
        BY <1>2, <1>5, <2>2
      <4>. QED BY <1>6, <4>1, <4>2, InAddress
    <3>. QED BY <1>3, <3>1, <3>2 DEF Written
  <2>3. Cell("request", c).tag = "request" /\ Cell("request", c).of = c
    BY DEF Cell
  <2>4. res[c] > 0 => text = request[c]
    BY <1>0, <2>2, <2>3 DEF TextsAt
  <2>5. res[c] > 0 => request[c] \in Request
    BY <1>3 DEF IInv, StageInv, StageOf
  <2>. QED BY <1>5, <2>1, <2>2, <2>4, <2>5
<1>14. CASE /\ Crashes(text) \/ Overflows(text)
            /\ proc' = "killed" /\ strayed' = (strayed \/ ~Inside(b, a, <<Nul>>))
            /\ UNCHANGED <<stage, serving, answer>>
  <2>1. TypeOK'
    BY <1>3, <1>8, <1>11, <1>14 DEF IInv, TypeOK
  <2>2. StageInv'
    BY <1>3, <1>14 DEF IInv, StageInv, StageOf, Answered, Finished
  <2>3. ContentsInv'
    <3>. SUFFICES ASSUME ~strayed' PROVE \A d \in Client : (ContentsOf(d))'
      BY DEF ContentsInv
    <3>1. SamePlace(b)
      BY <1>3, <1>5, <1>6, <1>13, WrittenElsewhere DEF SamePlace
    <3>2. \A d \in Client, e \in Bid : d # c /\ (Holds(d, e))' => e # b /\ Holds(d, e)
      BY <1>1, <1>3 DEF Holds
    <3>3. ASSUME NEW d \in Client, d # c PROVE (ContentsOf(d))'
      BY <1>12, <1>13, <3>1, <3>2, <3>3, OthersContents DEF IInv
    <3>4. (ContentsOf(c))'
      <4>1. ASSUME NEW e \in Bid, (Holds(c, e))' PROVE e = b
        BY <1>1, <1>3, <4>1 DEF Holds
      <4>. QED BY <1>3, <1>13, <1>14, <4>1 DEF ContentsOf, Finished, Base, Cell
    <3>. QED BY <3>3, <3>4
  <2>4. StrayInv'
    BY <1>3, <1>7, <1>14 DEF IInv, StrayInv, Finished
  <2>5. SentInv' /\ AnswerIntact' /\ AnsweredAsAsked'
    <3>1. SentInv'
      BY <1>3, <1>14 DEF IInv, SentInv
    <3>2. AnswerIntact'
      BY <1>3, <1>14 DEF IInv, AnswerIntact
    <3>3. AnsweredAsAsked'
      BY <1>3, <1>14 DEF IInv, AnsweredAsAsked
    <3>. QED BY <3>1, <3>2, <3>3
  <2>6. KilledOnlyWhen'
    <3>. SUFFICES ASSUME ~strayed', res[c] # 0
                  PROVE  request[c] \in {Line("get", None), Line("get", Far)}
      BY <1>3, <1>14 DEF KilledOnlyWhen
    <3>1. text = request[c] /\ text \in Request
      BY <1>5, <1>13
    <3>2. text.path = None /\ text.method = "get" => text = Line("get", None)
      BY <3>1 DEF Request, Line
    <3>3. text.method # "none"
      BY <3>1 DEF Request, Line
    <3>. QED BY <1>14, <3>1, <3>2, <3>3 DEF Crashes, Overflows
  <2>. QED BY <1>9, <1>11, <2>1, <2>2, <2>3, <2>4, <2>5, <2>6 DEF IInv
<1>15. CASE /\ ~Crashes(text)
            /\ stage' = [stage EXCEPT ![c] = "served"]
            /\ serving' = c
            /\ answer' = [answer EXCEPT
                 ![c] = [code |-> parse_request(text, st),
                         path |-> final_path(text), st |-> st, got |-> st]]
            /\ strayed' = (strayed \/ ~Inside(b, a, <<Nul>>) \/ Overflows(text))
            /\ UNCHANGED proc
  <2>1. /\ parse_request(text, st) \in Codes /\ parse_request(text, st) # "none"
        /\ final_path(text) \in File \union {Far, None}
        /\ st \in FileState
        /\ parse_request(text, st) \in {"GET_REQUEST", "NO_FOUND"} => final_path(text) # None
        /\ parse_request(text, st) = "GET_REQUEST" => st.kind = "regular"
        /\ parse_request(text, st) = "BAD_REQUEST" <=> text.method # "get"
        /\ Overflows(text) => final_path(text) = Far
    BY <1>10, <1>15, Parsed
  <2>2. /\ answer'[c].code = parse_request(text, st) /\ answer'[c].path = final_path(text)
        /\ answer'[c].st = st /\ answer'[c].got = st /\ stage'[c] = "served"
    BY <1>15 DEF IInv, TypeOK
  <2>3. TypeOK'
    <3>1. [code |-> parse_request(text, st), path |-> final_path(text), st |-> st, got |-> st]
            \in [code : Codes \union {"none"}, path : File \union {Far, None},
                 st : FileState, got : FileState]
      <4>. HIDE DEF FileState, Codes
      <4>. QED BY <2>1
    <3>2. answer' \in [Client -> [code : Codes \union {"none"}, path : File \union {Far, None},
                                  st : FileState, got : FileState]]
      BY <1>15, <3>1 DEF IInv, TypeOK
    <3>3. stage' \in [Client -> Stages] /\ strayed' \in BOOLEAN
      BY <1>15 DEF IInv, TypeOK, Stages
    <3>. QED BY <1>3, <1>8, <1>11, <1>15, <3>2, <3>3 DEF IInv, TypeOK
  <2>4. StageInv'
    <3>. SUFFICES ASSUME NEW d \in Client PROVE (StageOf(d))'
      BY DEF StageInv
    <3>1. CASE d = c
      BY <1>15, <2>1, <2>2, <3>1 DEF StageOf, Answered, Finished
    <3>2. CASE d # c
      BY <1>3, <1>12, <1>15, <3>2, MemoryAssumption
      DEF IInv, StageInv, StageOf, OthersStay, Answered, Finished
    <3>. QED BY <3>1, <3>2
  <2>5. ContentsInv'
    <3>. SUFFICES ASSUME ~strayed' PROVE \A d \in Client : (ContentsOf(d))'
      BY DEF ContentsInv
    <3>1. SamePlace(b)
      BY <1>3, <1>5, <1>6, <1>13, WrittenElsewhere DEF SamePlace
    <3>2. \A d \in Client, e \in Bid : d # c /\ (Holds(d, e))' => e # b /\ Holds(d, e)
      BY <1>1, <1>3 DEF Holds
    <3>3. ASSUME NEW d \in Client, d # c PROVE (ContentsOf(d))'
      BY <1>12, <1>13, <3>1, <3>2, <3>3, OthersContents DEF IInv
    <3>4. (ContentsOf(c))'
      BY <2>2 DEF ContentsOf, Finished
    <3>. QED BY <3>3, <3>4
  <2>6. StrayInv'
    <3>1. ~Finished(c) /\ answer[c].path # Far
      BY <1>3, HttpAssumption DEF IInv, StageInv, StageOf, Answered, Finished, NoAnswer
    <3>2. CASE strayed
      BY <1>3, <1>12, <3>1, <3>2 DEF IInv, StrayInv, OthersStay, Finished
    <3>3. CASE ~Inside(b, a, <<Nul>>)
      BY <1>3, <1>7, <3>3 DEF StrayInv
    <3>4. CASE Overflows(text)
      BY <2>1, <2>2, <3>4 DEF StrayInv
    <3>. QED BY <1>15, <3>2, <3>3, <3>4 DEF StrayInv
  <2>7. SentInv'
    BY <1>12, <2>2 DEF IInv, SentInv, OthersStay
  <2>8. AnswerIntact'
    <3>. SUFFICES ASSUME ~strayed', NEW d \in Client, d # c, stage[d] = "sent"
                  PROVE  (SentWhole(d))'
      BY <1>12, <2>2 DEF AnswerIntact, SentWhole, SentAs, OthersStay
    <3>. QED BY <1>12, <1>13 DEF IInv, AnswerIntact, SentWhole, SentAs, OthersStay
  <2>9. AnsweredAsAsked'
    <3>. SUFFICES ASSUME ~strayed', NEW d \in Client, answer'[d].code # "none", res'[d] > 0
                  PROVE  /\ answer'[d].code = "BAD_REQUEST" <=> request'[d].method # "get"
                         /\ answer'[d].code # "BAD_REQUEST" =>
                              answer'[d].path = final_path(request'[d])
      BY DEF AnsweredAsAsked, final_path
    <3>1. CASE d = c
      BY <1>3, <1>13, <2>1, <2>2, <3>1
    <3>2. CASE d # c
      BY <1>12, <1>13, <3>2 DEF IInv, AnsweredAsAsked, OthersStay
    <3>. QED BY <3>1, <3>2
  <2>10. KilledOnlyWhen'
    BY <1>3, <1>15 DEF KilledOnlyWhen
  <2>. QED BY <1>9, <1>11, <2>3, <2>4, <2>5, <2>6, <2>7, <2>8, <2>9, <2>10 DEF IInv
<1>. QED BY <1>4, <1>14, <1>15

(* Only the process has ended, or a buffer is back in the pool.            *)
LEMMA StillStep ==
  ASSUME IInv, UNCHANGED <<mem, strayed, request, stage, res, serving, answer, sent>>,
         proc' \in {"up", "killed"}, (Lending!TypeOK)', KilledOnlyWhen',
         \A b \in released' : owner'[b] # None,
         \A c \in Client, b \in Bid : (Holds(c, b))' <=> Holds(c, b)
  PROVE  IInv'
<1>1. TypeOK'
  BY DEF IInv, TypeOK
<1>2. PoolInv'
  BY DEF IInv, PoolInv
<1>3. StageInv' /\ RequestInv'
  BY DEF IInv, StageInv, StageOf, RequestInv, Answered, Finished
<1>4. ContentsInv'
  <2>. SUFFICES ASSUME ~strayed, NEW c \in Client PROVE (ContentsOf(c))'
    BY DEF ContentsInv
  <2>1. ContentsOf(c)
    BY DEF IInv, ContentsInv
  <2>. QED BY <2>1 DEF ContentsOf, Finished, TextFor, Contains, Base, Cell
<1>5. StrayInv' /\ SentInv'
  BY DEF IInv, StrayInv, SentInv, Finished
<1>6. AnswerIntact'
  BY DEF IInv, AnswerIntact
<1>7. AnsweredAsAsked'
  BY DEF IInv, AnsweredAsAsked
<1>. QED BY <1>1, <1>2, <1>3, <1>4, <1>5, <1>6, <1>7 DEF IInv

(* A buffer that was released had no holder.                               *)
LEMMA ProvideStep ==
  ASSUME IInv, NEW b \in Bid, Provide(b)
  PROVE  IInv'
<1>1. /\ proc = "up" /\ b \in released
      /\ owner' = [owner EXCEPT ![b] = None] /\ released' = released \ {b}
      /\ UNCHANGED <<proc, mem, strayed, request, stage, res, serving, answer, sent>>
  BY DEF Provide, Lending!Return
<1>2. owner \in [Bid -> Client \union {None}] /\ released \subseteq Bid
  BY DEF IInv, TypeOK, Lending!TypeOK
<1>3. (Lending!TypeOK)' /\ \A d \in released' : owner'[d] # None
  BY <1>1, <1>2 DEF IInv, PoolInv, Lending!TypeOK
<1>4. \A c \in Client, d \in Bid : (Holds(c, d))' <=> Holds(c, d)
  BY <1>1, <1>2, MemoryAssumption DEF Holds
<1>5. KilledOnlyWhen' /\ proc' \in {"up", "killed"}
  BY <1>1 DEF KilledOnlyWhen
<1>. QED BY <1>1, <1>3, <1>4, <1>5, StillStep

(* The answer is what its buffer begins with, or something strays.         *)
LEMMA RespondStep ==
  ASSUME IInv, NEW c \in Client, Respond(c)
  PROVE  IInv'
<1>1. /\ proc = "up" /\ serving = c /\ UNCHANGED <<owner, released, request, res, sent>>
      /\ stage[c] = "served"
  BY DEF Respond, poolVars, IInv, StageInv, StageOf
<1>2. PICK b \in Bid : b = BufferOf(c) /\ Holds(c, b) /\ \A e \in Bid : Holds(c, e) => e = b
  BY <1>1, Owner DEF IInv, Holding
<1>3. /\ answer[c].code \in Codes /\ answer[c].path \in File \union {Far, None}
      /\ answer[c].st \in FileState /\ answer[c].code # "none"
      /\ answer[c].code = "GET_REQUEST" => answer[c].path # None
  BY <1>1 DEF IInv, TypeOK, StageInv, StageOf, Answered
<1>4. PICK st \in FileState :
        IF answer[c].code = "GET_REQUEST" /\ st.kind = "absent"
        THEN /\ proc' = "killed"
             /\ UNCHANGED <<mem, strayed, answer, stage, serving>>
        ELSE /\ Store(b, Base(b), answer_text(answer[c].code, c, answer[c].path, bytes_read(st)))
             /\ answer' = [answer EXCEPT ![c].got = st]
             /\ stage' = [stage EXCEPT ![c] = "sending"]
             /\ serving' = None
             /\ UNCHANGED proc
  BY <1>2, <1>3 DEF Respond
<1>5. /\ owner \in [Bid -> Client \union {None}] /\ released \subseteq Bid
      /\ \A d \in Client, e \in Bid : (Holds(d, e))' <=> Holds(d, e)
      /\ (Lending!TypeOK)' /\ \A e \in released' : owner'[e] # None
  BY <1>1 DEF IInv, TypeOK, PoolInv, Lending!TypeOK, Holds
<1>6. CASE answer[c].code = "GET_REQUEST" /\ st.kind = "absent"
  <2>1. proc' = "killed" /\ UNCHANGED <<mem, strayed, answer, stage, serving>>
    BY <1>4, <1>6
  <2>2. KilledOnlyWhen'
    BY <1>1, <1>6, <2>1 DEF KilledOnlyWhen
  <2>. QED BY <1>1, <1>5, <2>1, <2>2, StillStep
<1>7. CASE ~(answer[c].code = "GET_REQUEST" /\ st.kind = "absent")
  <2>1. PICK T : T = answer_text(answer[c].code, c, answer[c].path, bytes_read(st))
    OBVIOUS
  <2>2. /\ Store(b, Base(b), T)
        /\ answer' = [answer EXCEPT ![c].got = st]
        /\ stage' = [stage EXCEPT ![c] = "sending"]
        /\ serving' = None /\ proc' = proc
    BY <1>4, <1>7, <2>1
  <2>3. /\ IsText(T, answer[c].code, c, answer[c].path, bytes_read(st))
        /\ bytes_read(st) \in -1 .. BUF
    BY <1>3, <2>1, FilesRead, AnswerText
  <2>4. /\ T \in Seq(CellType) /\ DOMAIN T = 1 .. Len(T) /\ Len(T) \in Nat
        /\ \A i \in DOMAIN T : T[i].tag # "request"
    BY <2>3, LenProperties DEF IsText
  <2>5. /\ answer'[c].code = answer[c].code /\ answer'[c].path = answer[c].path
        /\ answer'[c].st = answer[c].st /\ answer'[c].got = st /\ stage'[c] = "sending"
        /\ T = (TextFor(c))'
    <3>1. /\ answer'[c].code = answer[c].code /\ answer'[c].path = answer[c].path
          /\ answer'[c].st = answer[c].st /\ answer'[c].got = st /\ stage'[c] = "sending"
      BY <2>2 DEF IInv, TypeOK
    <3>. QED BY <2>1, <3>1 DEF TextFor
  <2>6. Base(b) \in Int /\ (Inside(b, Base(b), T) <=> Len(T) <= BUF)
    BY <2>4, InAddress, Dimensions DEF Inside
  <2>7. mem' = Written(Base(b), T) /\ strayed' = (strayed \/ ~(Len(T) <= BUF))
    BY <2>2, <2>6 DEF Store
  <2>8. /\ mem' \in [Address -> CellType]
        /\ \A x \in Address : mem'[x] = mem[x] \/ \E i \in DOMAIN T : mem'[x] = T[i]
    <3>1. mem \in [Address -> CellType]
      BY DEF IInv, TypeOK
    <3>. QED BY <2>4, <2>6, <2>7, <3>1, WrittenType
  <2>9. OthersStay(c)
    BY <1>1, <2>2 DEF IInv, TypeOK, OthersStay
  <2>10. TypeOK'
    <3>1. answer' \in [Client -> [code : Codes \union {"none"}, path : File \union {Far, None},
                                  st : FileState, got : FileState]]
      <4>. HIDE DEF FileState, Codes
      <4>. QED BY <2>2 DEF IInv, TypeOK
    <3>2. stage' \in [Client -> Stages] /\ strayed' \in BOOLEAN
      BY <2>2, <2>7 DEF IInv, TypeOK, Stages
    <3>. QED BY <1>1, <1>5, <2>2, <2>8, <3>1, <3>2 DEF IInv, TypeOK
  <2>11. PoolInv'
    <3>1. \A d \in Client : stage'[d] \in Holding <=> stage[d] \in Holding
      BY <1>1, <2>5, <2>9 DEF OthersStay, Holding
    <3>. QED BY <1>5, <3>1 DEF IInv, PoolInv
  <2>12. StageInv'
    <3>. SUFFICES ASSUME NEW d \in Client PROVE (StageOf(d))'
      BY DEF StageInv
    <3>1. StageOf(d)
      BY DEF IInv, StageInv
    <3>2. CASE d = c
      BY <1>1, <1>3, <1>7, <2>2, <2>5, <3>1, <3>2, MemoryAssumption DEF StageOf, Answered, Finished
    <3>3. CASE d # c
      BY <1>1, <2>2, <2>9, <3>1, <3>3, MemoryAssumption
      DEF StageOf, OthersStay, Answered, Finished
    <3>. QED BY <3>2, <3>3
  <2>13. RequestInv'
    BY <1>1, <2>4, <2>8 DEF IInv, RequestInv
  <2>14. ContentsInv'
    <3>. SUFFICES ASSUME ~strayed' PROVE \A d \in Client : (ContentsOf(d))'
      BY DEF ContentsInv
    <3>1. ~strayed /\ Len(T) <= BUF
      BY <2>7
    <3>2. SamePlace(b)
      BY <2>4, <2>6, <2>7, <3>1, WrittenElsewhere DEF SamePlace
    <3>3. \A d \in Client, e \in Bid : d # c /\ (Holds(d, e))' => e # b /\ Holds(d, e)
      BY <1>2, <1>5 DEF Holds
    <3>4. ASSUME NEW d \in Client, d # c PROVE (ContentsOf(d))'
      BY <2>9, <3>1, <3>2, <3>3, <3>4, OthersContents DEF IInv
    <3>5. \A i \in DOMAIN T : mem'[Base(b) + i - 1] = T[i]
      BY <2>4, <2>7, <3>1, WrittenHere
    <3>6. (ContentsOf(c))'
      <4>1. (Contains(b, TextFor(c)))'
        BY <2>5, <3>5 DEF Contains, Base
      <4>2. \A e \in Bid : (Holds(c, e))' => e = b
        BY <1>2, <1>5
      <4>3. (Len(TextFor(c)) <= BUF)'
        BY <2>5, <3>1
      <4>. QED BY <2>5, <4>1, <4>2, <4>3 DEF ContentsOf
    <3>. QED BY <3>4, <3>6
  <2>15. StrayInv'
    <3>1. CASE strayed
      <4>1. ~Finished(c)
        BY <1>1 DEF Finished
      <4>. QED BY <1>1, <2>5, <2>9, <3>1, <4>1 DEF IInv, StrayInv, OthersStay, Finished
    <3>2. CASE ~(Len(T) <= BUF)
      <4>1. answer[c].code = "GET_REQUEST" /\ bytes_read(st) # -1
        <5>1. /\ answer[c].code = "BAD_REQUEST" => Len(T) = LONG + 1
              /\ answer[c].code = "NO_FOUND" => Len(T) = SHORT + 1
              /\ answer[c].code = "GET_REQUEST" /\ bytes_read(st) = -1 => Len(T) = HEADER + 1
          BY <2>3 DEF IsText
        <5>2. LONG + 1 <= BUF /\ SHORT + 1 <= BUF /\ HEADER + 1 <= BUF
          BY Dimensions
        <5>. QED BY <1>3, <3>2, <5>1, <5>2 DEF Codes
      <4>2. Len(T) = (HEADER + bytes_read(st)) + 1
        BY <2>3, <4>1 DEF IsText
      <4>3. bytes_read(st) <= st.size /\ st.size \in Nat /\ bytes_read(st) \in Int
        BY <2>3, FilesRead, Dimensions
      <4>4. st.size >= BUF - HEADER
        BY <2>4, <3>2, <4>2, <4>3, Dimensions
      <4>. QED BY <2>5, <4>4 DEF StrayInv, Finished
    <3>. QED BY <2>7, <3>1, <3>2 DEF StrayInv
  <2>16. SentInv'
    BY <2>5, <2>9 DEF IInv, SentInv, OthersStay
  <2>17. AnswerIntact'
    <3>. SUFFICES ASSUME ~strayed', NEW d \in Client, d # c, stage[d] = "sent"
                  PROVE  (SentWhole(d))'
      BY <2>5, <2>9 DEF AnswerIntact, SentWhole, SentAs, OthersStay
    <3>. QED BY <2>7, <2>9 DEF IInv, AnswerIntact, SentWhole, SentAs, OthersStay
  <2>18. AnsweredAsAsked'
    BY <1>1, <2>5, <2>7, <2>9 DEF IInv, AnsweredAsAsked, OthersStay
  <2>19. KilledOnlyWhen'
    BY <1>1, <2>2 DEF KilledOnlyWhen
  <2>. QED BY <2>10, <2>11, <2>12, <2>13, <2>14, <2>15, <2>16, <2>17, <2>18, <2>19 DEF IInv
<1>. QED BY <1>6, <1>7

(* What is sent when the buffer holds the answer, whole.                   *)
LEMMA Sent ==
  ASSUME TypeOK, StageInv, NEW c \in Client, stage[c] = "sending", NEW b \in Bid,
         Len(TextFor(c)) <= BUF, Contains(b, TextFor(c)),
         NEW out, out \in Seq(CellType),
         Len(out) = response_size(answer[c].code, bytes_read(answer[c].got)),
         Len(out) <= BUF => \A i \in 1 .. Len(out) : out[i] = mem[Base(b) + i - 1]
  PROVE  SentAs(c, out)
<1>. USE DEF SentAs
<1>1. PICK T : T = TextFor(c)
  OBVIOUS
<1>2. answer[c].code # "none" /\ answer[c].got \in FileState
  BY DEF TypeOK, StageInv, StageOf, Answered
<1>3. /\ IsText(T, answer[c].code, c, answer[c].path, bytes_read(answer[c].got))
      /\ T \in Seq(CellType) /\ DOMAIN T = 1 .. Len(T)
      /\ bytes_read(answer[c].got) \in -1 .. BUF
  BY <1>1, <1>2, TextIs
<1>4. Len(T) \in Nat /\ Len(T) <= BUF
  BY <1>1, <1>3, LenProperties
<1>5. \A i \in 1 .. Len(T) : T[i] = mem[Base(b) + i - 1]
  BY <1>1, <1>3 DEF Contains
<1>6. CASE answer[c].code = "BAD_REQUEST"
  <2>1. Len(out) = LONG /\ LONG <= BUF /\ LONG \in Nat
    BY <1>6, Dimensions DEF response_size
  <2>2. Len(T) = LONG + 1 /\ \A i \in 1 .. LONG : T[i] = Cell("400", None)
    BY <1>3, <1>6 DEF IsText
  <2>3. \A i \in 1 .. LONG : out[i] = Cell("400", None)
    <3>1. \A i \in 1 .. LONG : i \in 1 .. Len(T)
      BY <2>1, <2>2
    <3>. QED BY <1>5, <2>1, <2>2, <3>1
  <2>4. PICK s \in Seq(CellType) : /\ s = Times(Cell("400", None), LONG) /\ Len(s) = LONG
                                   /\ \A i \in 1 .. LONG : s[i] = Cell("400", None)
    BY <2>1, Cells, TimesIs
  <2>5. out = s
    BY <2>1, <2>3, <2>4, SeqEqual
  <2>. QED BY <1>6, <2>4, <2>5
<1>7. CASE answer[c].code = "NO_FOUND"
  <2>1. Len(out) = LONG /\ LONG <= BUF /\ LONG \in Nat
    BY <1>7, Dimensions DEF response_size
  <2>2. Len(T) = SHORT + 1 /\ \A i \in 1 .. SHORT : T[i] = Cell("404", None)
    BY <1>3, <1>7 DEF IsText
  <2>3. \A i \in 1 .. SHORT : i \in 1 .. Len(T) /\ i \in 1 .. Len(out)
    BY <2>1, <2>2, Dimensions
  <2>. QED BY <1>5, <1>7, <2>1, <2>2, <2>3
<1>8. CASE answer[c].code = "GET_REQUEST" /\ answer[c].got.kind = "regular"
  <2>. PICK n, r : n = answer[c].got.size /\ r = bytes_read(answer[c].got)
    OBVIOUS
  <2>1. r # -1 /\ r \in -1 .. BUF /\ n \in Nat
    BY <1>2, <1>8, FilesRead
  <2>2. /\ Len(T) = (HEADER + r) + 1
        /\ \A i \in 1 .. HEADER : T[i] = Cell("head", c)
        /\ \A i \in 1 .. r : T[HEADER + i] = Cell("file", answer[c].path)
    BY <1>3, <1>8, <2>1 DEF IsText
  <2>3. r = n /\ r \in Nat
    <3>1. r # BUF /\ r \in Nat
      BY <1>4, <2>1, <2>2, Dimensions
    <3>. QED BY <1>2, <1>8, <3>1, FilesRead
  <2>4. Len(out) = HEADER + r
    BY <1>8 DEF response_size
  <2>5. \A i \in 1 .. HEADER + r : out[i] = T[i]
    <3>1. HEADER + r \in Nat /\ HEADER + r <= BUF
      BY <1>4, <2>2, <2>3, Dimensions
    <3>2. \A i \in 1 .. HEADER + r : i \in 1 .. Len(T)
      BY <2>2, <3>1
    <3>. QED BY <1>5, <2>4, <3>1, <3>2
  <2>6. PICK s \in Seq(CellType) : /\ s = Times(Cell("head", c), HEADER) /\ Len(s) = HEADER
                                   /\ \A i \in 1 .. HEADER : s[i] = Cell("head", c)
    <3>1. Cell("head", c) \in CellType /\ HEADER \in Nat
      BY Cells, Dimensions
    <3>2. /\ Times(Cell("head", c), HEADER) \in Seq(CellType)
          /\ Len(Times(Cell("head", c), HEADER)) = HEADER
          /\ \A i \in 1 .. HEADER : Times(Cell("head", c), HEADER)[i] = Cell("head", c)
      BY <3>1, TimesIs
    <3>. QED BY <3>2
  <2>7. answer[c].path \in File \union {Far}
    BY <1>8 DEF TypeOK, StageInv, StageOf
  <2>8. PICK t \in Seq(CellType) : /\ t = Times(Cell("file", answer[c].path), r)
                                   /\ Len(t) = r
                                   /\ \A i \in 1 .. r : t[i] = Cell("file", answer[c].path)
    <3>1. Cell("file", answer[c].path) \in CellType
      BY <2>7, Cells
    <3>2. PICK cell \in CellType : cell = Cell("file", answer[c].path)
      BY <3>1
    <3>3. Times(cell, r) \in Seq(CellType) /\ Len(Times(cell, r)) = r
          /\ \A i \in 1 .. r : Times(cell, r)[i] = cell
      BY <2>3, TimesIs
    <3>. QED BY <3>2, <3>3
  <2>9. PICK v : v = s \o t
    OBVIOUS
  <2>10. /\ v \in Seq(CellType) /\ Len(v) = HEADER + r
         /\ \A i \in 1 .. HEADER + r : v[i] = IF i <= HEADER THEN s[i] ELSE t[i - HEADER]
    <3>1. Len(s) + Len(t) = HEADER + r
      BY <2>6, <2>8
    <3>. HIDE DEF CellType
    <3>. QED BY <2>6, <2>9, <3>1, ConcatProperties
  <2>11. \A i \in 1 .. HEADER + r : out[i] = v[i]
    <3>. SUFFICES ASSUME NEW i \in 1 .. HEADER + r PROVE T[i] = v[i]
      BY <2>5
    <3>1. CASE i <= HEADER
      <4>1. i \in 1 .. HEADER
        BY <2>3, <3>1, Dimensions
      <4>2. v[i] = s[i]
        BY <2>10, <3>1
      <4>. QED BY <2>2, <2>6, <4>1, <4>2
    <3>2. CASE ~(i <= HEADER)
      <4>1. i - HEADER \in 1 .. r /\ HEADER + (i - HEADER) = i
        BY <2>3, <3>2, Dimensions
      <4>2. v[i] = t[i - HEADER]
        BY <2>10, <3>2
      <4>. QED BY <2>2, <2>8, <4>1, <4>2
    <3>. QED BY <3>1, <3>2
  <2>12. out = v
    BY <2>4, <2>10, <2>11, SeqEqual
  <2>. QED BY <1>8, <2>3, <2>6, <2>8, <2>9, <2>12
<1>. QED BY <1>6, <1>7, <1>8

(* What is sent is the answer, and the buffer is given up.                 *)
LEMMA SendStep ==
  ASSUME IInv, NEW c \in Client, Send(c)
  PROVE  IInv'
<1>1. /\ proc = "up" /\ stage[c] = "sending"
      /\ stage' = [stage EXCEPT ![c] = "sent"]
      /\ UNCHANGED <<proc, mem, strayed, request, res, serving, answer>>
  BY DEF Send
<1>2. PICK b \in Bid : b = BufferOf(c) /\ Holds(c, b) /\ \A e \in Bid : Holds(c, e) => e = b
  BY <1>1, Owner DEF IInv, Holding
<1>3. PICK out : out = ReadFrom(Base(b), response_size(answer[c].code, bytes_read(answer[c].got)))
  OBVIOUS
<1>4. /\ sent' = [sent EXCEPT ![c] = out]
      /\ owner[b] # None /\ released' = released \union {b} /\ owner' = owner
  BY <1>2, <1>3 DEF Send, Lending!Release
<1>5. response_size(answer[c].code, bytes_read(answer[c].got)) \in Nat
  <2>1. bytes_read(answer[c].got) \in -1 .. BUF
    BY FilesRead DEF IInv, TypeOK
  <2>. QED BY <2>1, Dimensions DEF response_size
<1>6. /\ out \in Seq(CellType)
      /\ Len(out) = response_size(answer[c].code, bytes_read(answer[c].got))
      /\ Len(out) <= BUF => \A i \in 1 .. Len(out) : out[i] = mem[Base(b) + i - 1]
  <2>1. mem \in [Address -> CellType]
    BY DEF IInv, TypeOK
  <2>. QED BY <1>3, <1>5, <2>1, ReadFromIs
<1>7. /\ owner \in [Bid -> Client \union {None}] /\ released \subseteq Bid
      /\ owner[b] = c /\ b \notin released
  BY <1>2 DEF IInv, TypeOK, Lending!TypeOK, Holds
<1>8. /\ \A e \in Bid : ~(Holds(c, e))'
      /\ \A d \in Client, e \in Bid : d # c => ((Holds(d, e))' <=> Holds(d, e))
      /\ (Lending!TypeOK)' /\ \A e \in released' : owner'[e] # None
  BY <1>2, <1>4, <1>7 DEF IInv, PoolInv, Lending!TypeOK, Holds
<1>9. /\ sent'[c] = out /\ stage'[c] = "sent" /\ OthersStay(c)
  BY <1>1, <1>4 DEF IInv, TypeOK, OthersStay
<1>10. TypeOK'
  <2>1. sent' \in [Client -> Seq(CellType)]
    <3>. HIDE DEF CellType
    <3>. QED BY <1>4, <1>6 DEF IInv, TypeOK
  <2>2. stage' \in [Client -> Stages]
    BY <1>1 DEF IInv, TypeOK, Stages
  <2>. QED BY <1>1, <1>8, <2>1, <2>2 DEF IInv, TypeOK
<1>11. PoolInv'
  BY <1>8, <1>9 DEF IInv, PoolInv, OthersStay, Holding
<1>12. StageInv'
  <2>. SUFFICES ASSUME NEW d \in Client PROVE (StageOf(d))'
    BY DEF StageInv
  <2>1. StageOf(d)
    BY DEF IInv, StageInv
  <2>2. CASE d = c
    BY <1>1, <1>9, <2>1, <2>2 DEF StageOf, Answered, Finished
  <2>3. CASE d # c
    BY <1>1, <1>9, <2>1, <2>3 DEF StageOf, OthersStay, Answered, Finished
  <2>. QED BY <2>2, <2>3
<1>13. RequestInv'
  BY <1>1 DEF IInv, RequestInv
<1>14. ContentsInv'
  <2>. SUFFICES ASSUME ~strayed, NEW d \in Client PROVE (ContentsOf(d))'
    BY <1>1 DEF ContentsInv
  <2>1. ContentsOf(d)
    BY DEF IInv, ContentsInv
  <2>2. CASE d = c
    BY <1>1, <1>8, <2>1, <2>2 DEF ContentsOf, Finished, TextFor
  <2>3. CASE d # c
    BY <1>1, <1>8, <1>9, <2>1, <2>3
    DEF ContentsOf, Finished, TextFor, OthersStay, Contains, Base, Cell
  <2>. QED BY <2>2, <2>3
<1>15. StrayInv'
  BY <1>1, <1>9 DEF IInv, StrayInv, Finished, OthersStay
<1>16. SentInv'
  BY <1>1, <1>6, <1>9 DEF IInv, SentInv, OthersStay
<1>17. AnswerIntact'
  <2>. SUFFICES ASSUME ~strayed, NEW d \in Client, stage'[d] = "sent" PROVE (SentWhole(d))'
    BY <1>1 DEF AnswerIntact, SentWhole, SentAs
  <2>1. CASE d = c
    <3>1. Len(TextFor(c)) <= BUF /\ Contains(b, TextFor(c))
      BY <1>1, <1>2 DEF IInv, ContentsInv, ContentsOf, Finished
    <3>2. SentAs(c, out)
      BY <1>1, <1>6, <3>1, Sent DEF IInv
    <3>. QED BY <1>1, <1>9, <2>1, <3>2 DEF SentWhole, SentAs, Cell, Times
  <2>2. CASE d # c
    BY <1>9, <2>2 DEF IInv, AnswerIntact, SentWhole, SentAs, OthersStay
  <2>. QED BY <2>1, <2>2
<1>18. AnsweredAsAsked'
  BY <1>1 DEF IInv, AnsweredAsAsked
<1>19. KilledOnlyWhen'
  BY <1>1 DEF KilledOnlyWhen
<1>. QED BY <1>10, <1>11, <1>12, <1>13, <1>14, <1>15, <1>16, <1>17, <1>18, <1>19 DEF IInv

(* Every step preserves the invariant.                                     *)
LEMMA NextIInv == IInv /\ [Next]_vars => IInv'
<1>. SUFFICES ASSUME IInv, [Next]_vars PROVE IInv'
  OBVIOUS
<1>1. ASSUME NEW c \in Client, NEW b \in Bid, Receive(c, b) \/ ReceiveNothing(c, b)
      PROVE  IInv'
  BY <1>1, ReceiveStep, ReceiveNothingStep
<1>2. ASSUME NEW c \in Client, Resume(c) \/ Respond(c) \/ Send(c) PROVE IInv'
  BY <1>2, ResumeStep, RespondStep, SendStep
<1>3. ASSUME NEW b \in Bid, Provide(b) PROVE IInv'
  BY <1>3, ProvideStep
<1>4. CASE UNCHANGED vars
  <2>1. /\ UNCHANGED <<mem, strayed, request, stage, res, serving, answer, sent>>
        /\ owner' = owner /\ released' = released /\ proc' = proc
    BY <1>4 DEF vars, poolVars
  <2>2. /\ proc' \in {"up", "killed"} /\ (Lending!TypeOK)' /\ KilledOnlyWhen'
        /\ \A b \in released' : owner'[b] # None
        /\ \A c \in Client, b \in Bid : (Holds(c, b))' <=> Holds(c, b)
    BY <2>1 DEF IInv, TypeOK, Lending!TypeOK, KilledOnlyWhen, PoolInv, Holds
  <2>. QED BY <2>1, <2>2, StillStep
<1>. QED BY <1>1, <1>2, <1>3, <1>4 DEF Next

(* Whose each buffer is and what it begins with, for every reachable state *)
(* of the web server's memory (server.h:71-84, http_conn.h:104-177).       *)
THEOREM Invariance == Spec => []IInv
<1>. QED BY InitIInv, NextIInv, PTL DEF Spec

(* Every variable keeps its type: memory holds only cells that were        *)
(* written by someone, sent are only such cells.                           *)
THEOREM TypeCorrect == Spec => []TypeOK
<1>1. IInv => TypeOK
  BY DEF IInv
<1>. QED BY <1>1, Invariance, PTL

(* A write leaves its buffer, or final_path, only for one of the four      *)
(* causes (server.h:77, http_conn.h:113,215), and the cause can still be   *)
(* seen.                                                                   *)
THEOREM StraysOnlyWhenHolds == Spec => []StraysOnlyWhen
<1>1. IInv => StraysOnlyWhen
  BY DEF IInv, StrayInv, StraysOnlyWhen
<1>. QED BY <1>1, Invariance, PTL

(* As long as nothing strayed, the process is killed only by the requests  *)
(* and files that KilledOnlyWhen lists (http_conn.h:108,199-215).          *)
THEOREM KilledOnlyWhenHolds == Spec => []KilledOnlyWhen
<1>1. IInv => KilledOnlyWhen
  BY DEF IInv
<1>. QED BY <1>1, Invariance, PTL

(* As long as nothing strayed, every client gets its own answer, whole,    *)
(* whatever goes on in the neighbouring buffers (http_conn.h:104-177).     *)
THEOREM AnswerIntactHolds == Spec => []AnswerIntact
<1>1. IInv => AnswerIntact
  BY DEF IInv
<1>. QED BY <1>1, Invariance, PTL

(* As long as nothing strayed, a request is answered by its own method and *)
(* path (http_conn.h:193-236).                                             *)
THEOREM AnsweredAsAskedHolds == Spec => []AnsweredAsAsked
<1>1. IInv => AnsweredAsAsked
  BY DEF IInv
<1>. QED BY <1>1, Invariance, PTL

(* The length that is announced is the length of what is sent, unless the  *)
(* file changed in between or is longer than the read                      *)
(* (http_conn.h:113,154).                                                  *)
THEOREM LengthAnnouncedHolds == Spec => []LengthAnnounced
<1>1. IInv => LengthAnnounced
  <2>. SUFFICES ASSUME IInv, NEW c \in Client, stage[c] = "sent",
                       answer[c].code = "GET_REQUEST", answer[c].got = answer[c].st,
                       answer[c].st.size <= BUF
                PROVE  Len(sent[c]) = HEADER + answer[c].st.size
    BY DEF LengthAnnounced
  <2>1. Len(sent[c]) = HEADER + bytes_read(answer[c].st)
    BY DEF IInv, SentInv, response_size
  <2>2. answer[c].st \in FileState /\ answer[c].st.kind = "regular"
    BY DEF IInv, TypeOK, StageInv, StageOf
  <2>. QED BY <2>1, <2>2, FilesRead
<1>. QED BY <1>1, Invariance, PTL

================================================================================

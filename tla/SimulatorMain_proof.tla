-------------------------- MODULE SimulatorMain_proof --------------------------
(***************************************************************************)
(* The search of __is_debugged finds exactly the names that the options    *)
(* added, for any size of the table, and the irq thread raises exactly the *)
(* exceptions the senders name, for any number of senders; both under any  *)
(* command line and any order of the threads, the senders and the other    *)
(* clients.                                                                *)
(***************************************************************************)
EXTENDS SimulatorMain, TLAPS

TableType ==
  /\ files \in Seq(Int)
  /\ overrun \in BOOLEAN
  /\ search \in [state : {"idle", "probing", "done"}, name : Int,
                 from : Int, to : Int, found : BOOLEAN]

(* add_debug_to keeps the names in order, equal ones side by side.         *)
Sorted == \A i, j \in 1 .. Len(files) : i < j => files[i] <= files[j]

(* The part of the table still searched holds every place of the name.     *)
Enclosed ==
  Probing =>
    /\ search.from >= 0 /\ search.to < Len(files)
    /\ \A i \in 1 .. Len(files) :
         files[i] = search.name => search.from < i /\ i <= search.to + 1

Decided ==
  search.state = "done" =>
    (search.found <=> \E i \in 1 .. Len(files) : files[i] = search.name)

(* The inductive invariant. *)
TableInv == TableType /\ Sorted /\ Enclosed /\ Decided

LEMMA InitTable == ASSUME MainInit PROVE TableInv
<1>1. files = <<>> /\ overrun = FALSE /\ search = Idle
  BY DEF MainInit, TableInit
<1>2. files \in Seq(Int) /\ Len(files) = 0
  BY <1>1
<1>3. search \in [state : {"idle", "probing", "done"}, name : Int,
                  from : Int, to : Int, found : BOOLEAN]
      /\ search.state = "idle"
  BY <1>1 DEF Idle
<1>4. Sorted
  BY <1>2 DEF Sorted
<1> QED
  BY <1>1, <1>2, <1>3, <1>4 DEF TableInv, TableType, Enclosed, Decided, Probing

LEMMA SameTable == ASSUME TableInv, UNCHANGED tableVars PROVE TableInv'
BY DEF tableVars, TableInv, TableType, Sorted, Enclosed, Decided, Probing

(* The new name goes behind the smaller ones and before the others.        *)
LEMMA AddKeepsTable ==
  ASSUME TableInv, search.state = "idle", NEW name \in Names, add_debug_to(name)
  PROVE  TableInv'
<1>1. search' = search /\ name \in Int /\ files \in Seq(Int)
  BY TableAssumption DEF add_debug_to, TableInv, TableType
<1>2. Enclosed' /\ Decided'
  BY <1>1 DEF Enclosed, Decided, Probing
<1>3. CASE files' = files
  <2>1. overrun' \in BOOLEAN
    BY DEF add_debug_to, TableInv, TableType
  <2> QED
    BY <1>1, <1>2, <1>3, <2>1 DEF TableInv, TableType, Sorted
<1>4. CASE files' # files
  <2>1. PICK i \in 0 .. Len(files) :
          /\ IsPlace(i, name) /\ i < MaxFiles
          /\ files' = Inserted(i, name) /\ overrun' = overrun
    BY <1>4, TableAssumption DEF add_debug_to
  <2>2. /\ \A j \in 1 .. i : files[j] < name
        /\ \A j \in i + 1 .. Len(files) : files[j] >= name
    <3>1. ASSUME NEW j \in 1 .. i PROVE files[j] < name
      <4>1. j - 1 \in 0 .. i - 1 /\ (j - 1) + 1 = j
        OBVIOUS
      <4> QED
        BY <2>1, <4>1 DEF IsPlace, File
    <3>2. ASSUME NEW j \in i + 1 .. Len(files) PROVE files[j] >= name
      <4>1. files[i + 1] >= name
        BY <1>1, <2>1, <3>2 DEF IsPlace, File
      <4>2. files[i + 1] <= files[j]
        BY <1>1, <2>1, <3>2 DEF TableInv, Sorted
      <4> QED
        BY <1>1, <4>1, <4>2
    <3> QED
      BY <3>1, <3>2
  <2>3. files' \in Seq(Int) /\ Len(files') = Len(files) + 1
    <3>1. ASSUME NEW j \in 1 .. Len(files) + 1 PROVE Inserted(i, name)[j] \in Int
      <4>1. CASE j <= i
        BY <1>1, <3>1, <4>1 DEF Inserted
      <4>2. CASE j = i + 1
        BY <1>1, <3>1, <4>2 DEF Inserted
      <4>3. CASE j > i + 1
        <5>1. j - 1 \in 1 .. Len(files)
          BY <1>1, <2>1, <3>1, <4>3
        <5> QED
          BY <1>1, <3>1, <4>3, <5>1 DEF Inserted
      <4> QED
        BY <2>1, <4>1, <4>2, <4>3
    <3>2. DOMAIN Inserted(i, name) = 1 .. Len(files) + 1
      BY DEF Inserted
    <3>3. Inserted(i, name) \in [1 .. Len(files) + 1 -> Int]
      BY <3>1, <3>2 DEF Inserted
    <3>4. Len(files) + 1 \in Nat
      BY <1>1
    <3>5. Inserted(i, name) \in Seq(Int)
      BY <3>3, <3>4
    <3> QED
      BY <2>1, <3>2, <3>4, <3>5
  <2>4. Sorted'
    <3> SUFFICES ASSUME NEW j \in 1 .. Len(files) + 1, NEW k \in 1 .. Len(files) + 1,
                        j < k
                 PROVE  Inserted(i, name)[j] <= Inserted(i, name)[k]
      BY <2>1, <2>3 DEF Sorted
    <3>1. CASE k <= i
      <4>1. j \in 1 .. Len(files) /\ k \in 1 .. Len(files) /\ j <= i
        BY <1>1, <2>1, <3>1
      <4>2. Inserted(i, name)[j] = files[j] /\ Inserted(i, name)[k] = files[k]
        BY <3>1, <4>1 DEF Inserted
      <4> QED
        BY <4>1, <4>2 DEF TableInv, Sorted
    <3>2. CASE j <= i /\ k = i + 1
      BY <1>1, <2>1, <2>2, <3>2 DEF Inserted
    <3>3. CASE j <= i /\ k > i + 1
      <4>1. j \in 1 .. Len(files) /\ k - 1 \in 1 .. Len(files) /\ j < k - 1
        BY <1>1, <2>1, <3>3
      <4> QED
        BY <1>1, <2>1, <3>3, <4>1 DEF Inserted, TableInv, Sorted
    <3>4. CASE j = i + 1
      <4>1. k - 1 \in i + 1 .. Len(files)
        BY <1>1, <2>1, <3>4
      <4> QED
        BY <1>1, <2>1, <2>2, <3>4, <4>1 DEF Inserted
    <3>5. CASE j > i + 1
      <4>1. j - 1 \in 1 .. Len(files) /\ k - 1 \in 1 .. Len(files) /\ j - 1 < k - 1
        BY <1>1, <2>1, <3>5
      <4>2. /\ Inserted(i, name)[j] = files[j - 1]
            /\ Inserted(i, name)[k] = files[k - 1]
        BY <2>1, <3>5 DEF Inserted
      <4>3. files[j - 1] <= files[k - 1]
        BY <4>1 DEF TableInv, Sorted
      <4> QED
        BY <4>2, <4>3
    <3> QED
      BY <2>1, <3>1, <3>2, <3>3, <3>4, <3>5
  <2> QED
    BY <1>1, <1>2, <2>1, <2>3, <2>4 DEF TableInv, TableType
<1> QED
  BY <1>3, <1>4

LEMMA BeginKeepsTable ==
  ASSUME TableInv, NEW name \in Names, BeginSearch(name)
  PROVE  TableInv'
<1>1. files' = files /\ overrun' = overrun /\ files \in Seq(Int) /\ name \in Int
  BY TableAssumption DEF BeginSearch, TableInv, TableType
<1>2. search' = [state |-> "probing", name |-> name, from |-> 0, to |-> Len(files) - 1,
                 found |-> FALSE]
  BY DEF BeginSearch
<1> QED
  BY <1>1, <1>2 DEF TableInv, TableType, Sorted, Enclosed, Decided, Probing

(* What a turn of the loop leaves out does not hold the name, because the  *)
(* table is sorted; a middle that is the name decides.                     *)
LEMMA BisectKeepsTable == ASSUME TableInv, Bisect PROVE TableInv'
<1> DEFINE middle == Middle
<1>1. /\ files' = files /\ overrun' = overrun /\ files \in Seq(Int)
      /\ search.state = "probing" /\ search.from < search.to
      /\ search \in [state : {"idle", "probing", "done"}, name : Int,
                     from : Int, to : Int, found : BOOLEAN]
  BY DEF Bisect, Probing, TableInv, TableType
<1>2. /\ search.from >= 0 /\ search.to < Len(files)
      /\ \A i \in 1 .. Len(files) :
           files[i] = search.name => search.from < i /\ i <= search.to + 1
  BY <1>1 DEF TableInv, Enclosed, Probing
<1>3. middle \in Int /\ search.from <= middle /\ middle < search.to
  BY <1>1, <1>2 DEF Middle
<1>4. middle + 1 \in 1 .. Len(files) /\ files[middle + 1] \in Int
  BY <1>1, <1>2, <1>3
<1>5. Sorted
  BY DEF TableInv
<1>6. Sorted'
  BY <1>1, <1>5 DEF Sorted
<1> HIDE DEF middle
<1>7. CASE files[middle + 1] < search.name /\ search' = [search EXCEPT !.from = middle + 1]
  <2>1. ASSUME NEW i \in 1 .. Len(files), files[i] = search.name
        PROVE  middle + 1 < i /\ i <= search.to + 1
    <3>1. i <= search.to + 1
      BY <1>2, <2>1
    <3>2. ~(i < middle + 1)
      BY <1>1, <1>4, <1>5, <1>7, <2>1 DEF Sorted
    <3>3. i # middle + 1
      BY <1>1, <1>4, <1>7, <2>1
    <3> QED
      BY <1>3, <3>1, <3>2, <3>3
  <2>2. /\ search'.state = "probing" /\ search'.from = middle + 1
        /\ search'.to = search.to /\ search'.name = search.name
        /\ search' \in [state : {"idle", "probing", "done"}, name : Int,
                        from : Int, to : Int, found : BOOLEAN]
    BY <1>1, <1>3, <1>7
  <2>3. Enclosed' /\ Decided'
    BY <1>1, <1>2, <1>3, <2>1, <2>2 DEF Enclosed, Decided, Probing
  <2> QED
    BY <1>1, <1>6, <2>2, <2>3 DEF TableInv, TableType
<1>8. CASE files[middle + 1] > search.name /\ search' = [search EXCEPT !.to = middle - 1]
  <2>1. ASSUME NEW i \in 1 .. Len(files), files[i] = search.name
        PROVE  search.from < i /\ i <= (middle - 1) + 1
    <3>1. search.from < i
      BY <1>2, <2>1
    <3>2. ~(middle + 1 < i)
      BY <1>1, <1>4, <1>5, <1>8, <2>1 DEF Sorted
    <3>3. i # middle + 1
      BY <1>1, <1>4, <1>8, <2>1
    <3> QED
      BY <1>3, <3>1, <3>2, <3>3
  <2>2. /\ search'.state = "probing" /\ search'.from = search.from
        /\ search'.to = middle - 1 /\ search'.name = search.name
        /\ search' \in [state : {"idle", "probing", "done"}, name : Int,
                        from : Int, to : Int, found : BOOLEAN]
    BY <1>1, <1>3, <1>8
  <2>3. Enclosed' /\ Decided'
    BY <1>1, <1>2, <1>3, <2>1, <2>2 DEF Enclosed, Decided, Probing
  <2> QED
    BY <1>1, <1>6, <2>2, <2>3 DEF TableInv, TableType
<1>9. CASE files[middle + 1] = search.name /\ Found(TRUE)
  BY <1>1, <1>4, <1>6, <1>9
     DEF Found, TableInv, TableType, Enclosed, Decided, Probing
<1> QED
  BY <1>7, <1>8, <1>9 DEF Bisect, File, middle

(* One place is left, or none. *)
LEMMA LastProbeKeepsTable == ASSUME TableInv, LastProbe PROVE TableInv'
<1>1. /\ files' = files /\ overrun' = overrun /\ files \in Seq(Int)
      /\ search.state = "probing" /\ search.from >= search.to
      /\ search \in [state : {"idle", "probing", "done"}, name : Int,
                     from : Int, to : Int, found : BOOLEAN]
      /\ Sorted
  BY DEF LastProbe, Probing, TableInv, TableType
<1>2. /\ search.from >= 0 /\ search.to < Len(files)
      /\ \A i \in 1 .. Len(files) :
           files[i] = search.name => search.from < i /\ i <= search.to + 1
  BY <1>1 DEF TableInv, Enclosed, Probing
<1> DEFINE found == search.from = search.to /\ files[search.from + 1] = search.name
<1>3. found <=> \E i \in 1 .. Len(files) : files[i] = search.name
  <2>1. ASSUME found PROVE \E i \in 1 .. Len(files) : files[i] = search.name
    <3>1. search.from + 1 \in 1 .. Len(files)
      BY <1>1, <1>2, <2>1
    <3> QED
      BY <2>1, <3>1
  <2>2. ASSUME NEW i \in 1 .. Len(files), files[i] = search.name PROVE found
    <3>1. search.from < i /\ i <= search.to + 1
      BY <1>2, <2>2
    <3>2. search.from = search.to /\ i = search.from + 1
      BY <1>1, <3>1
    <3> QED
      BY <2>2, <3>2
  <2> QED
    BY <2>1, <2>2
<1>4. found \in BOOLEAN
  OBVIOUS
<1>5. search' = [search EXCEPT !.state = "done", !.found = found]
  BY DEF LastProbe, Found, File
<1> HIDE DEF found
<1>6. /\ search'.state = "done" /\ search'.found = found /\ search'.name = search.name
      /\ search' \in [state : {"idle", "probing", "done"}, name : Int,
                      from : Int, to : Int, found : BOOLEAN]
  BY <1>1, <1>4, <1>5
<1>7. Decided'
  BY <1>1, <1>3, <1>6 DEF Decided
<1> QED
  BY <1>1, <1>6, <1>7, TableAssumption
     DEF LastProbe, TableInv, TableType, Sorted, Enclosed, Probing

LEMMA EndKeepsTable == ASSUME TableInv, EndSearch PROVE TableInv'
BY DEF EndSearch, Idle, TableInv, TableType, Sorted, Enclosed, Decided, Probing

(* Only the options and the search touch the table. *)
LEMMA StepKeepsTable == ASSUME TableInv, [MainNext]_allVars PROVE TableInv'
<1>1. CASE ParseOption
  <2>1. PICK option \in Options :
          \/ PortOption(option[1], option[2])
          \/ TraceOption(option[1])
          \/ option[1] = "d" /\ DebugOption(option[2])
          \/ EndingOption(option[1])
    BY <1>1 DEF ParseOption
  <2>2. CASE option[1] = "d" /\ DebugOption(option[2])
    <3>1. option[2] \in Names
      BY <2>2, OptionAssumption
    <3> QED
      BY <2>2, <3>1, AddKeepsTable DEF DebugOption, Option
  <2>3. CASE PortOption(option[1], option[2])
    BY <2>3, SameTable DEF PortOption
  <2>4. CASE TraceOption(option[1])
    BY <2>4, SameTable DEF TraceOption
  <2>5. CASE EndingOption(option[1])
    BY <2>5, SameTable DEF EndingOption
  <2> QED
    BY <2>1, <2>2, <2>3, <2>4, <2>5
<1>2. CASE DebugMessage
  BY <1>2, BeginKeepsTable DEF DebugMessage
<1>3. CASE SearchOn
  BY <1>3, BisectKeepsTable, LastProbeKeepsTable, EndKeepsTable DEF SearchOn, Search
<1>4. CASE StartThreads
  BY <1>4, SameTable DEF StartThreads
<1>5. CASE OpenGdbPort \/ OpenIrqPort
  BY <1>5, SameTable DEF OpenGdbPort, OpenIrqPort
<1>6. CASE AcceptDebugger \/ LockForGdb \/ FinishRequest \/ DebuggerLeaves \/ Return
  BY <1>6, SameTable DEF AcceptDebugger, LockForGdb, FinishRequest, DebuggerLeaves, Return
<1>7. CASE \/ \E s \in Senders : Sender(s) /\ Aside
           \/ \E c \in Others : Other(c) /\ Aside
           \/ IrqThread /\ Aside
  BY <1>7, SameTable DEF Aside
<1>8. CASE UNCHANGED allVars
  BY <1>8, SameTable DEF allVars
<1> QED
  BY <1>1, <1>2, <1>3, <1>4, <1>5, <1>6, <1>7, <1>8 DEF MainNext

(* A search finds exactly the names that were added: the bisection of      *)
(* __is_debugged is right about every table add_debug_to can build.        *)
THEOREM SearchFinds == MainSpec => []SearchFindsNamed
<1>1. MainInit => TableInv
  BY InitTable
<1>2. TableInv /\ [MainNext]_allVars => TableInv'
  BY StepKeepsTable
<1>3. TableInv => SearchFindsNamed
  BY DEF TableInv, TableType, Decided, SearchFindsNamed
<1> QED
  BY <1>1, <1>2, <1>3, PTL DEF MainSpec
-----------------------------------------------------------------------------
(* The interrupt port *)

(* What a sender asks for. *)
Wanted(s) == IF IrqName[s] = "none" THEN "interrupt" ELSE IrqName[s]

(* A byte that may come from s: it names what s asks for.                  *)
Speaks(s, b) ==
  /\ s \in Senders
  /\ arm_get_exception_name(b) = Wanted(s)

(* The byte of s is on the line, or in the hands of the irq thread.        *)
OnLine(s) == unread[s] # <<>>
InHand(s) == listener \in {"locking", "raising"} /\ peer = s

(* What becomes of a client. *)
Fate == {"ready", "connected", "written", "closed", "reset", "failed"}

PortType ==
  /\ client \in [Clients -> Fate]
  /\ unread \in [Clients -> Seq(Int)]
  /\ queue \in Seq(Clients)
  /\ peer \in Clients
  /\ raised \in Seq(Clients \X Int)
  /\ byte \in Int

(* A client that has not written, or gave up, has no byte anywhere.        *)
Silent(c) == client[c] \notin {"written", "closed"}

(* A byte is in one place only, on the line, in the hands of the thread or *)
(* raised; it was written by a sender and names what that asks for.        *)
OneByte ==
  \A c \in Clients :
    /\ OnLine(c) => unread[c] = <<SentByte(c)>> /\ Speaks(c, SentByte(c))
                    /\ ~InHand(c) /\ ~HeardFrom(c) /\ ~Silent(c)
    /\ InHand(c) => Speaks(c, byte) /\ ~HeardFrom(c) /\ ~Silent(c)
    /\ HeardFrom(c) => ~Silent(c)

(* Only who asks for a known exception gets a connection.                  *)
Admitted == \A s \in Senders : client[s] = "connected" => Known(s)

(* The inductive invariant. *)
PortInv == PortType /\ OneByte /\ Admitted /\ NamedExceptionRaised

(* The search of send_irq ends, and at the name when there is one.         *)
LEMMA SentByteNames ==
  ASSUME NEW s \in Senders, Known(s)
  PROVE  Speaks(s, SentByte(s)) /\ SentByte(s) \in Int
<1>1. CASE IrqName[s] = "none"
  BY <1>1 DEF Speaks, Wanted, SentByte, INTERRUPT, arm_get_exception_name, ExceptionNames
<1>2. CASE IrqName[s] # "none"
  <2> DEFINE name == IrqName[s]
             ends(n) == arm_get_exception_name(n) \in {name, "NULL"}
  <2>1. ends(8)
    BY DEF arm_get_exception_name, ExceptionNames
  <2>2. \E n \in 1 .. 8 : ends(n) /\ \A m \in 1 .. n - 1 : ~ends(m)
    <3> HIDE DEF ends
    <3> QED
      BY <2>1
  <2>3. PICK n \in 0 .. 8 : IsIrq(name, n)
    BY <2>2 DEF IsIrq, RESET
  <2>4. SentByte(s) \in 0 .. 8 /\ IsIrq(name, SentByte(s))
    <3>1. SentByte(s) = CHOOSE k \in 0 .. 8 : IsIrq(name, k)
      BY <1>2 DEF SentByte
    <3> QED
      BY <2>3, <3>1, Zenon
  <2>5. arm_get_exception_name(SentByte(s)) # "NULL"
    BY <1>2 DEF Known
  <2> QED
    BY <1>2, <2>4, <2>5 DEF IsIrq, Speaks, Wanted
<1> QED
  BY <1>1, <1>2

(* Nothing is on its way when the program starts.                          *)
LEMMA InitPort == ASSUME MainInit PROVE PortInv
<1>1. /\ client = [c \in Clients |-> "ready"] /\ unread = [c \in Clients |-> <<>>]
      /\ queue = <<>> /\ listener = "starting" /\ byte = 0 /\ peer \in Clients
      /\ raised = <<>>
  BY DEF MainInit, PortInit
<1>2. <<>> \in Seq(Int) /\ <<>> \in Seq(Clients) /\ <<>> \in Seq(Clients \X Int)
      /\ DOMAIN raised = {}
  BY <1>1
<1>3. PortType
  <2>1. client \in [Clients -> Fate]
    BY <1>1 DEF Fate
  <2>2. unread \in [Clients -> Seq(Int)]
    BY <1>1, <1>2
  <2>3. queue \in Seq(Clients) /\ raised \in Seq(Clients \X Int) /\ byte \in Int
    BY <1>1, <1>2
  <2> QED
    BY <1>1, <2>1, <2>2, <2>3 DEF PortType
<1>4. \A c \in Clients : ~OnLine(c) /\ ~InHand(c) /\ ~HeardFrom(c)
  BY <1>1, <1>2 DEF OnLine, InHand, HeardFrom
<1>5. OneByte
  BY <1>4 DEF OneByte
<1>6. Admitted
  BY <1>1 DEF Admitted, Clients
<1>7. NamedExceptionRaised
  BY <1>2 DEF NamedExceptionRaised
<1> QED
  BY <1>3, <1>5, <1>6, <1>7 DEF PortInv

(* What the bytes depend on: a step that keeps these, and takes none in    *)
(* hand, keeps the bytes where they are.                                   *)
LEMMA BytesStay ==
  ASSUME PortInv, UNCHANGED <<unread, raised, byte>>, PortType', Admitted',
         \A c \in Clients : /\ InHand(c)' => InHand(c)
                            /\ Silent(c)' => Silent(c)
  PROVE  PortInv'
<1>1. \A c \in Clients : (OnLine(c) <=> OnLine(c)') /\ (HeardFrom(c) <=> HeardFrom(c)')
  BY DEF OnLine, HeardFrom
<1>2. OneByte'
  <2> SUFFICES ASSUME NEW c \in Clients
               PROVE  /\ OnLine(c)' => unread'[c] = <<SentByte(c)>> /\ Speaks(c, SentByte(c))
                                       /\ ~InHand(c)' /\ ~HeardFrom(c)' /\ ~Silent(c)'
                      /\ InHand(c)' => Speaks(c, byte') /\ ~HeardFrom(c)' /\ ~Silent(c)'
                      /\ HeardFrom(c)' => ~Silent(c)'
    BY DEF OneByte
  <2> QED
    BY <1>1 DEF PortInv, OneByte
<1>3. NamedExceptionRaised'
  BY DEF PortInv, NamedExceptionRaised
<1> QED
  BY <1>2, <1>3 DEF PortInv

(* A client that connects, closes or resets has written nothing more.      *)
LEMMA ClientStays ==
  ASSUME PortInv, NEW c \in Clients, Connect(c) \/ Close(c) \/ ResetConnection(c)
  PROVE  PortInv'
<1>1. PortType
  BY DEF PortInv
<1>2. UNCHANGED <<unread, raised, byte, listener, peer>>
  BY DEF Connect, Close, ResetConnection, threadVars
<1>3. PICK state \in {"connected", "failed", "closed", "reset"} :
        /\ client' = [client EXCEPT ![c] = state]
        /\ state = "connected" => (c \in Senders => Known(c))
        /\ state = "closed" \/ Silent(c)
  <2>1. CASE Connect(c)
    BY <1>1, <2>1 DEF Connect, Becomes, Silent, PortType
  <2>2. CASE Close(c)
    BY <1>1, <2>2 DEF Close, Becomes
  <2>3. CASE ResetConnection(c)
    BY <1>1, <2>3 DEF ResetConnection, Becomes, Silent
  <2> QED
    BY <2>1, <2>2, <2>3
<1>4. queue' \in Seq(Clients)
  <2>1. queue' = queue \/ queue' = Append(queue, c)
    BY DEF Connect, Close, ResetConnection
  <2>2. queue \in Seq(Clients)
    BY <1>1 DEF PortType
  <2>3. Append(queue, c) \in Seq(Clients)
    BY <2>2
  <2> QED
    BY <2>1, <2>2, <2>3
<1>5. PortType'
  <2>1. client' \in [Clients -> Fate]
    BY <1>1, <1>3 DEF PortType, Fate
  <2> QED
    BY <1>1, <1>2, <1>4, <2>1 DEF PortType
<1>6. Admitted'
  BY <1>1, <1>3 DEF PortInv, Admitted, PortType, Clients
<1>7. \A k \in Clients : /\ InHand(k)' => InHand(k)
                         /\ Silent(k)' => Silent(k)
  BY <1>1, <1>2, <1>3 DEF InHand, Silent, PortType
<1> QED
  BY <1>2, <1>5, <1>6, <1>7, BytesStay

(* A sender writes one byte, which names what it asks for.                 *)
LEMMA WriteStays ==
  ASSUME PortInv, NEW s \in Senders, WriteByte(s)
  PROVE  PortInv'
<1>1. PortType /\ OneByte /\ s \in Clients
  BY DEF PortInv, Clients
<1>2. /\ client[s] = "connected" /\ client' = [client EXCEPT ![s] = "written"]
      /\ unread' = [unread EXCEPT ![s] = <<SentByte(s)>>]
      /\ UNCHANGED <<queue, listener, peer, byte, raised>>
  BY DEF WriteByte, Becomes, threadVars
<1>3. Speaks(s, SentByte(s)) /\ SentByte(s) \in Int
  BY <1>2, SentByteNames DEF PortInv, Admitted
<1>4. PortType'
  <2>1. <<SentByte(s)>> \in Seq(Int)
    BY <1>3
  <2>2. unread' \in [Clients -> Seq(Int)] /\ client' \in [Clients -> Fate]
    BY <1>1, <1>2, <2>1 DEF PortType, Fate
  <2> QED
    BY <1>1, <1>2, <2>2 DEF PortType
<1>5. Silent(s) /\ ~Silent(s)' /\ unread'[s] = <<SentByte(s)>>
  BY <1>1, <1>2 DEF Silent, PortType
<1>6. ~OnLine(s) /\ ~InHand(s) /\ ~HeardFrom(s)
  BY <1>1, <1>5 DEF OneByte
<1>7. \A c \in Clients : (InHand(c)' <=> InHand(c)) /\ (HeardFrom(c)' <=> HeardFrom(c))
  BY <1>2 DEF InHand, HeardFrom
<1>8. \A c \in Clients \ {s} : /\ unread'[c] = unread[c] /\ (OnLine(c)' <=> OnLine(c))
                               /\ (Silent(c)' <=> Silent(c))
  BY <1>1, <1>2 DEF OnLine, Silent, PortType
<1>9. OneByte'
  <2> SUFFICES ASSUME NEW c \in Clients
               PROVE  /\ OnLine(c)' => unread'[c] = <<SentByte(c)>> /\ Speaks(c, SentByte(c))
                                       /\ ~InHand(c)' /\ ~HeardFrom(c)' /\ ~Silent(c)'
                      /\ InHand(c)' => Speaks(c, byte') /\ ~HeardFrom(c)' /\ ~Silent(c)'
                      /\ HeardFrom(c)' => ~Silent(c)'
    BY DEF OneByte
  <2>1. CASE c = s
    BY <1>3, <1>5, <1>6, <1>7, <2>1
  <2>2. CASE c # s
    BY <1>1, <1>2, <1>7, <1>8, <2>2 DEF OneByte
  <2> QED
    BY <2>1, <2>2
<1>10. Admitted'
  BY <1>1, <1>2 DEF PortInv, Admitted, PortType, Clients
<1>11. NamedExceptionRaised'
  BY <1>2 DEF PortInv, NamedExceptionRaised
<1> QED
  BY <1>4, <1>9, <1>10, <1>11 DEF PortInv

(* The thread takes a byte in hand that is then no longer on the line.     *)
LEMMA ReadStays == ASSUME PortInv, ReadByte PROVE PortInv'
<1>1. PortType /\ OneByte /\ peer \in Clients
  BY DEF PortInv, PortType
<1>2. /\ unread[peer] # <<>> /\ byte' = Head(unread[peer])
      /\ unread' = [unread EXCEPT ![peer] = Tail(@)]
      /\ listener' = "locking" /\ listener = "reading"
      /\ UNCHANGED <<client, queue, peer, raised>>
  BY DEF ReadByte
<1>3. /\ unread[peer] = <<SentByte(peer)>> /\ Speaks(peer, SentByte(peer))
      /\ ~HeardFrom(peer) /\ ~Silent(peer)
  BY <1>1, <1>2 DEF OneByte, OnLine
<1>4. byte' = SentByte(peer) /\ unread'[peer] = <<>> /\ byte' \in Int
  <2>1. unread[peer] \in Seq(Int) /\ DOMAIN unread = Clients
    BY <1>1 DEF PortType
  <2> DEFINE b == SentByte(peer)
  <2>2. unread[peer] = <<b>>
    BY <1>3
  <2> HIDE DEF b
  <2>3. b \in Int /\ Head(<<b>>) = b /\ Tail(<<b>>) = <<>>
    BY <2>1, <2>2
  <2> QED
    BY <1>1, <1>2, <2>1, <2>2, <2>3 DEF b
<1>5. PortType'
  BY <1>1, <1>2, <1>4 DEF PortType
<1>6. \A c \in Clients : /\ (HeardFrom(c)' <=> HeardFrom(c)) /\ (Silent(c)' <=> Silent(c))
                         /\ InHand(c)' <=> c = peer
  BY <1>2 DEF HeardFrom, Silent, InHand
<1>7. \A c \in Clients \ {peer} : unread'[c] = unread[c] /\ (OnLine(c)' <=> OnLine(c))
  BY <1>1, <1>2 DEF OnLine, PortType
<1>8. OneByte'
  <2> SUFFICES ASSUME NEW c \in Clients
               PROVE  /\ OnLine(c)' => unread'[c] = <<SentByte(c)>> /\ Speaks(c, SentByte(c))
                                       /\ ~InHand(c)' /\ ~HeardFrom(c)' /\ ~Silent(c)'
                      /\ InHand(c)' => Speaks(c, byte') /\ ~HeardFrom(c)' /\ ~Silent(c)'
                      /\ HeardFrom(c)' => ~Silent(c)'
    BY DEF OneByte
  <2>1. CASE c = peer
    <3>1. ~OnLine(c)'
      BY <1>4, <2>1 DEF OnLine
    <3> QED
      BY <1>3, <1>4, <1>6, <2>1, <3>1
  <2>2. CASE c # peer
    BY <1>1, <1>6, <1>7, <2>2 DEF OneByte
  <2> QED
    BY <2>1, <2>2
<1>9. Admitted' /\ NamedExceptionRaised'
  BY <1>2 DEF PortInv, Admitted, NamedExceptionRaised
<1> QED
  BY <1>5, <1>8, <1>9 DEF PortInv

(* The byte in hand is raised, for the first time.                         *)
LEMMA RaiseStays == ASSUME PortInv, RaiseException PROVE PortInv'
<1>1. PortType /\ OneByte /\ peer \in Clients /\ NamedExceptionRaised
  BY DEF PortInv, PortType
<1>2. /\ listener = "raising" /\ raised' = Append(raised, <<peer, byte>>)
      /\ listener' = "reading"
      /\ UNCHANGED <<client, unread, queue, peer, byte>>
  BY DEF RaiseException, clientVars
<1>3. Speaks(peer, byte) /\ ~HeardFrom(peer) /\ ~Silent(peer) /\ ~OnLine(peer)
  BY <1>1, <1>2 DEF OneByte, InHand
<1>4. <<peer, byte>> \in Clients \X Int /\ raised \in Seq(Clients \X Int)
  BY <1>1 DEF PortType
<1>5. /\ raised' \in Seq(Clients \X Int) /\ Len(raised') = Len(raised) + 1
      /\ \A i \in 1 .. Len(raised) : raised'[i] = raised[i]
      /\ raised'[Len(raised) + 1] = <<peer, byte>>
  BY <1>2, <1>4
<1>6. DOMAIN raised = 1 .. Len(raised) /\ DOMAIN raised' = 1 .. Len(raised) + 1
      /\ Len(raised) \in Nat
  BY <1>4, <1>5
<1>7. PortType'
  BY <1>1, <1>2, <1>5 DEF PortType
<1>8. \A c \in Clients : /\ HeardFrom(c)' <=> HeardFrom(c) \/ c = peer
                         /\ (Silent(c)' <=> Silent(c)) /\ ~InHand(c)'
                         /\ (OnLine(c)' <=> OnLine(c))
  <2> SUFFICES ASSUME NEW c \in Clients
               PROVE  HeardFrom(c)' <=> HeardFrom(c) \/ c = peer
    BY <1>2 DEF Silent, InHand, OnLine
  <2>1. HeardFrom(c)' <=> \E i \in 1 .. Len(raised) + 1 : raised'[i][1] = c
    BY <1>6 DEF HeardFrom
  <2>2. HeardFrom(c) <=> \E i \in 1 .. Len(raised) : raised[i][1] = c
    BY <1>6 DEF HeardFrom
  <2> QED
    BY <1>5, <1>6, <2>1, <2>2
<1>9. OneByte'
  <2> SUFFICES ASSUME NEW c \in Clients
               PROVE  /\ OnLine(c)' => unread'[c] = <<SentByte(c)>> /\ Speaks(c, SentByte(c))
                                       /\ ~InHand(c)' /\ ~HeardFrom(c)' /\ ~Silent(c)'
                      /\ InHand(c)' => Speaks(c, byte') /\ ~HeardFrom(c)' /\ ~Silent(c)'
                      /\ HeardFrom(c)' => ~Silent(c)'
    BY DEF OneByte
  <2>1. CASE c = peer
    BY <1>3, <1>8, <2>1
  <2>2. CASE c # peer
    BY <1>1, <1>2, <1>8, <2>2 DEF OneByte
  <2> QED
    BY <2>1, <2>2
<1>10. Admitted'
  BY <1>2 DEF PortInv, Admitted
<1>11. NamedExceptionRaised'
  <2>1. ASSUME NEW i \in 1 .. Len(raised) + 1
        PROVE  Speaks(raised'[i][1], raised'[i][2])
    <3>1. CASE i = Len(raised) + 1
      BY <1>3, <1>5, <3>1
    <3>2. CASE i # Len(raised) + 1
      <4>1. i \in 1 .. Len(raised) /\ i \in DOMAIN raised
        BY <1>6, <3>2
      <4>2. Speaks(raised[i][1], raised[i][2])
        BY <1>1, <4>1 DEF NamedExceptionRaised, Speaks, Wanted
      <4> QED
        BY <1>5, <4>1, <4>2
    <3> QED
      BY <3>1, <3>2
  <2>2. ASSUME NEW i \in 1 .. Len(raised) + 1, NEW j \in 1 .. Len(raised) + 1,
               raised'[i][1] = raised'[j][1]
        PROVE  i = j
    <3>1. \A k \in 1 .. Len(raised) : raised'[k][1] = raised[k][1] /\ raised[k][1] # peer
      BY <1>3, <1>5, <1>6 DEF HeardFrom
    <3>2. raised'[Len(raised) + 1][1] = peer
      BY <1>5
    <3>3. CASE i \in 1 .. Len(raised) /\ j \in 1 .. Len(raised)
      BY <1>1, <1>6, <2>2, <3>1, <3>3 DEF NamedExceptionRaised
    <3> QED
      BY <1>6, <2>2, <3>1, <3>2, <3>3
  <2> QED
    BY <1>6, <2>1, <2>2 DEF NamedExceptionRaised, Speaks, Wanted
<1> QED
  BY <1>7, <1>9, <1>10, <1>11 DEF PortInv

(* The other steps of the irq thread, and of the rest of the program, move *)
(* no byte.                                                                *)
LEMMA PortStays ==
  ASSUME PortInv, UNCHANGED <<client, unread, byte, raised>>,
         queue' \in Seq(Clients), peer' \in Clients,
         \A c \in Clients : InHand(c)' => InHand(c)
  PROVE  PortInv'
<1>1. PortType'
  BY DEF PortInv, PortType
<1>2. Admitted'
  BY DEF PortInv, Admitted
<1>3. \A c \in Clients : Silent(c)' => Silent(c)
  BY DEF Silent
<1> QED
  BY <1>1, <1>2, <1>3, BytesStay

(* The same with the whole port as it was. *)
LEMMA SamePort ==
  ASSUME PortInv, UNCHANGED <<clientVars, queue, threadVars, raised>>
  PROVE  PortInv'
<1>1. queue' \in Seq(Clients) /\ peer' \in Clients
  BY DEF threadVars, PortInv, PortType
<1>2. \A c \in Clients : InHand(c)' => InHand(c)
  BY DEF threadVars, InHand
<1> QED
  BY <1>1, <1>2, PortStays DEF clientVars, threadVars

(* Accepting and the end of a connection come with empty hands; the lock   *)
(* changes nothing about the byte in hand.                                 *)
LEMMA IrqStays == ASSUME PortInv, IrqThread PROVE PortInv'
<1>1. PortType
  BY DEF PortInv
<1>2. CASE Accept
  <2>1. /\ UNCHANGED <<client, unread, byte, raised>> /\ queue # <<>>
        /\ peer' = Head(queue) /\ queue' = Tail(queue) /\ listener' = "reading"
    BY <1>2 DEF Accept, clientVars
  <2>2. queue' \in Seq(Clients) /\ peer' \in Clients
    BY <1>1, <2>1 DEF PortType
  <2>3. \A c \in Clients : ~InHand(c)'
    BY <2>1 DEF InHand
  <2> QED
    BY <2>1, <2>2, <2>3, PortStays
<1>3. CASE AcceptFails \/ ReadEnd \/ LockForIrq
  <2>1. /\ UNCHANGED <<client, unread, byte, raised, queue, peer>>
        /\ listener' \in {"locking", "raising"} => listener \in {"locking", "raising"}
    BY <1>3 DEF AcceptFails, ReadEnd, LockForIrq, clientVars, threadVars
  <2>2. queue' \in Seq(Clients) /\ peer' \in Clients
    BY <1>1, <2>1 DEF PortType
  <2>3. \A c \in Clients : InHand(c)' => InHand(c)
    BY <2>1 DEF InHand
  <2> QED
    BY <2>1, <2>2, <2>3, PortStays
<1> QED
  BY <1>2, <1>3, ReadStays, RaiseStays DEF IrqThread

(* Every step of the program keeps the bytes in order. *)
LEMMA StepKeepsPort == ASSUME PortInv, [MainNext]_allVars PROVE PortInv'
<1>1. CASE ParseOption
  <2>1. PICK option \in Options :
          \/ PortOption(option[1], option[2])
          \/ TraceOption(option[1])
          \/ DebugOption(option[2])
          \/ EndingOption(option[1])
    BY <1>1 DEF ParseOption
  <2>2. UNCHANGED <<clientVars, queue, threadVars, raised>>
    BY <2>1 DEF PortOption, TraceOption, DebugOption, EndingOption, portVars
  <2> QED
    BY <2>2, SamePort
<1>2. CASE DebugMessage \/ SearchOn \/ StartThreads \/ OpenGdbPort
  BY <1>2, SamePort DEF DebugMessage, SearchOn, StartThreads, OpenGdbPort, portVars
<1>3. CASE OpenIrqPort
  <2>1. /\ UNCHANGED <<client, unread, byte, raised, queue, peer>>
        /\ listener' \in {"locking", "raising"} => listener \in {"locking", "raising"}
    BY <1>3 DEF OpenIrqPort, clientVars
  <2>2. queue' \in Seq(Clients) /\ peer' \in Clients
    BY <2>1 DEF PortInv, PortType
  <2>3. \A c \in Clients : InHand(c)' => InHand(c)
    BY <2>1 DEF InHand
  <2> QED
    BY <2>1, <2>2, <2>3, PortStays
<1>4. CASE AcceptDebugger \/ LockForGdb \/ FinishRequest \/ DebuggerLeaves \/ Return
  BY <1>4, SamePort DEF AcceptDebugger, LockForGdb, FinishRequest, DebuggerLeaves,
                        Return, portVars
<1>5. ASSUME NEW s \in Senders, Sender(s) PROVE PortInv'
  BY <1>5, ClientStays, WriteStays DEF Sender, Clients
<1>6. ASSUME NEW c \in Others, Other(c) PROVE PortInv'
  BY <1>6, ClientStays DEF Other, Clients
<1>7. CASE IrqThread
  BY <1>7, IrqStays
<1>8. CASE UNCHANGED allVars
  BY <1>8, SamePort DEF allVars, portVars
<1> QED
  BY <1>1, <1>2, <1>3, <1>4, <1>5, <1>6, <1>7, <1>8 DEF MainNext

(* Every exception raised is the one its sender named, and is raised once: *)
(* for any number of senders and other clients, whatever they name, and in *)
(* any order of connections (send_irq, irq_listener).                      *)
THEOREM NamedExceptionHolds == MainSpec => []NamedExceptionRaised
<1>1. MainInit => PortInv
  BY InitPort
<1>2. PortInv /\ [MainNext]_allVars => PortInv'
  BY StepKeepsPort
<1>3. PortInv => NamedExceptionRaised
  BY DEF PortInv
<1> QED
  BY <1>1, <1>2, <1>3, PTL DEF MainSpec
=============================================================================

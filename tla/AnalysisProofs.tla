---------------------------- MODULE AnalysisProofs ----------------------------
(***************************************************************************)
(* Theorems about the machines of the analysis: what the guarded reader of *)
(* the Go engines (SourceReader) answers, for contents and limits of any   *)
(* size and any number of changes made while it reads; what an analysis    *)
(* session (AnalysisSession) leaves behind; and what the Go engines say of *)
(* any directory, edited while they run as often and as it may be: that    *)
(* they agree, that their proofs and the edges are true, that the snapshot *)
(* they work on holds the files git would leave it, and that what          *)
(* they say of types and interfaces (GoInterfaces) is true of a package of *)
(* any size, whichever of its files could be read.                         *)
(***************************************************************************)
EXTENDS AnalysisSession, SourceReader, GoInterfaces, SequenceTheorems, FiniteSetTheorems,
        WellFoundedInduction, TLAPS

-----------------------------------------------------------------------------
(* The reader: its invariant *)

ReaderSteps == {"resolving", "opening", "listing", "ready", "checked", "opened", "answered"}
DirectoryErrors == {"none", "not exist", "outside root", "escapes"}
Refusals == {"missing", "outside root", "unreadable"}

\* Named, and expanded only where the bytes matter.
Bytes == Seq(0..255)

ReaderType ==
    [engine : Engines, step : ReaderSteps, directory : Directories \cup {NoDirectory},
     error : DirectoryErrors, link : BOOLEAN, text : Texts \cup {<<>>},
     named : BOOLEAN, data : Bytes, torn : BOOLEAN,
     answer : Refusals \cup {"none", "oversized", "data"}]

ReaderTypeOK ==
    /\ place \in Places /\ held \in [Directories -> Entries] /\ reader \in ReaderType
    /\ disturbed \in Nat

\* What is found now is in the history, and it never loses anything.
HistoryInv ==
    /\ Found(place) \in history
    /\ \A d \in Directories : Found(d) \in history

ReadData == reader.step = "answered" /\ reader.answer = "data"
NoFileSeen == \E seen \in history : seen.entry.kind # "file"

\* What the reader has found out at each of its steps was so at some moment
\* since it was made.
FoundInv ==
    /\ reader.step \in ReaderSteps \ {"ready", "answered"} => reader.error = "none"
    /\ reader.error = "none" /\ reader.step \in ReaderSteps \ {"resolving", "opening", "answered"} =>
          reader.directory \in Directories
    /\ reader.step = "opened" => reader.text \in Texts /\ Was(reader.text)
    /\ reader.error # "none" => NoFileSeen
    /\ reader.step = "answered" =>
          /\ reader.answer # "none"
          /\ reader.answer \in Refusals => NoFileSeen
          /\ reader.answer = "oversized" => \E seen \in history : Len(seen.entry.text) > MaxFileSize

\* Every byte that was read was in the file at its place; and what was read is
\* the beginning of the file as it is now, unless it was overwritten since.
ByteSeen(i, byte) == \E text \in Texts : Was(text) /\ i \in DOMAIN text /\ text[i] = byte
Begins == Len(reader.data) <= Len(reader.text)
          /\ \A i \in 1..Len(reader.data) : reader.text[i] = reader.data[i]
Whole == Len(reader.data) <= MaxFileSize /\ (~reader.torn => Was(reader.data))
PiecesInv ==
    /\ reader.step \notin {"opened", "answered"} => reader.data = <<>> /\ ~reader.torn
    /\ \A i \in 1..Len(reader.data) : ByteSeen(i, reader.data[i])
    /\ reader.step = "opened" /\ ~reader.torn => Begins
    /\ ReadData => Whole

\* Undisturbed, it is so still.
CalmInv ==
    disturbed = 0 =>
      /\ reader.error # "escapes"
      /\ reader.error = "not exist" => place = "nothing"
      /\ reader.error = "outside root" => place = "outside"
      /\ reader.error = "none" /\ reader.step \notin {"resolving", "answered"} =>
            place \in Directories
      /\ reader.error = "none" /\ reader.step \in {"listing", "ready", "checked", "opened"} =>
            reader.directory = place
      /\ reader.error = "none" /\ reader.step = "ready" =>
            (reader.link <=> held[place] \in Links)
      /\ reader.step = "checked" => held[place] \notin {Link("outside"), Link("dangling")}
      /\ reader.step = "opened" => held[place] = File(reader.text) /\ ~reader.torn
      /\ reader.step = "answered" => reader.answer \in Expected

ReaderInv == ReaderTypeOK /\ HistoryInv /\ FoundInv /\ PiecesInv /\ CalmInv

LEMMA EntryKinds ==
    ASSUME NEW entry \in Entries
    PROVE  \/ \E text \in Texts : entry = File(text)
           \/ entry \in {Link("elsewhere"), Link("outside"), Link("dangling"), Absent, Special, Denied}
  BY DEF Entries, Links

LEMMA EntryFields ==
    /\ \A text : File(text).kind = "file" /\ File(text).text = text
    /\ \A target : Link(target).kind = target
    /\ Absent.kind = "absent" /\ Special.kind = "special" /\ Denied.kind = "denied"
  BY DEF File, Link, Absent, Special, Denied

\* The end that is found is that of the file, or lies just beyond the limit.
LEMMA EndBounds ==
    ASSUME NEW text \in Texts
    PROVE  /\ text \in Seq(0..255) /\ Len(text) \in Nat /\ End(text) \in Nat
           /\ End(text) <= Len(text) /\ End(text) \in {Len(text), MaxFileSize + 1}
  <1> USE ReaderAssumption
  <1>1. text \in Seq(0..255) /\ Len(text) \in Nat
    OBVIOUS
  <1>2. \E n \in {Len(text), MaxFileSize + 1} : \A m \in {Len(text), MaxFileSize + 1} : n <= m
    BY <1>1
  <1>3. /\ End(text) \in {Len(text), MaxFileSize + 1}
        /\ \A m \in {Len(text), MaxFileSize + 1} : End(text) <= m
    BY <1>2 DEF End, Min
  <1> QED
    BY <1>1, <1>3

\* Before the file is opened nothing has been read of it.
LEMMA UnreadInv ==
    ASSUME PiecesInv, reader.step \notin {"opened", "answered"},
           reader'.data = reader.data, reader'.torn = reader.torn,
           reader'.step = "opened" => reader'.text \in Texts, ~ReadData'
    PROVE  PiecesInv'
  <1>1. reader'.data = <<>> /\ ~reader'.torn
    BY DEF PiecesInv
  <1>2. reader'.step = "opened" => Len(reader'.text) \in Nat
    BY EndBounds
  <1> QED
    BY <1>1, <1>2 DEF PiecesInv, Begins

LEMMA ReaderInitInv == ReaderInit => ReaderInv
  <1> SUFFICES ASSUME ReaderInit PROVE ReaderInv
    OBVIOUS
  <1>1. PICK engine \in Engines :
        reader = [engine |-> engine, step |-> "resolving", directory |-> NoDirectory,
                  error |-> "none", link |-> FALSE, text |-> <<>>, named |-> FALSE,
                  data |-> <<>>, torn |-> FALSE, answer |-> "none"]
    BY DEF ReaderInit
  <1>2. ReaderTypeOK
    <2>1. <<>> \in Bytes
      BY DEF Bytes
    <2> QED
      BY <1>1, <2>1 DEF ReaderInit, ReaderTypeOK, ReaderType, ReaderSteps, DirectoryErrors, Refusals
  <1>3. HistoryInv
    BY DEF ReaderInit, HistoryInv
  <1>4. FoundInv /\ PiecesInv /\ CalmInv
    BY <1>1 DEF FoundInv, PiecesInv, CalmInv, ReaderSteps, ReadData
  <1> QED
    BY <1>2, <1>3, <1>4 DEF ReaderInv

-----------------------------------------------------------------------------
(* The reader's own steps *)

\* A place that is no directory holds no file, and neither does a link.
LEMMA NowNoFile ==
    ASSUME ReaderInv, Found(place).entry.kind # "file"
    PROVE  NoFileSeen
  BY DEF ReaderInv, HistoryInv, NoFileSeen

LEMMA HistoryStays ==
    ASSUME HistoryInv, UNCHANGED <<place, held, history>>
    PROVE  HistoryInv' /\ (NoFileSeen' <=> NoFileSeen) /\ Found(place)' = Found(place)
  BY DEF HistoryInv, NoFileSeen, Found

\* The first steps make the reader: each fails, or goes on to the next.
LEMMA FailInv ==
    ASSUME ReaderInv, reader.step \in {"resolving", "opening", "listing"}, NEW error,
           Fail(error),
           \/ error = "not exist" /\ place = "nothing"
           \/ error = "outside root" /\ place = "outside"
           \/ error = "escapes" /\ place = "outside" /\ disturbed # 0
    PROVE  ReaderInv'
  <1> USE DEF ReaderInv
  <1>1. reader' = [reader EXCEPT !.step = "ready", !.error = error]
        /\ UNCHANGED <<place, held, disturbed, history>>
    BY DEF Fail, Reader
  <1>2. error \in DirectoryErrors \ {"none"}
    BY DEF DirectoryErrors
  <1>3. ReaderTypeOK'
    BY <1>1, <1>2 DEF ReaderTypeOK, ReaderType, ReaderSteps
  <1>4. reader'.step = "ready" /\ reader'.error = error
    BY <1>1 DEF ReaderTypeOK, ReaderType
  <1>5. NoFileSeen
    <2>1. place \notin Directories
      BY ReaderAssumption
    <2>2. Found(place).entry.kind # "file"
      BY <2>1, EntryFields DEF Found
    <2> QED
      BY <2>2, NowNoFile
  <1>6. HistoryInv' /\ NoFileSeen'
    BY <1>1, <1>5, HistoryStays
  <1>7. FoundInv'
    BY <1>2, <1>4, <1>6 DEF FoundInv, ReadData
  <1>8. CalmInv'
    BY <1>1, <1>2, <1>4 DEF CalmInv
  <1>9. PiecesInv'
    <2>1. reader'.data = reader.data /\ reader'.torn = reader.torn
      BY <1>1 DEF ReaderTypeOK, ReaderType
    <2> QED
      BY <1>4, <2>1, UnreadInv DEF ReadData
  <1> QED
    BY <1>3, <1>6, <1>7, <1>8, <1>9

LEMMA ResolveDirectoryInv ==
    ASSUME ReaderInv, ResolveDirectory
    PROVE  ReaderInv'
  <1>1. reader.step = "resolving" /\ reader.error = "none"
    BY DEF ResolveDirectory, ReaderInv, FoundInv, ReaderSteps
  <1>2. CASE place \in {"nothing", "outside"}
    BY <1>1, <1>2, FailInv DEF ResolveDirectory
  <1>3. CASE place \notin {"nothing", "outside"}
    <2> USE DEF ReaderInv
    <2>1. reader' = [reader EXCEPT !.step = "opening"] /\ UNCHANGED <<place, held, disturbed, history>>
      BY <1>3 DEF ResolveDirectory, Reader
    <2>2. ReaderTypeOK'
      BY <2>1 DEF ReaderTypeOK, ReaderType, ReaderSteps
    <2>3. reader'.step = "opening" /\ reader'.error = reader.error
      BY <2>1 DEF ReaderTypeOK, ReaderType
    <2>4. place \in Directories
      BY <1>3 DEF ReaderTypeOK, Places
    <2>5. HistoryInv' /\ (NoFileSeen' <=> NoFileSeen)
      BY <2>1, HistoryStays
    <2>6. FoundInv'
      BY <1>1, <2>3, <2>5 DEF FoundInv, ReadData
    <2>7. CalmInv'
      BY <1>1, <2>1, <2>3, <2>4 DEF CalmInv
    <2>8. PiecesInv'
      <3>1. reader'.data = reader.data /\ reader'.torn = reader.torn
        BY <2>1 DEF ReaderTypeOK, ReaderType
      <3> QED
        BY <1>1, <2>3, <3>1, UnreadInv DEF ReadData
    <2> QED
      BY <2>2, <2>5, <2>6, <2>7, <2>8
  <1> QED
    BY <1>2, <1>3

LEMMA OpenDirectoryInv ==
    ASSUME ReaderInv, OpenDirectory
    PROVE  ReaderInv'
  <1>1. reader.step = "opening" /\ reader.error = "none"
    BY DEF OpenDirectory, ReaderInv, FoundInv, ReaderSteps
  <1>2. CASE place \in {"nothing", "outside"}
    <2>1. disturbed # 0
      BY <1>1, <1>2, ReaderAssumption DEF ReaderInv, CalmInv
    <2> QED
      BY <1>1, <1>2, <2>1, FailInv DEF OpenDirectory
  <1>3. CASE place \notin {"nothing", "outside"}
    <2> USE DEF ReaderInv
    <2>1. reader' = [reader EXCEPT !.step = "listing", !.directory = place]
          /\ UNCHANGED <<place, held, disturbed, history>>
      BY <1>3 DEF OpenDirectory, Reader
    <2>2. place \in Directories
      BY <1>3 DEF ReaderTypeOK, Places
    <2>3. ReaderTypeOK'
      BY <2>1, <2>2 DEF ReaderTypeOK, ReaderType, ReaderSteps
    <2>4. reader'.step = "listing" /\ reader'.error = "none" /\ reader'.directory = place
      BY <1>1, <2>1 DEF ReaderTypeOK, ReaderType
    <2>5. HistoryInv' /\ (NoFileSeen' <=> NoFileSeen)
      BY <2>1, HistoryStays
    <2>6. FoundInv'
      BY <2>2, <2>4, <2>5 DEF FoundInv, ReadData
    <2>7. CalmInv'
      BY <2>1, <2>2, <2>4 DEF CalmInv
    <2>8. PiecesInv'
      <3>1. reader'.data = reader.data /\ reader'.torn = reader.torn
        BY <2>1 DEF ReaderTypeOK, ReaderType
      <3> QED
        BY <1>1, <2>4, <3>1, UnreadInv DEF ReadData
    <2> QED
      BY <2>3, <2>5, <2>6, <2>7, <2>8
  <1> QED
    BY <1>2, <1>3

LEMMA ListDirectoryInv ==
    ASSUME ReaderInv, ListDirectory
    PROVE  ReaderInv'
  <1>1. reader.step = "listing" /\ reader.error = "none" /\ reader.directory \in Directories
    BY DEF ListDirectory, ReaderInv, FoundInv, ReaderSteps
  <1>2. CASE place = "nothing"
    BY <1>1, <1>2, FailInv DEF ListDirectory
  <1>3. CASE place # "nothing"
    <2> USE DEF ReaderInv
    <2>1. PICK l \in BOOLEAN : l <=> Found(place).entry \in Links
      OBVIOUS
    <2>2. reader' = [reader EXCEPT !.step = "ready", !.link = l]
      <3>1. reader' = [reader EXCEPT !.step = "ready", !.link = Found(place).entry \in Links]
        BY <1>3, Zenon DEF ListDirectory, Reader
      <3>2. (Found(place).entry \in Links) = l
        BY <2>1, Zenon
      <3> QED
        BY <3>1, <3>2, Zenon
    <2>3. UNCHANGED <<place, held, disturbed, history>>
      BY <1>3 DEF ListDirectory, Reader
    <2>4. ReaderTypeOK'
      BY <2>2, <2>3 DEF ReaderTypeOK, ReaderType, ReaderSteps
    <2>5. /\ reader'.step = "ready" /\ reader'.error = "none"
          /\ reader'.directory = reader.directory /\ (reader'.link <=> l)
      BY <1>1, <2>2 DEF ReaderTypeOK, ReaderType
    <2>6. HistoryInv' /\ (NoFileSeen' <=> NoFileSeen)
      BY <2>3, HistoryStays
    <2>7. FoundInv'
      BY <1>1, <2>5, <2>6 DEF FoundInv, ReadData
    <2>8. disturbed = 0 => place \in Directories /\ reader.directory = place
      BY <1>1 DEF CalmInv
    <2>9. disturbed = 0 => (l <=> held[place] \in Links)
      BY <2>1, <2>8 DEF Found
    <2>10. CalmInv'
      BY <2>3, <2>5, <2>8, <2>9 DEF CalmInv
    <2>11. PiecesInv'
      <3>1. reader'.data = reader.data /\ reader'.torn = reader.torn
        BY <2>2 DEF ReaderTypeOK, ReaderType
      <3> QED
        BY <1>1, <2>5, <3>1, UnreadInv DEF ReadData
    <2> QED
      BY <2>4, <2>6, <2>7, <2>10, <2>11
  <1> QED
    BY <1>2, <1>3

\* What the engines make of each error.
LEMMA Errors ==
    ASSUME NEW engine \in Engines
    PROVE  /\ ErrorOf(engine, "outside root") = "outside root"
           /\ ErrorOf(engine, "link outside") = "outside root"
           /\ ErrorOf(engine, "not exist") = "missing"
           /\ ErrorOf(engine, "dangling") \in {"missing", "outside root"}
           /\ ErrorOf(engine, "escapes") = "unreadable"
           /\ ErrorOf(engine, "denied") \in {"unreadable", "outside root"}
           /\ ErrorOf(engine, "not regular") = "unreadable"
  <1>1. engine \in {"golang", "go-package-identity", "go-semantic"}
    BY ReaderAssumption
  <1> QED
    BY <1>1 DEF ErrorOf, GolangError, ManifestError, SemanticError

LEMMA ExpectedStays ==
    ASSUME UNCHANGED <<place, held>>
    PROVE  Expected' = Expected
  BY DEF Expected, Found

LEMMA ExpectedCases ==
    ASSUME NEW entry, entry = Found(place).entry
    PROVE  /\ place = "outside" \/ entry.kind = "outside" => Expected = {"outside root"}
           /\ place = "nothing" => Expected = {"missing"}
           /\ place \in Directories =>
                /\ entry.kind = "absent" => Expected = {"missing"}
                /\ entry.kind = "dangling" => Expected = {"missing", "outside root"}
                /\ entry.kind = "denied" => Expected = {"unreadable", "outside root"}
                /\ entry.kind \in {"elsewhere", "special"} => Expected = {"unreadable"}
                /\ entry.kind = "file" =>
                     Expected = {IF Len(entry.text) > MaxFileSize THEN "oversized" ELSE "data"}
  <1>1. CASE place = "outside"
    <2>1. entry.kind = "absent" /\ place \notin Directories
      BY <1>1, ReaderAssumption, EntryFields DEF Found
    <2> QED
      BY <1>1, <2>1 DEF Expected
  <1>2. CASE place = "nothing"
    <2>1. entry.kind = "absent" /\ place \notin Directories
      BY <1>2, ReaderAssumption, EntryFields DEF Found
    <2> QED
      BY <1>2, <2>1 DEF Expected
  <1>3. CASE place \notin {"nothing", "outside"}
    BY <1>3 DEF Expected
  <1> QED
    BY <1>1, <1>2, <1>3

\* A read is refused rightly if there was no file to be read, and if it is
\* refused with what is expected where nothing has changed.
LEMMA AnsweringInv ==
    ASSUME ReaderInv, reader.step \notin {"opened", "answered"}, NEW error, Answering(error), NEW answer \in Refusals,
           answer = ErrorOf(reader.engine, error),
           NoFileSeen,
           disturbed = 0 => reader.error # "escapes" /\ answer \in Expected,
           disturbed = 0 /\ reader.error = "not exist" => place = "nothing",
           disturbed = 0 /\ reader.error = "outside root" => place = "outside"
    PROVE  ReaderInv'
  <1> USE DEF ReaderInv
  <1>1. reader' = [reader EXCEPT !.step = "answered", !.answer = answer]
        /\ UNCHANGED <<place, held, disturbed, history>>
    BY DEF Answering, Reader
  <1>2. ReaderTypeOK'
    BY <1>1 DEF ReaderTypeOK, ReaderType, ReaderSteps
  <1>3. reader'.step = "answered" /\ reader'.answer = answer /\ reader'.error = reader.error
    BY <1>1 DEF ReaderTypeOK, ReaderType
  <1>4. answer \notin {"none", "data", "oversized"}
    BY DEF Refusals
  <1>5. HistoryInv' /\ NoFileSeen'
    BY <1>1, HistoryStays
  <1>6. FoundInv'
    BY <1>3, <1>4, <1>5 DEF FoundInv, ReadData
  <1>7. CalmInv'
    BY <1>1, <1>3, ExpectedStays DEF CalmInv
  <1>8. PiecesInv'
    <2>1. reader'.data = reader.data /\ reader'.torn = reader.torn
      BY <1>1 DEF ReaderTypeOK, ReaderType
    <2> QED
      BY <1>3, <1>4, <2>1, UnreadInv DEF ReadData
  <1> QED
    BY <1>2, <1>5, <1>6, <1>7, <1>8

LEMMA FollowLinkInv ==
    ASSUME ReaderInv, FollowLink
    PROVE  ReaderInv'
  <1> DEFINE entry == Found(place).entry
             leaves == reader.link /\ (place = "outside" \/ entry = Link("outside"))
             broken == reader.link /\ entry \in {Absent, Link("dangling")}
  <1>1. reader.step = "ready"
    BY DEF FollowLink
  <1>2. reader.engine \in Engines /\ reader.error \in DirectoryErrors
    BY DEF ReaderInv, ReaderTypeOK, ReaderType
  <1>3. /\ disturbed = 0 => reader.error # "escapes"
        /\ disturbed = 0 /\ reader.error = "not exist" => place = "nothing"
        /\ disturbed = 0 /\ reader.error = "outside root" => place = "outside"
    BY DEF ReaderInv, CalmInv
  <1>4. CASE reader.error # "none"
    <2>1. Answering(reader.error)
      BY <1>4 DEF FollowLink
    <2>2. NoFileSeen
      BY <1>4 DEF ReaderInv, FoundInv
    <2>3. PICK answer : answer = ErrorOf(reader.engine, reader.error)
      OBVIOUS
    <2>4. /\ answer \in Refusals
          /\ reader.error = "not exist" => answer = "missing"
          /\ reader.error = "outside root" => answer = "outside root"
      BY <1>2, <1>4, <2>3, Errors DEF DirectoryErrors, Refusals
    <2>5. disturbed = 0 => answer \in Expected
      <3> SUFFICES ASSUME disturbed = 0 PROVE answer \in Expected
        OBVIOUS
      <3>1. CASE reader.error = "not exist"
        <4>1. place = "nothing" /\ place \notin Directories
          BY <1>3, <3>1, ReaderAssumption
        <4> QED
          BY <2>4, <3>1, <4>1, ExpectedCases
      <3>2. CASE reader.error = "outside root"
        BY <1>3, <2>4, <3>2, ExpectedCases
      <3> QED
        BY <1>2, <1>3, <1>4, <3>1, <3>2 DEF DirectoryErrors
    <2> QED
      BY <1>1, <1>3, <2>1, <2>2, <2>3, <2>4, <2>5, AnsweringInv
  <1>5. CASE reader.error = "none" /\ leaves /\ Answering("link outside")
    <2>1. entry.kind # "file"
      BY <1>5, ReaderAssumption, EntryFields DEF Found
    <2>2. NoFileSeen
      BY <2>1, NowNoFile
    <2>3. "outside root" \in Expected
      BY <1>5, EntryFields, ExpectedCases
    <2>4. ErrorOf(reader.engine, "link outside") = "outside root"
      BY <1>2, Errors
    <2> QED
      BY <1>1, <1>3, <1>5, <2>2, <2>3, <2>4, AnsweringInv DEF Refusals
  <1>6. CASE reader.error = "none" /\ broken /\ Answering("dangling")
    <2>1. entry.kind # "file"
      BY <1>6, EntryFields
    <2>2. NoFileSeen
      BY <2>1, NowNoFile
    <2>3. PICK answer : answer = ErrorOf(reader.engine, "dangling")
      OBVIOUS
    <2>4. answer \in {"missing", "outside root"}
      BY <1>2, <2>3, Errors
    <2>5. disturbed = 0 => answer \in Expected
      <3> SUFFICES ASSUME disturbed = 0 PROVE answer \in Expected
        OBVIOUS
      <3>1. place \in Directories /\ held[place] \in Links
        BY <1>1, <1>6 DEF ReaderInv, CalmInv
      <3>2. entry = Link("dangling")
        BY <1>6, <3>1, EntryFields DEF Found, Links
      <3> QED
        BY <2>4, <3>1, <3>2, EntryFields, ExpectedCases
    <2>6. answer \in Refusals
      BY <2>4 DEF Refusals
    <2> QED
      BY <1>1, <1>3, <1>6, <2>2, <2>3, <2>5, <2>6, AnsweringInv
  <1>7. CASE reader.error = "none" /\ ~leaves /\ ~broken /\ Reader([reader EXCEPT !.step = "checked"])
    <2> USE DEF ReaderInv
    <2>1. reader' = [reader EXCEPT !.step = "checked"] /\ UNCHANGED <<place, held, disturbed, history>>
      BY <1>7 DEF Reader
    <2>2. ReaderTypeOK'
      BY <2>1 DEF ReaderTypeOK, ReaderType, ReaderSteps
    <2>3. /\ reader'.step = "checked" /\ reader'.error = "none"
          /\ reader'.directory = reader.directory
      BY <1>7, <2>1 DEF ReaderTypeOK, ReaderType
    <2>4. HistoryInv' /\ (NoFileSeen' <=> NoFileSeen)
      BY <2>1, HistoryStays
    <2>5. reader.directory \in Directories
      BY <1>1, <1>7 DEF FoundInv, ReaderSteps
    <2>6. FoundInv'
      BY <1>7, <2>3, <2>4, <2>5 DEF FoundInv, ReadData
    <2>7. disturbed = 0 =>
            /\ place \in Directories /\ reader.directory = place
            /\ held[place] \notin {Link("outside"), Link("dangling")}
      BY <1>1, <1>7 DEF CalmInv, Found, Links
    <2>8. CalmInv'
      BY <2>1, <2>3, <2>7 DEF CalmInv
    <2>9. PiecesInv'
      <3>1. reader'.data = reader.data /\ reader'.torn = reader.torn
        BY <2>1 DEF ReaderTypeOK, ReaderType
      <3> QED
        BY <1>1, <2>3, <3>1, UnreadInv DEF ReadData
    <2> QED
      BY <2>2, <2>4, <2>6, <2>8, <2>9
  <1> QED
    BY <1>4, <1>5, <1>6, <1>7 DEF FollowLink

LEMMA OpenFileInv ==
    ASSUME ReaderInv, OpenFile
    PROVE  ReaderInv'
  <1>1. reader.step = "checked" /\ reader.error = "none" /\ reader.directory \in Directories
    BY DEF OpenFile, ReaderInv, FoundInv, ReaderSteps
  <1>2. reader.engine \in Engines
    BY DEF ReaderInv, ReaderTypeOK, ReaderType
  <1>3. PICK entry \in Entries : entry = held[reader.directory]
    BY <1>1 DEF ReaderInv, ReaderTypeOK
  <1>4. [place |-> reader.directory, entry |-> entry] \in history
    <2>1. Found(reader.directory) \in history
      BY <1>1 DEF ReaderInv, HistoryInv
    <2> QED
      BY <1>1, <1>3, <2>1 DEF Found
  <1>5. disturbed = 0 =>
          /\ reader.directory = place /\ Found(place).entry = entry
          /\ place \in Directories
          /\ entry \notin {Link("outside"), Link("dangling")}
    BY <1>1, <1>3 DEF ReaderInv, CalmInv, Found
  <1>6. ASSUME entry.kind # "file"
        PROVE  NoFileSeen
    BY <1>4, <1>6 DEF NoFileSeen
  <1>7. /\ entry = Denied => entry \notin {Absent, Link("dangling"), Link("elsewhere"), Link("outside")}
        /\ entry = Special =>
              entry \notin {Absent, Link("dangling"), Link("elsewhere"), Link("outside"), Denied}
        /\ entry \in {Link("elsewhere"), Link("outside")} => entry \notin {Absent, Link("dangling")}
    BY EntryFields
  <1>8. CASE entry \in {Absent, Link("dangling")}
    <2>1. Answering("not exist")
      BY <1>3, <1>8, <1>7 DEF OpenFile
    <2>2. ErrorOf(reader.engine, "not exist") = "missing"
      BY <1>2, Errors
    <2>3. NoFileSeen
      BY <1>6, <1>8, EntryFields
    <2>4. disturbed = 0 => "missing" \in Expected
      BY <1>5, <1>8, EntryFields, ExpectedCases
    <2> QED
      BY <1>1, <2>1, <2>2, <2>3, <2>4, AnsweringInv DEF Refusals
  <1>9. CASE entry \in {Link("elsewhere"), Link("outside")}
    <2>1. Answering("escapes")
      BY <1>3, <1>9, <1>7 DEF OpenFile
    <2>2. ErrorOf(reader.engine, "escapes") = "unreadable"
      BY <1>2, Errors
    <2>3. NoFileSeen
      BY <1>6, <1>9, EntryFields
    <2>4. disturbed = 0 => "unreadable" \in Expected
      <3>1. disturbed = 0 => place \in Directories /\ entry = Found(place).entry /\ entry.kind = "elsewhere"
        BY <1>5, <1>9, EntryFields
      <3> QED
        BY <3>1, ExpectedCases
    <2> QED
      BY <1>1, <2>1, <2>2, <2>3, <2>4, AnsweringInv DEF Refusals
  <1>10. CASE entry = Denied
    <2>1. Answering("denied")
      BY <1>3, <1>10, <1>7 DEF OpenFile
    <2>2. PICK answer : answer = ErrorOf(reader.engine, "denied")
      OBVIOUS
    <2>3. answer \in {"unreadable", "outside root"} /\ answer \in Refusals
      BY <1>2, <2>2, Errors DEF Refusals
    <2>4. NoFileSeen
      BY <1>6, <1>10, EntryFields
    <2>5. disturbed = 0 => answer \in Expected
      BY <1>5, <1>10, <2>3, EntryFields, ExpectedCases
    <2> QED
      BY <1>1, <2>1, <2>2, <2>3, <2>4, <2>5, AnsweringInv
  <1>11. CASE entry = Special
    <2>1. Answering("not regular")
      BY <1>3, <1>11, <1>7 DEF OpenFile
    <2>2. ErrorOf(reader.engine, "not regular") = "unreadable"
      BY <1>2, Errors
    <2>3. NoFileSeen
      BY <1>6, <1>11, EntryFields
    <2>4. disturbed = 0 => "unreadable" \in Expected
      BY <1>5, <1>11, EntryFields, ExpectedCases
    <2> QED
      BY <1>1, <2>1, <2>2, <2>3, <2>4, AnsweringInv DEF Refusals
  <1>12. ASSUME NEW text \in Texts, entry = File(text)
         PROVE  ReaderInv'
    <2> USE DEF ReaderInv
    <2>1. entry.kind = "file" /\ entry.text = text
      BY <1>12, EntryFields
    <2>2. entry \notin {Absent, Link("dangling"), Link("elsewhere"), Link("outside"), Denied, Special}
      BY <2>1, EntryFields
    <2>3. reader' = [reader EXCEPT !.step = "opened", !.text = text, !.named = TRUE]
          /\ UNCHANGED <<place, held, disturbed, history>>
      BY <1>3, <2>1, <2>2 DEF OpenFile, Reader
    <2>4. ReaderTypeOK'
      BY <2>3 DEF ReaderTypeOK, ReaderType, ReaderSteps
    <2>5. /\ reader'.step = "opened" /\ reader'.error = "none"
          /\ reader'.directory = reader.directory /\ reader'.text = text
          /\ reader'.data = reader.data /\ reader'.torn = reader.torn
      BY <1>1, <2>3 DEF ReaderTypeOK, ReaderType
    <2>6. HistoryInv' /\ (NoFileSeen' <=> NoFileSeen)
      BY <2>3, HistoryStays
    <2>7. FoundInv'
      BY <1>1, <1>4, <1>12, <2>3, <2>5, <2>6 DEF FoundInv, ReadData, Was
    <2>8. disturbed = 0 => place \in Directories /\ reader.directory = place /\ held[place] = File(text)
      BY <1>1, <1>3, <1>12 DEF CalmInv
    <2>9. ~reader.torn
      BY <1>1 DEF PiecesInv
    <2>10. CalmInv'
      BY <2>3, <2>5, <2>8, <2>9 DEF CalmInv
    <2>11. PiecesInv'
      BY <1>1, <2>5, UnreadInv DEF ReadData
    <2> QED
      BY <2>4, <2>6, <2>7, <2>10, <2>11
  <1>13. \/ \E text \in Texts : entry = File(text)
         \/ entry \in {Link("elsewhere"), Link("outside"), Link("dangling"), Absent, Special, Denied}
    BY EntryKinds
  <1> QED
    BY <1>8, <1>9, <1>10, <1>11, <1>12, <1>13

\* Each call reads on from where the last one ended, in the file as it is now.
LEMMA ReadPieceInv ==
    ASSUME ReaderInv, ReadPiece
    PROVE  ReaderInv'
  <1> USE DEF ReaderInv
  <1>1. reader.step = "opened"
    BY DEF ReadPiece
  <1>2. PICK last \in (Len(reader.data) + 1)..End(reader.text) :
          Reader([reader EXCEPT !.data = @ \o SubSeq(reader.text, Len(reader.data) + 1, last)])
    BY DEF ReadPiece
  <1>3. PICK text \in Texts : text = reader.text /\ Was(text)
    BY <1>1 DEF FoundInv
  <1>4. PICK old \in Seq(0..255) : old = reader.data
    BY DEF ReaderTypeOK, ReaderType, Bytes
  <1>5. text \in Seq(0..255) /\ last \in Len(old) + 1..Len(text)
    BY <1>2, <1>3, <1>4, EndBounds
  <1>6. PICK piece \in Seq(0..255) :
          /\ piece = SubSeq(text, Len(old) + 1, last)
          /\ Len(piece) = last - Len(old)
          /\ \A i \in 1..Len(piece) : piece[i] = text[Len(old) + i]
    <2>1. PICK first \in 1..Len(text) : first = Len(old) + 1 /\ first <= last
      BY <1>5
    <2>2. \A i \in first..last : text[i] \in 0..255
      <3>1. last <= Len(text) /\ last \in Int
        BY <1>5
      <3>2. \A i \in 1..Len(text) : text[i] \in 0..255
        BY <1>5, ElementOfSeq
      <3>3. first..last \subseteq 1..Len(text)
        BY <2>1, <3>1
      <3> QED
        BY <3>2, <3>3
    <2>3. SubSeq(text, first, last) \in Seq(0..255)
      BY <1>5, <2>1, <2>2, SubSeqProperties
    <2>4. /\ Len(SubSeq(text, first, last)) = last - first + 1
          /\ \A i \in 1..(last - first + 1) : SubSeq(text, first, last)[i] = text[first + i - 1]
      BY <1>5, <2>1, SubSeqProperties
    <2>5. last - first + 1 = last - Len(old)
          /\ \A i \in 1..(last - first + 1) : first + i - 1 = Len(old) + i
      BY <1>5, <2>1
    <2>6. /\ Len(SubSeq(text, first, last)) = last - Len(old)
          /\ \A i \in 1..Len(SubSeq(text, first, last)) :
               SubSeq(text, first, last)[i] = text[Len(old) + i]
      BY <2>4, <2>5
    <2> QED
      BY <2>1, <2>3, <2>6
  <1>7. PICK new \in Seq(0..255) :
          /\ new = old \o piece /\ Len(new) = last
          /\ \A i \in 1..Len(old) : new[i] = old[i]
          /\ \A i \in Len(old) + 1..last : new[i] = text[i]
    <2>1. old \o piece \in Seq(0..255) /\ Len(old \o piece) = Len(old) + Len(piece)
      BY ConcatProperties
    <2>2. \A i \in 1..Len(old) : (old \o piece)[i] = old[i]
      BY <2>1, ConcatProperties
    <2>3. ASSUME NEW i \in Len(old) + 1..last
          PROVE  (old \o piece)[i] = text[i]
      <3>0. PICK m \in Nat, n \in Nat : m = Len(old) /\ n = Len(piece) /\ last = m + n
        BY <1>5, <1>6
      <3>1. PICK k \in 1..Len(piece) : k = i - Len(old) /\ i = Len(old) + k
        <4>1. i \in m + 1..m + n
          BY <3>0
        <4>2. i - m \in 1..n /\ i = m + (i - m)
          BY <4>1
        <4> QED
          BY <3>0, <4>2
      <3>2. (old \o piece)[i] = piece[k]
        BY <1>5, <1>6, <2>1, <2>3, <3>1, ConcatProperties
      <3> QED
        BY <1>6, <3>1, <3>2
    <2>4. Len(old \o piece) = last
      BY <1>5, <1>6, <2>1
    <2>5. \A i \in Len(old) + 1..last : (old \o piece)[i] = text[i]
      BY <2>3
    <2> QED
      BY <2>1, <2>2, <2>4, <2>5
  <1>8. reader' = [reader EXCEPT !.data = new] /\ UNCHANGED <<place, held, disturbed, history>>
    <2>1. reader' = [reader EXCEPT !.data = reader.data \o SubSeq(reader.text, Len(reader.data) + 1, last)]
          /\ UNCHANGED <<place, held, disturbed, history>>
      BY <1>2 DEF Reader
    <2> QED
      BY <1>3, <1>4, <1>6, <1>7, <2>1
  <1>9. ReaderTypeOK'
    <2>1. new \in Bytes
      BY DEF Bytes
    <2> QED
      BY <1>8, <2>1 DEF ReaderTypeOK, ReaderType
  <1>10. /\ reader'.step = "opened" /\ reader'.error = reader.error /\ reader'.answer = reader.answer
         /\ reader'.text = text /\ reader'.data = new /\ reader'.torn = reader.torn
         /\ reader'.directory = reader.directory
    BY <1>1, <1>3, <1>8 DEF ReaderTypeOK, ReaderType
  <1>11. HistoryInv' /\ (NoFileSeen' <=> NoFileSeen) /\ \A t \in Texts : Was(t) => Was(t)'
    BY <1>8, <1>10, HistoryStays DEF Was
  <1>12. FoundInv'
    BY <1>1, <1>3, <1>10, <1>11 DEF FoundInv, ReadData
  <1>13. PiecesInv'
    <2>1. ASSUME NEW i \in 1..Len(new)
          PROVE  ByteSeen(i, new[i])'
      <3>1. CASE i <= Len(old)
        <4>1. ByteSeen(i, old[i])
          BY <1>4, <2>1, <3>1 DEF PiecesInv
        <4> QED
          BY <1>7, <1>11, <2>1, <3>1, <4>1 DEF ByteSeen
      <3>2. CASE ~(i <= Len(old))
        <4>1. i \in Len(old) + 1..last /\ i \in DOMAIN text
          BY <1>5, <1>7, <2>1, <3>2
        <4> QED
          BY <1>3, <1>7, <1>11, <4>1 DEF ByteSeen
      <3> QED
        BY <3>1, <3>2
    <2>2. ASSUME ~reader.torn
          PROVE  Len(new) <= Len(text) /\ \A i \in 1..Len(new) : text[i] = new[i]
      <3>1. \A i \in 1..Len(old) : text[i] = old[i]
        BY <1>1, <1>3, <1>4, <2>2 DEF PiecesInv, Begins
      <3>2. ASSUME NEW i \in 1..Len(new)
            PROVE  text[i] = new[i]
        <4>1. i \in 1..Len(old) \/ i \in Len(old) + 1..last
          BY <1>5, <1>7, <3>2
        <4> QED
          BY <1>7, <3>1, <4>1
      <3> QED
        BY <1>5, <1>7, <3>2
    <2> QED
      BY <1>10, <2>1, <2>2 DEF PiecesInv, Begins, ReadData
  <1>14. CalmInv'
    BY <1>1, <1>3, <1>8, <1>10 DEF CalmInv
  <1> QED
    BY <1>9, <1>11, <1>12, <1>13, <1>14

\* At the end, what was read is the file unless it was overwritten meanwhile.
LEMMA ReadEndInv ==
    ASSUME ReaderInv, ReadEnd
    PROVE  ReaderInv'
  <1> USE DEF ReaderInv
  <1>1. /\ reader.step = "opened" /\ reader.error = "none"
        /\ Len(reader.data) >= End(reader.text)
    BY DEF ReadEnd, FoundInv, ReaderSteps
  <1>2. PICK text \in Texts : text = reader.text /\ Was(text)
    BY <1>1 DEF FoundInv
  <1>3. PICK data \in Seq(0..255) : data = reader.data
    BY DEF ReaderTypeOK, ReaderType, Bytes
  <1>4. text \in Seq(0..255) /\ Len(text) \in Nat /\ Len(data) \in Nat /\ Len(data) >= End(text)
    BY <1>1, <1>2, <1>3, EndBounds
  <1>5. PICK answer \in {"oversized", "data"} :
          /\ answer = IF Len(data) > MaxFileSize THEN "oversized" ELSE "data"
          /\ reader' = [reader EXCEPT !.step = "answered", !.answer = answer]
          /\ UNCHANGED <<place, held, disturbed, history>>
    BY <1>3 DEF ReadEnd, Reader
  <1>6. /\ answer = "oversized" => Len(data) > MaxFileSize
        /\ answer = "data" => Len(data) <= MaxFileSize
    BY <1>4, <1>5, ReaderAssumption
  <1>7. ReaderTypeOK'
    <2>1. reader' \in ReaderType
      <3>1. reader \in ReaderType /\ answer \in Refusals \cup {"none", "oversized", "data"}
        BY DEF ReaderTypeOK
      <3> QED
        BY <1>5, <3>1 DEF ReaderType, ReaderSteps
    <2> QED
      BY <1>5, <2>1 DEF ReaderTypeOK
  <1>8. /\ reader'.step = "answered" /\ reader'.answer = answer /\ reader'.error = reader.error
        /\ reader'.data = data /\ reader'.torn = reader.torn /\ reader'.directory = reader.directory
    BY <1>3, <1>5 DEF ReaderTypeOK, ReaderType
  <1>9. HistoryInv' /\ (NoFileSeen' <=> NoFileSeen)
    BY <1>5, HistoryStays
  <1>10. \A t : Was(t) => Was(t)'
    BY <1>5, <1>8 DEF Was
  <1>11. ASSUME ~reader.torn
         PROVE  /\ Len(data) <= MaxFileSize => data = text
                /\ Len(data) > MaxFileSize => Len(text) > MaxFileSize
    <2>1. Len(data) <= Len(text) /\ \A i \in 1..Len(data) : text[i] = data[i]
      BY <1>1, <1>2, <1>3, <1>11 DEF PiecesInv, Begins
    <2>2. ASSUME Len(data) <= MaxFileSize
          PROVE  data = text
      <3>1. End(text) = Len(text)
        BY <1>4, <2>2, EndBounds, ReaderAssumption
      <3>2. Len(data) = Len(text)
        BY <1>4, <2>1, <3>1
      <3> QED
        BY <1>4, <2>1, <3>2, SeqEqual
    <2> QED
      BY <1>4, <2>1, <2>2, ReaderAssumption
  <1>12. PiecesInv'
    <2>1. \A i \in 1..Len(data) : ByteSeen(i, data[i]) => ByteSeen(i, data[i])'
      BY <1>10 DEF ByteSeen
    <2>2. answer = "data" => Len(data) <= MaxFileSize /\ (~reader.torn => Was(data)')
      BY <1>2, <1>6, <1>10, <1>11
    <2> QED
      BY <1>3, <1>8, <2>1, <2>2 DEF PiecesInv, ReadData, Whole
  <1>13. answer = "oversized" => \E seen \in history : Len(seen.entry.text) > MaxFileSize
    <2> SUFFICES ASSUME answer = "oversized" PROVE \E seen \in history : Len(seen.entry.text) > MaxFileSize
      OBVIOUS
    <2>1. MaxFileSize + 1 \in 1..Len(data)
      BY <1>4, <1>6, ReaderAssumption
    <2>2. ByteSeen(MaxFileSize + 1, data[MaxFileSize + 1])
      BY <1>3, <2>1 DEF PiecesInv
    <2>3. PICK was \in Texts : Was(was) /\ MaxFileSize + 1 \in DOMAIN was
      BY <2>2 DEF ByteSeen
    <2>4. Len(was) > MaxFileSize
      BY <2>3, EndBounds, ReaderAssumption
    <2>5. [place |-> reader.directory, entry |-> File(was)].entry.text = was
      BY EntryFields
    <2> QED
      BY <2>3, <2>4, <2>5 DEF Was
  <1>14. FoundInv'
    BY <1>1, <1>5, <1>8, <1>13 DEF FoundInv, ReadData, Refusals
  <1>15. disturbed = 0 => answer \in Expected
    <2>1. PICK entry : entry = File(text)
      OBVIOUS
    <2>2. entry.kind = "file" /\ entry.text = text
      BY <2>1, EntryFields
    <2>3. disturbed = 0 =>
            place \in Directories /\ Found(place).entry = entry /\ ~reader.torn
      BY <1>1, <1>2, <2>1 DEF CalmInv, Found
    <2>4. disturbed = 0 => Expected = {IF Len(text) > MaxFileSize THEN "oversized" ELSE "data"}
      BY <2>2, <2>3, ExpectedCases
    <2>5. ~reader.torn => (answer = "oversized" <=> Len(text) > MaxFileSize)
      BY <1>4, <1>6, <1>11, ReaderAssumption
    <2> QED
      BY <2>3, <2>4, <2>5
  <1>16. CalmInv'
    BY <1>1, <1>5, <1>8, <1>15, ExpectedStays DEF CalmInv
  <1> QED
    BY <1>7, <1>9, <1>12, <1>14, <1>16

-----------------------------------------------------------------------------
(* The directory's other users *)

\* What has been found stays found, as the history only grows.
LEMMA DisturbedInv ==
    ASSUME ReaderInv, Disturbing, history \subseteq history',
           reader' = reader \/ reader' = [reader EXCEPT !.named = FALSE],
           ReaderTypeOK', HistoryInv'
    PROVE  ReaderInv'
  <1>1. NoFileSeen => NoFileSeen'
    BY DEF NoFileSeen
  <1>2. /\ reader'.step = reader.step /\ reader'.error = reader.error /\ reader'.answer = reader.answer
        /\ reader'.text = reader.text /\ reader'.data = reader.data /\ reader'.torn = reader.torn
        /\ reader'.directory = reader.directory
    BY DEF ReaderInv, ReaderTypeOK, ReaderType
  <1>5. \A text : Was(text) => Was(text)'
    BY <1>2 DEF Was
  <1>6. FoundInv'
    BY <1>1, <1>2, <1>5 DEF ReaderInv, FoundInv, Disturbing, ReadData
  <1>7. PiecesInv'
    <2>1. \A i, byte : ByteSeen(i, byte) => ByteSeen(i, byte)'
      BY <1>5 DEF ByteSeen
    <2>2. (ReadData' <=> ReadData) /\ (Begins' <=> Begins) /\ (Whole => Whole')
      BY <1>2, <1>5 DEF ReadData, Begins, Whole
    <2> QED
      BY <1>2, <2>1, <2>2 DEF ReaderInv, PiecesInv
  <1>3. disturbed' # 0
    BY DEF Disturbing, ReaderInv, ReaderTypeOK
  <1>4. CalmInv'
    BY <1>3 DEF CalmInv
  <1> QED
    BY <1>4, <1>6, <1>7 DEF ReaderInv

LEMMA MoveDirectoryInv ==
    ASSUME ReaderInv, MoveDirectory
    PROVE  ReaderInv'
  <1>1. PICK where \in Places : place' = where /\ history' = history \cup {Found(where)}
    BY DEF MoveDirectory
  <1>2. ReaderTypeOK'
    BY <1>1 DEF MoveDirectory, Disturbing, ReaderInv, ReaderTypeOK
  <1>3. Found(place)' = Found(where) /\ \A d \in Directories : Found(d)' = Found(d)
    BY <1>1 DEF MoveDirectory, Found
  <1>4. HistoryInv'
    BY <1>1, <1>3 DEF ReaderInv, HistoryInv
  <1> QED
    BY <1>1, <1>2, <1>4, DisturbedInv DEF MoveDirectory

\* Both ways to change a file put what it is made into the history.
LEMMA ChangedHistory ==
    ASSUME ReaderInv, UNCHANGED place, NEW d \in Directories, NEW entry \in Entries,
           held' = [held EXCEPT ![d] = entry],
           history' = history \cup {[place |-> d, entry |-> entry]}
    PROVE  HistoryInv' /\ held' \in [Directories -> Entries]
  <1> USE DEF ReaderInv
  <1>1. held' \in [Directories -> Entries] /\ held'[d] = entry
        /\ \A e \in Directories \ {d} : held'[e] = held[e]
    BY DEF ReaderTypeOK
  <1>2. \A e \in Directories : Found(e)' \in history'
    BY <1>1 DEF HistoryInv, Found
  <1>3. place \notin Directories => Found(place)' = Found(place)
    BY DEF Found
  <1>4. Found(place)' \in history'
    <2>1. CASE place \notin Directories
      BY <1>3, <2>1 DEF HistoryInv
    <2>2. CASE place \in Directories
      BY <1>1, <2>2 DEF HistoryInv, Found
    <2> QED
      BY <2>1, <2>2
  <1> QED
    BY <1>1, <1>2, <1>4 DEF HistoryInv

LEMMA ReplaceFileInv ==
    ASSUME ReaderInv, NEW d \in Directories, ReplaceFile(d)
    PROVE  ReaderInv'
  <1>1. PICK entry \in Entries :
          /\ held' = [held EXCEPT ![d] = entry]
          /\ history' = history \cup {[place |-> d, entry |-> entry]}
    BY DEF ReplaceFile
  <1>2. /\ Disturbing /\ UNCHANGED place
        /\ reader' = reader \/ reader' = [reader EXCEPT !.named = FALSE]
    BY DEF ReplaceFile
  <1>3. HistoryInv' /\ held' \in [Directories -> Entries]
    BY <1>1, <1>2, ChangedHistory
  <1>4. ReaderTypeOK'
    <2>1. reader' \in ReaderType
      BY <1>2 DEF ReaderInv, ReaderTypeOK, ReaderType
    <2> QED
      BY <1>2, <1>3, <2>1 DEF Disturbing, ReaderInv, ReaderTypeOK
  <1> QED
    BY <1>1, <1>2, <1>3, <1>4, DisturbedInv

\* A file that is open when it is overwritten is read as it is then.
LEMMA OverwriteFileInv ==
    ASSUME ReaderInv, NEW d \in Directories, OverwriteFile(d)
    PROVE  ReaderInv'
  <1>1. PICK text \in Texts :
          /\ held' = [held EXCEPT ![d].text = text]
          /\ history' = history \cup {[place |-> d, entry |-> File(text)]}
          /\ reader' = IF reader.directory = d /\ reader.named
                       THEN [reader EXCEPT !.text = text, !.torn = (reader.data # <<>>)] ELSE reader
    BY DEF OverwriteFile
  <1>2. Disturbing /\ UNCHANGED place /\ held[d].kind = "file"
    BY DEF OverwriteFile
  <1>3. held' = [held EXCEPT ![d] = File(text)]
    <2>1. PICK old \in Texts : held[d] = File(old)
      BY <1>2, EntryKinds, EntryFields DEF ReaderInv, ReaderTypeOK
    <2>2. [held[d] EXCEPT !.text = text] = File(text)
      BY <2>1 DEF File
    <2> QED
      BY <1>1, <2>2
  <1>4. HistoryInv' /\ held' \in [Directories -> Entries]
    BY <1>1, <1>2, <1>3, ChangedHistory DEF Entries
  <1>5. CASE ~(reader.directory = d /\ reader.named)
    <2>1. reader' = reader
      BY <1>1, <1>5
    <2>2. ReaderTypeOK'
      BY <1>2, <1>4, <2>1 DEF Disturbing, ReaderInv, ReaderTypeOK
    <2> QED
      BY <1>1, <1>2, <1>4, <2>1, <2>2, DisturbedInv
  <1>6. CASE reader.directory = d /\ reader.named
    <2> USE DEF ReaderInv
    <2>1. PICK torn \in BOOLEAN : torn <=> reader.data # <<>>
      OBVIOUS
    <2>2. reader' = [reader EXCEPT !.text = text, !.torn = torn]
      <3>1. reader' = [reader EXCEPT !.text = text, !.torn = (reader.data # <<>>)]
        BY <1>1, <1>6, Zenon
      <3>2. (reader.data # <<>>) = torn
        BY <2>1, Zenon
      <3> QED
        BY <3>1, <3>2, Zenon
    <2>3. ReaderTypeOK'
      <3>1. reader' \in ReaderType
        BY <2>2 DEF ReaderTypeOK, ReaderType
      <3> QED
        BY <1>2, <1>4, <3>1 DEF Disturbing, ReaderTypeOK
    <2>4. /\ reader'.step = reader.step /\ reader'.error = reader.error /\ reader'.answer = reader.answer
          /\ reader'.text = text /\ reader'.data = reader.data /\ (reader'.torn <=> torn)
          /\ reader'.directory = d
      BY <1>6, <2>2 DEF ReaderTypeOK, ReaderType
    <2>5. \A t : Was(t) => Was(t)'
      BY <1>1, <1>6, <2>4 DEF Was
    <2>6. Was(text)' /\ (NoFileSeen => NoFileSeen')
      BY <1>1, <2>4 DEF Was, NoFileSeen
    <2>7. FoundInv'
      BY <1>1, <1>2, <1>6, <2>4, <2>5, <2>6 DEF FoundInv, ReadData, Disturbing
    <2>8. reader.data = <<>> \/ torn
      BY <2>1
    <2>9. PiecesInv'
      <3>1. \A i, byte : ByteSeen(i, byte) => ByteSeen(i, byte)'
        BY <2>5 DEF ByteSeen
      <3>2. ~ReadData'
        BY <1>2, <2>4 DEF ReadData, Disturbing
      <3>3. ~reader'.torn => Begins'
        BY <1>1, <2>4, <2>8, EndBounds DEF Begins
      <3>4. reader'.step \notin {"opened", "answered"} => reader'.data = <<>> /\ ~reader'.torn
        BY <2>1, <2>4 DEF PiecesInv
      <3> QED
        BY <2>4, <3>1, <3>2, <3>3, <3>4 DEF PiecesInv
    <2>10. disturbed' # 0
      BY <1>2 DEF Disturbing, ReaderTypeOK
    <2> QED
      BY <1>4, <2>3, <2>7, <2>9, <2>10 DEF CalmInv
  <1> QED
    BY <1>5, <1>6

LEMMA ReaderNextInv == ReaderInv /\ [ReaderNext]_readerVars => ReaderInv'
  <1> SUFFICES ASSUME ReaderInv, [ReaderNext]_readerVars
               PROVE  ReaderInv'
    OBVIOUS
  <1>1. CASE ResolveDirectory
    BY <1>1, ResolveDirectoryInv
  <1>2. CASE OpenDirectory
    BY <1>2, OpenDirectoryInv
  <1>3. CASE ListDirectory
    BY <1>3, ListDirectoryInv
  <1>4. CASE FollowLink
    BY <1>4, FollowLinkInv
  <1>5. CASE OpenFile
    BY <1>5, OpenFileInv
  <1>6. CASE ReadPiece
    BY <1>6, ReadPieceInv
  <1>10. CASE ReadEnd
    BY <1>10, ReadEndInv
  <1>7. CASE MoveDirectory
    BY <1>7, MoveDirectoryInv
  <1>8. CASE \E d \in Directories : ReplaceFile(d) \/ OverwriteFile(d)
    BY <1>8, ReplaceFileInv, OverwriteFileInv
  <1>9. CASE UNCHANGED readerVars
    <2> USE <1>9 DEF ReaderInv, readerVars
    <2>1. ReaderTypeOK'
      BY DEF ReaderTypeOK
    <2>2. HistoryInv' /\ (NoFileSeen' <=> NoFileSeen)
      BY HistoryStays
    <2>3. FoundInv'
      BY <2>2 DEF FoundInv, ReadData, Was
    <2>5. PiecesInv'
      BY DEF PiecesInv, ByteSeen, Begins, Whole, ReadData, Was
    <2>4. CalmInv'
      BY ExpectedStays DEF CalmInv
    <2> QED
      BY <2>1, <2>2, <2>3, <2>4, <2>5
  <1> QED
    BY <1>1, <1>2, <1>3, <1>4, <1>5, <1>6, <1>7, <1>8, <1>9, <1>10 DEF ReaderNext

\* Every reader remembers only what was so at some moment since it was made,
\* and, while nothing has been changed, what is so still.
THEOREM AlwaysReaderInv == ReaderSpec => []ReaderInv
  BY ReaderInitInv, ReaderNextInv, PTL DEF ReaderSpec

\* The guarded reader of the Go engines answers with bytes, within the limit, that
\* were each at its place in a file of a directory its path led to while it read,
\* with the whole of one such file unless that was overwritten in place after its
\* reading had begun, and refuses only what was too large or no file at some
\* moment: for contents and limits of any size, pieces of any size and any number
\* of changes made under it.
THEOREM AlwaysReadsTrue == ReaderSpec => []ReadsTrue
  <1>1. ReaderInv => ReadsTrue
    <2> SUFFICES ASSUME ReaderInv, reader.step = "answered" PROVE ReadsTrue
      BY DEF ReadsTrue
    <2>1. reader.answer \in Refusals \cup {"oversized", "data"}
      BY DEF ReaderInv, ReaderTypeOK, ReaderType, FoundInv
    <2>2. reader.answer = "data" =>
            /\ Len(reader.data) <= MaxFileSize
            /\ ~reader.torn => Was(reader.data)
      BY DEF ReaderInv, PiecesInv, ReadData, Whole
    <2>6. \A i \in DOMAIN reader.data :
            \E text \in Texts : Was(text) /\ i \in DOMAIN text /\ text[i] = reader.data[i]
      <3>1. DOMAIN reader.data = 1..Len(reader.data)
        BY DEF ReaderInv, ReaderTypeOK, ReaderType
      <3> QED
        BY <3>1 DEF ReaderInv, PiecesInv, ByteSeen
    <2>3. reader.answer = "oversized" => \E seen \in history : Len(seen.entry.text) > MaxFileSize
      BY DEF ReaderInv, FoundInv
    <2>4. (\A seen \in history : seen.entry.kind = "file") => reader.answer \in {"data", "oversized"}
      BY <2>1 DEF ReaderInv, FoundInv, NoFileSeen
    <2>5. disturbed = 0 => reader.answer \in Expected
      BY DEF ReaderInv, CalmInv
    <2> QED
      BY <2>2, <2>3, <2>4, <2>5, <2>6 DEF ReadsTrue
  <1> QED
    BY <1>1, AlwaysReaderInv, PTL

-----------------------------------------------------------------------------
(* The session: its invariant *)

Contracted ==
    {"discovery", "ignore", "language", "framework", "build-package", "repository-metadata",
     "repository-intelligence-summary", "golang", "go-package-identity", "go-semantic"}

SessionTypeOK ==
    /\ phase \in {"new", "prepared", "analyzing", "result", "failed", "refused"}
    /\ source \in {"none", "held", "closed"} /\ closed \in BOOLEAN
    /\ "language" \in DOMAIN artifacts
    /\ payloads \in Seq(Contracted)

\* The payloads are the first artifacts of the profile, in its order.
Sealed ==
    /\ Len(payloads) <= Len(Contracts)
    /\ \A i \in 1..Len(payloads) : payloads[i] = Contracts[i]

\* The session knows of every spool file but those that refused to be removed.
SpoolsInv ==
    /\ Range(payloads) \subseteq spools
    /\ spools \subseteq stuck \cup Range(payloads)
    /\ payloads # <<>> => phase \in {"analyzing", "result"} /\ EnginesDone /\ Sealed
    /\ closed => phase \in {"prepared", "result", "failed"}
    /\ closed \/ phase = "refused" => source # "held" /\ payloads = <<>>
    /\ phase = "result" => EnginesDone
    /\ phase = "result" /\ ~closed => Len(payloads) = Len(Contracts)

SessionInv == SessionTypeOK /\ SpoolsInv

LEMMA Appended ==
    ASSUME NEW S, NEW s \in Seq(S), NEW x \in S
    PROVE  /\ Len(Append(s, x)) = Len(s) + 1 /\ Len(s) \in Nat
           /\ Len(s) >= 3 => Append(s, x)[3] = s[3]
  <1>1. Len(s) >= 3 => 3 \in 1..Len(s)
    OBVIOUS
  <1> QED
    BY <1>1, AppendProperties

\* Both profiles are sequences of names; they differ in the Go engines.
LEMMA Profiles ==
    /\ Order \in Seq(Contracted) /\ Len(Order) = 7
    /\ GoOrder \in Seq(Contracted) /\ Len(GoOrder) = 10
    /\ "language" \in Range(GoOrder)
    /\ Contracts \in Seq(Contracted)
  <1>1. Order \in Seq(Contracted)
    BY DEF Order, Contracted
  <1>2. Len(Order) = 7 /\ Order[3] = "language"
    BY DEF Order
  <1>3. PICK order \in Seq(Contracted) : order = Order
    BY <1>1
  <1>4. PICK first \in Seq(Contracted) : first = Append(order, "golang")
    BY AppendProperties DEF Contracted
  <1>5. PICK second \in Seq(Contracted) : second = Append(first, "go-package-identity")
    BY AppendProperties DEF Contracted
  <1>6. PICK third \in Seq(Contracted) : third = Append(second, "go-semantic")
    BY AppendProperties DEF Contracted
  <1> USE DEF Contracted
  <1>7. Len(first) = 8 /\ first[3] = "language"
    <2>1. Len(first) = Len(order) + 1 /\ first[3] = order[3]
      BY <1>2, <1>3, <1>4, Appended
    <2> QED
      BY <1>2, <1>3, <2>1
  <1>8. Len(second) = 9 /\ second[3] = "language"
    <2>1. Len(second) = Len(first) + 1 /\ second[3] = first[3]
      <3>1. Len(first) >= 3 /\ "go-package-identity" \in Contracted
        BY <1>7
      <3> QED
        BY <1>5, <3>1, Appended
    <2> QED
      BY <1>7, <2>1
  <1>9. Len(third) = 10 /\ third[3] = "language"
    <2>1. Len(third) = Len(second) + 1 /\ third[3] = second[3]
      <3>1. Len(second) >= 3 /\ "go-semantic" \in Contracted
        BY <1>8
      <3> QED
        BY <1>6, <3>1, Appended
    <2> QED
      BY <1>8, <2>1
  <1>10. GoOrder = third
    BY <1>3, <1>4, <1>5, <1>6 DEF GoOrder
  <1>11. "language" \in Range(third)
    BY <1>9 DEF Range
  <1> QED
    BY <1>1, <1>2, <1>9, <1>10, <1>11 DEF Contracts

LEMMA ProfileStays ==
    ASSUME UNCHANGED <<engines, artifacts>>
    PROVE  GoPresent' = GoPresent /\ Contracts' = Contracts /\ EnginesDone' = EnginesDone
  <1>1. GoPresent' = GoPresent
    BY DEF GoPresent
  <1>2. Contracts' = Contracts
    BY <1>1 DEF Contracts
  <1> QED
    BY <1>1, <1>2 DEF EnginesDone

\* Once the profile is complete no engine has its turn.
LEMMA NoEngineAfter ==
    ASSUME EnginesDone, NEW name
    PROVE  ~NextEngine(name) /\ ~NextGoEngine(name)
  <1>1. engines \in Seq(Contracted) /\ Len(engines) >= 7 /\ (GoPresent => Len(engines) = 10)
    BY Profiles DEF EnginesDone, Contracts
  <1>2. PICK longer : longer = Append(engines, name)
    OBVIOUS
  <1>3. Len(longer) = Len(engines) + 1
    BY <1>1, <1>2
  <1>4. ~IsPrefix(longer, Order)
    BY <1>1, <1>3, Profiles DEF IsPrefix
  <1>5. GoPresent => ~IsPrefix(longer, GoOrder)
    <2> SUFFICES ASSUME GoPresent PROVE ~IsPrefix(longer, GoOrder)
      OBVIOUS
    <2>1. Len(engines) = 10
      BY <1>1
    <2>2. Len(longer) = 11
      BY <1>3, <2>1
    <2> QED
      BY <2>2, Profiles DEF IsPrefix
  <1> QED
    BY <1>2, <1>4, <1>5 DEF NextEngine, NextGoEngine, GoPresent

\* Nothing is added to the directory of the artifacts but what the engine made.
LEMMA EngineSteps ==
    ASSUME SessionInv, RunEngine
    PROVE  /\ phase = "analyzing" /\ UNCHANGED sessionVars
           /\ "language" \in DOMAIN artifacts'
           /\ EnginesDone => UNCHANGED <<engines, artifacts>>
  <1>1. phase = "analyzing" /\ UNCHANGED sessionVars
    BY DEF RunEngine
  <1>2. ASSUME NEW name, NEW artifact, Executed(name, artifact)
        PROVE  "language" \in DOMAIN artifacts'
    BY <1>2 DEF Executed, SessionInv, SessionTypeOK
  <1>3. CASE PipelineFails \/ (GoFails /\ ~EnginesDone)
    BY <1>1, <1>3 DEF PipelineFails, GoFails, SessionInv, SessionTypeOK
  <1>4. CASE ~(PipelineFails \/ (GoFails /\ ~EnginesDone))
    <2>1. \E name : NextEngine(name) \/ NextGoEngine(name)
      BY <1>4 DEF RunEngine, Discover, Ignore, DetectLanguages, DetectFrameworks, DetectBuild,
                  Synthesize, Summarize, ParseGo, ProveIdentities, ResolveSemantics
    <2>2. ~EnginesDone
      BY <2>1, NoEngineAfter
    <2>3. \/ \E name, artifact : Executed(name, artifact)
          \/ UNCHANGED artifacts
      BY <1>4 DEF RunEngine, Discover, Ignore, DetectLanguages, DetectFrameworks, DetectBuild,
                  Synthesize, Summarize, ParseGo, ProveIdentities, ResolveSemantics
    <2> QED
      BY <1>1, <1>2, <2>2, <2>3 DEF SessionInv, SessionTypeOK
  <1> QED
    BY <1>3, <1>4

\* Steps that touch no spool file: what is known of them stays true as long as
\* the profile does.
LEMMA SpoolsUntouched ==
    ASSUME SessionInv, UNCHANGED <<payloads, spools, stuck>>, SessionTypeOK',
           EnginesDone => UNCHANGED <<engines, artifacts>>,
           payloads # <<>> => phase' \in {"analyzing", "result"},
           closed' => phase' \in {"prepared", "result", "failed"},
           closed' \/ phase' = "refused" => source' # "held" /\ payloads = <<>>,
           phase' = "result" => EnginesDone /\ (~closed' => Len(payloads) = Len(Contracts))
    PROVE  SessionInv'
  <1> USE DEF SessionInv, SpoolsInv
  <1>1. EnginesDone => EnginesDone' /\ Contracts' = Contracts
    BY ProfileStays
  <1>2. EnginesDone => (Sealed' <=> Sealed)
    BY <1>1 DEF Sealed
  <1>3. Range(payloads)' = Range(payloads)
    BY DEF Range
  <1>4. payloads' # <<>> => phase' \in {"analyzing", "result"} /\ EnginesDone' /\ Sealed'
    BY <1>1, <1>2
  <1>5. phase' = "result" => EnginesDone' /\ (~closed' => Len(payloads') = Len(Contracts'))
    BY <1>1
  <1> QED
    BY <1>3, <1>4, <1>5

\* What is removed in the end is all the session owned: only what refused stays.
LEMMA SpoolsRemoved ==
    ASSUME SessionInv, UNCHANGED rieVars, payloads' = <<>>, phase' # "refused",
           phase' \in {"prepared", "result", "failed"}, closed' \in BOOLEAN,
           source' \in {"none", "held", "closed"},
           closed' => source' # "held",
           phase' = "result" => closed' /\ EnginesDone,
           NEW listed, Range(payloads) \subseteq listed, NEW failed \in SUBSET listed,
           Removing(listed, failed)
    PROVE  SessionInv'
  <1> USE DEF SessionInv, SpoolsInv
  <1>1. SessionTypeOK'
    BY DEF SessionTypeOK, rieVars
  <1>2. Range(payloads)' = {}
    BY DEF Range
  <1>3. spools' \subseteq stuck'
    BY DEF Removing
  <1>4. EnginesDone' = EnginesDone
    BY ProfileStays DEF rieVars
  <1> QED
    BY <1>1, <1>2, <1>3, <1>4

LEMMA SessionInitInv == SessionInit => SessionInv
  <1> SUFFICES ASSUME SessionInit PROVE SessionInv
    OBVIOUS
  <1>1. SessionTypeOK
    <2>1. DOMAIN artifacts = Range(GoOrder) \cup {"go-dependency"}
      BY DEF SessionInit, RIEInit
    <2>2. "language" \in DOMAIN artifacts
      BY <2>1, Profiles
    <2>3. \A S : <<>> \in Seq(S)
      OBVIOUS
    <2>4. closed \in BOOLEAN /\ source = "none" /\ phase = "new" /\ payloads = <<>>
      BY DEF SessionInit
    <2> QED
      BY <2>2, <2>3, <2>4 DEF SessionTypeOK
  <1>2. Range(payloads) = {}
    BY DEF SessionInit, Range
  <1> QED
    BY <1>1, <1>2 DEF SessionInit, SessionInv, SpoolsInv

LEMMA PrepareInv ==
    ASSUME SessionInv, Prepare
    PROVE  SessionInv'
  <1>1. phase = "new" /\ UNCHANGED <<rieVars, payloads, spools, stuck, closed>> /\ ~closed
        /\ payloads = <<>>
    BY DEF Prepare, SessionInv, SpoolsInv
  <1>2. \/ phase' = "refused" /\ source' \in {"none", "closed"}
        \/ phase' = "prepared" /\ source' = "held"
    BY DEF Prepare, Refused
  <1>3. SessionTypeOK'
    BY <1>1, <1>2 DEF SessionInv, SessionTypeOK, rieVars
  <1>4. UNCHANGED <<engines, artifacts>> /\ closed' = closed
    BY <1>1 DEF rieVars
  <1> QED
    BY <1>1, <1>2, <1>3, <1>4, SpoolsUntouched

LEMMA BeginAnalysisInv ==
    ASSUME SessionInv, BeginAnalysis
    PROVE  SessionInv'
  <1>1. /\ UNCHANGED <<rieVars, source, payloads, spools, stuck, closed>>
        /\ ~closed /\ payloads = <<>> /\ phase' \in {"failed", "analyzing"}
    BY DEF BeginAnalysis, SessionInv, SpoolsInv
  <1>2. SessionTypeOK'
    BY <1>1 DEF SessionInv, SessionTypeOK, rieVars
  <1>3. UNCHANGED <<engines, artifacts>> /\ closed' = closed
    BY <1>1 DEF rieVars
  <1> QED
    BY <1>1, <1>2, <1>3, SpoolsUntouched

LEMMA RunEngineInv ==
    ASSUME SessionInv, RunEngine
    PROVE  SessionInv'
  <1>1. /\ phase = "analyzing" /\ UNCHANGED sessionVars
        /\ "language" \in DOMAIN artifacts'
        /\ EnginesDone => UNCHANGED <<engines, artifacts>>
    BY EngineSteps
  <1>2. /\ phase' = phase /\ closed' = closed /\ source' = source
        /\ UNCHANGED <<payloads, spools, stuck>>
    BY <1>1 DEF sessionVars
  <1>3. SessionTypeOK'
    BY <1>1, <1>2 DEF SessionInv, SessionTypeOK
  <1>4. ~closed
    BY <1>1 DEF SessionInv, SpoolsInv
  <1> QED
    BY <1>1, <1>2, <1>3, <1>4, SpoolsUntouched

\* The engines may fail only before the first artifact is written.
LEMMA EnginesFailedInv ==
    ASSUME SessionInv, EnginesFailed
    PROVE  SessionInv'
  <1>1. /\ UNCHANGED <<rieVars, source, payloads, spools, stuck, closed>>
        /\ phase' = "failed" /\ ~closed /\ payloads = <<>>
    BY DEF EnginesFailed, SessionInv, SpoolsInv
  <1>2. SessionTypeOK'
    BY <1>1 DEF SessionInv, SessionTypeOK, rieVars
  <1>3. UNCHANGED <<engines, artifacts>> /\ closed' = closed
    BY <1>1 DEF rieVars
  <1> QED
    BY <1>1, <1>2, <1>3, SpoolsUntouched

LEMMA MaterializeInv ==
    ASSUME SessionInv, NEW name, Materialize(name)
    PROVE  SessionInv'
  <1> USE DEF SessionInv
  <1>1. /\ phase = "analyzing" /\ EnginesDone /\ ~closed
        /\ UNCHANGED <<rieVars, source, closed>>
    BY DEF Materialize, SpoolsInv
  <1>2. Contracts' = Contracts /\ EnginesDone'
    BY <1>1, ProfileStays DEF rieVars
  <1>3. CASE /\ payloads' = Append(payloads, name) /\ spools' = spools \cup {name}
             /\ UNCHANGED <<stuck, phase>>
    <2>1. /\ Len(payloads) < Len(Contracts) /\ Contracts[Len(payloads) + 1] = name
          /\ Len(payloads) \in Nat /\ Len(Contracts) \in Nat
      BY Profiles DEF Materialize, NextContract, SessionTypeOK
    <2>2. name \in Contracted
      BY <2>1, Profiles
    <2>3. /\ payloads' \in Seq(Contracted) /\ Len(payloads') = Len(payloads) + 1
          /\ \A i \in 1..Len(payloads) : payloads'[i] = payloads[i]
          /\ payloads'[Len(payloads) + 1] = name
      BY <1>3, <2>2, AppendProperties DEF SessionTypeOK
    <2>4. payloads # <<>> => Sealed
      BY DEF SpoolsInv
    <2>5. payloads = <<>> => Len(payloads) = 0
      OBVIOUS
    <2>6. \A i \in 1..Len(payloads') : payloads'[i] = Contracts[i]
      <3> SUFFICES ASSUME NEW i \in 1..Len(payloads') PROVE payloads'[i] = Contracts[i]
        OBVIOUS
      <3>1. CASE i = Len(payloads) + 1
        BY <2>1, <2>3, <3>1
      <3>2. CASE i # Len(payloads) + 1
        <4>1. i \in 1..Len(payloads)
          BY <2>1, <2>3, <3>2
        <4> QED
          BY <2>3, <2>4, <2>5, <4>1 DEF Sealed
      <3> QED
        BY <3>1, <3>2
    <2>7. Sealed'
      BY <1>2, <2>1, <2>3, <2>6 DEF Sealed
    <2>8. Range(payloads') = Range(payloads) \cup {name}
      <3>1. DOMAIN payloads = 1..Len(payloads) /\ DOMAIN payloads' = 1..(Len(payloads) + 1)
        BY <2>1, <2>3 DEF SessionTypeOK
      <3>2. DOMAIN payloads' = DOMAIN payloads \cup {Len(payloads) + 1}
        BY <2>1, <3>1
      <3> QED
        BY <2>3, <3>1, <3>2 DEF Range
    <2>9. SessionTypeOK'
      BY <1>1, <1>3, <2>3 DEF SessionTypeOK, rieVars
    <2> QED
      BY <1>1, <1>2, <1>3, <2>7, <2>8, <2>9 DEF SpoolsInv
  <1>4. CASE CleanupPayloads(Range(payloads) \cup {name})
    <2>1. PICK failed \in SUBSET (Range(payloads) \cup {name}) :
            Removing(Range(payloads) \cup {name}, failed)
      BY <1>4 DEF CleanupPayloads, Refusing
    <2>2. payloads' = <<>> /\ phase' = "failed"
      BY <1>4 DEF CleanupPayloads
    <2>3. source' \in {"none", "held", "closed"} /\ ~closed' /\ closed' \in BOOLEAN
      BY <1>1 DEF SessionTypeOK
    <2> QED
      BY <1>1, <2>1, <2>2, <2>3, SpoolsRemoved
  <1> QED
    BY <1>3, <1>4 DEF Materialize

LEMMA ConcludeInv ==
    ASSUME SessionInv, Conclude
    PROVE  SessionInv'
  <1> USE DEF SessionInv
  <1>1. /\ phase = "analyzing" /\ EnginesDone /\ ~closed /\ Len(payloads) = Len(Contracts)
        /\ UNCHANGED <<rieVars, source, closed>>
    BY DEF Conclude, SpoolsInv
  <1>2. source' \in {"none", "held", "closed"} /\ ~closed' /\ closed' \in BOOLEAN
    BY <1>1 DEF SessionTypeOK
  <1>3. CASE phase' = "result" /\ UNCHANGED <<payloads, spools, stuck>>
    <2>1. SessionTypeOK'
      BY <1>1, <1>2, <1>3 DEF SessionTypeOK, rieVars
    <2>2. UNCHANGED <<engines, artifacts>>
      BY <1>1 DEF rieVars
    <2> QED
      BY <1>1, <1>2, <1>3, <2>1, <2>2, SpoolsUntouched
  <1>4. CASE CleanupPayloads(Range(payloads))
    <2>1. PICK failed \in SUBSET Range(payloads) : Removing(Range(payloads), failed)
      BY <1>4 DEF CleanupPayloads, Refusing
    <2>2. payloads' = <<>> /\ phase' = "failed"
      BY <1>4 DEF CleanupPayloads
    <2> QED
      BY <1>1, <1>2, <2>1, <2>2, SpoolsRemoved
  <1> QED
    BY <1>3, <1>4 DEF Conclude

LEMMA CloseInv ==
    ASSUME SessionInv, Close
    PROVE  SessionInv'
  <1>1. PICK failed \in SUBSET Range(payloads) : Removing(Range(payloads), failed)
    BY DEF Close, Refusing
  <1>2. /\ payloads' = <<>> /\ closed' = TRUE /\ source' = "closed" /\ UNCHANGED <<rieVars, phase>>
        /\ phase' \in {"prepared", "result", "failed"}
    BY DEF Close
  <1>3. phase' = "result" => closed' /\ EnginesDone
    BY <1>2 DEF SessionInv, SpoolsInv
  <1> QED
    BY <1>1, <1>2, <1>3, SpoolsRemoved

\* The directory's other users, the end of the context and the dependency
\* engine leave the session as it is.
LEMMA AroundInv ==
    ASSUME SessionInv, UNCHANGED sessionVars, UNCHANGED engines,
           \/ UNCHANGED artifacts
           \/ \E facts : artifacts' = [artifacts EXCEPT !["go-dependency"] = facts]
    PROVE  SessionInv'
  <1> USE DEF SessionInv
  <1>1. "language" \in DOMAIN artifacts' /\ artifacts'["language"] = artifacts["language"]
    BY DEF SessionTypeOK
  <1>2. SessionTypeOK'
    BY <1>1 DEF SessionTypeOK, sessionVars
  <1>3. GoPresent' = GoPresent
    BY <1>1 DEF GoPresent
  <1>4. Contracts' = Contracts
    BY <1>3 DEF Contracts
  <1>5. EnginesDone' = EnginesDone /\ Sealed' = Sealed /\ Range(payloads)' = Range(payloads)
    BY <1>4 DEF EnginesDone, Sealed, sessionVars, Range
  <1>6. UNCHANGED <<phase, source, payloads, spools, stuck, closed>>
    BY DEF sessionVars
  <1> QED
    BY <1>2, <1>4, <1>5, <1>6 DEF SpoolsInv

LEMMA SessionNextInv == SessionInv /\ [SessionNext]_vars => SessionInv'
  <1> SUFFICES ASSUME SessionInv, [SessionNext]_vars
               PROVE  SessionInv'
    OBVIOUS
  <1>1. CASE Prepare
    BY <1>1, PrepareInv
  <1>2. CASE BeginAnalysis
    BY <1>2, BeginAnalysisInv
  <1>3. CASE RunEngine
    BY <1>3, RunEngineInv
  <1>4. CASE EnginesFailed
    BY <1>4, EnginesFailedInv
  <1>5. CASE \E name \in Range(GoOrder) : Materialize(name)
    BY <1>5, MaterializeInv
  <1>6. CASE Conclude
    BY <1>6, ConcludeInv
  <1>7. CASE Close
    BY <1>7, CloseInv
  <1>8. CASE Around /\ ~EnginesDone /\ Edit
    BY <1>8, AroundInv DEF Around, Edit
  <1>9. CASE Around /\ EndContext
    BY <1>9, AroundInv DEF Around, EndContext
  <1>10. CASE AnalyzeDependencies /\ UNCHANGED sessionVars
    BY <1>10, AroundInv DEF AnalyzeDependencies
  <1>11. CASE UNCHANGED vars
    BY <1>11, AroundInv DEF vars, rieVars
  <1> QED
    BY <1>1, <1>2, <1>3, <1>4, <1>5, <1>6, <1>7, <1>8, <1>9, <1>10, <1>11 DEF SessionNext

\* A session always knows which spool files it owns: the first artifacts of the
\* complete profile, in its order.
THEOREM AlwaysSessionInv == SessionSpec => []SessionInv
  BY SessionInitInv, SessionNextInv, PTL DEF SessionSpec

\* However an analysis ends, and whatever the disk refuses on the way, a closed,
\* failed or refused session leaves no spool file but those that refused to be
\* removed, and keeps no source; an open result can be read whole.
THEOREM SessionAlwaysReleases == SessionSpec => []SessionReleases
  <1>1. SessionInv => SessionReleases
    <2> SUFFICES ASSUME SessionInv PROVE SessionReleases
      OBVIOUS
    <2> USE DEF SessionInv, SpoolsInv
    <2>1. payloads = <<>> => spools \subseteq stuck
      BY DEF Range
    <2>2. phase \in {"refused", "failed"} \/ closed => payloads = <<>>
      OBVIOUS
    <2>3. phase = "result" /\ ~closed => Range(Contracts) \subseteq Range(payloads)
      <3> SUFFICES ASSUME phase = "result", ~closed PROVE Range(Contracts) \subseteq Range(payloads)
        OBVIOUS
      <3>1. Len(payloads) = Len(Contracts) /\ Len(Contracts) # 0
        <4>1. Len(Contracts) \in {7, 10}
          BY Profiles, Zenon DEF Contracts
        <4> QED
          BY <4>1
      <3>2. Sealed
        BY <3>1
      <3>3. DOMAIN payloads = 1..Len(payloads) /\ DOMAIN Contracts = 1..Len(payloads)
        BY <3>1, Profiles DEF SessionTypeOK
      <3> QED
        BY <3>2, <3>3 DEF Sealed, Range
    <2> QED
      BY <2>1, <2>2, <2>3 DEF SessionReleases
  <1> QED
    BY <1>1, AlwaysSessionInv, PTL

-----------------------------------------------------------------------------
(* Paths *)

\* A path is its prefix and what follows it, and what follows is what it was
\* put together with.
LEMMA SuffixOfConcatenation ==
    ASSUME NEW S, NEW a \in Seq(S), NEW b \in Seq(S)
    PROVE  Suffix(a \o b, a) = b /\ IsPrefix(a, a \o b)
  <1>1. Len(a \o b) = Len(a) + Len(b) /\ Len(a) \in Nat /\ Len(b) \in Nat /\ a \o b \in Seq(S)
    BY ConcatProperties, LenProperties
  <1>2. PICK k \in Nat, l \in Nat : k = Len(a) /\ l = Len(b)
    BY <1>1
  <1>3. PICK whole \in Seq(S) : whole = a \o b
    BY <1>1
  <1>4. Len(whole) = k + l /\ \A i \in 1..(k + l) : whole[i] = IF i <= k THEN a[i] ELSE b[i - k]
    BY <1>1, <1>2, <1>3, ConcatProperties
  <1>5. SubSeq(whole, k + 1, k + l) = b
    <2>1. PICK rest : rest = SubSeq(whole, k + 1, k + l)
      OBVIOUS
    <2>2. rest \in Seq(S) /\ Len(rest) = l /\ \A i \in 1..l : rest[i] = whole[k + i]
      BY <1>2, <1>4, <2>1
    <2>3. ASSUME NEW i \in 1..l PROVE rest[i] = b[i]
      <3>1. PICK j \in 1..(k + l) : j = k + i
        OBVIOUS
      <3>2. whole[j] = b[j - k]
        BY <1>4, <3>1
      <3>3. j - k = i
        BY <3>1
      <3> QED
        BY <2>2, <3>1, <3>2, <3>3
    <2> QED
      BY <1>2, <2>1, <2>2, <2>3, SeqEqual
  <1>6. SubSeq(whole, 1, k) = SubSeq(a, 1, k)
    <2>1. PICK first, same : first = SubSeq(whole, 1, k) /\ same = SubSeq(a, 1, k)
      OBVIOUS
    <2>2. first \in Seq(S) /\ Len(first) = k /\ \A i \in 1..k : first[i] = whole[i]
      BY <1>2, <1>4, <2>1
    <2>3. same \in Seq(S) /\ Len(same) = k /\ \A i \in 1..k : same[i] = a[i]
      BY <1>2, <2>1
    <2>4. \A i \in 1..k : first[i] = same[i]
      BY <1>2, <1>4, <2>2, <2>3
    <2> QED
      BY <1>2, <2>1, <2>2, <2>3, <2>4, SeqEqual
  <1>7. Suffix(whole, a) = b
    BY <1>2, <1>4, <1>5 DEF Suffix
  <1>8. IsPrefix(a, whole)
    BY <1>2, <1>4, <1>6 DEF IsPrefix
  <1> QED
    BY <1>3, <1>7, <1>8

\* A path below another is that one and its suffix.
LEMMA PrefixAndSuffix ==
    ASSUME NEW S, NEW a \in Seq(S), NEW b \in Seq(S), IsPrefix(a, b)
    PROVE  Suffix(b, a) \in Seq(S) /\ b = a \o Suffix(b, a) /\ Len(a) <= Len(b)
  <1>1. PICK k \in Nat, l \in Nat : k = Len(a) /\ l = Len(b)
    BY LenProperties
  <1>2. k <= l /\ SubSeq(a, 1, k) = SubSeq(b, 1, k)
    BY <1>1 DEF IsPrefix
  <1>3. \A i \in 1..k : a[i] = b[i]
    <2> SUFFICES ASSUME NEW i \in 1..k PROVE a[i] = b[i]
      OBVIOUS
    <2>1. SubSeq(a, 1, k)[i] = a[i] /\ SubSeq(b, 1, k)[i] = b[i]
      BY <1>1, <1>2
    <2> QED
      BY <1>2, <2>1
  <1>4. PICK rest : rest = SubSeq(b, k + 1, l)
    OBVIOUS
  <1>5. rest \in Seq(S) /\ Len(rest) = l - k /\ \A i \in 1..(l - k) : rest[i] = b[k + i]
    BY <1>1, <1>2, <1>4
  <1>6. PICK joined : joined = a \o rest
    OBVIOUS
  <1>7. joined \in Seq(S) /\ Len(joined) = l /\ \A i \in 1..l : joined[i] = IF i <= k THEN a[i] ELSE rest[i - k]
    <2>1. /\ joined \in Seq(S) /\ Len(joined) = Len(a) + Len(rest)
          /\ \A i \in 1..(Len(a) + Len(rest)) : joined[i] = IF i <= Len(a) THEN a[i] ELSE rest[i - Len(a)]
      BY <1>5, <1>6, ConcatProperties
    <2>2. Len(a) + Len(rest) = l
      BY <1>1, <1>2, <1>5
    <2> QED
      BY <1>1, <2>1, <2>2
  <1>8. \A i \in 1..l : joined[i] = b[i]
    <2> SUFFICES ASSUME NEW i \in 1..l PROVE joined[i] = b[i]
      OBVIOUS
    <2>1. CASE i <= k
      BY <1>1, <1>3, <1>7, <2>1
    <2>2. CASE i > k
      <3>1. PICK j \in 1..(l - k) : i = k + j
        BY <1>1, <1>2, <2>2
      <3>2. joined[i] = rest[i - k] /\ i - k = j
        BY <1>7, <2>2, <3>1, <1>1
      <3> QED
        BY <1>5, <3>1, <3>2
    <2> QED
      BY <1>1, <2>1, <2>2
  <1>9. joined = b
    BY <1>1, <1>7, <1>8, SeqEqual
  <1> QED
    BY <1>1, <1>2, <1>4, <1>5, <1>6, <1>9 DEF Suffix

\* Two prefixes of one path that are equally long are the same.
LEMMA PrefixesOfOneLength ==
    ASSUME NEW S, NEW path \in Seq(S), NEW a \in Seq(S), NEW b \in Seq(S),
           IsPrefix(a, path), IsPrefix(b, path), Len(a) = Len(b)
    PROVE  a = b
  <1>1. PICK k \in Nat : k = Len(a) /\ k = Len(b)
    BY LenProperties
  <1>2. SubSeq(a, 1, k) = SubSeq(b, 1, k)
    BY <1>1 DEF IsPrefix
  <1>3. \A i \in 1..k : a[i] = b[i]
    <2> SUFFICES ASSUME NEW i \in 1..k PROVE a[i] = b[i]
      OBVIOUS
    <2>1. SubSeq(a, 1, k)[i] = a[i] /\ SubSeq(b, 1, k)[i] = b[i]
      BY <1>1
    <2> QED
      BY <1>2, <2>1
  <1> QED
    BY <1>1, <1>3, SeqEqual

\* A path is a prefix of another exactly when it has the same names in the
\* same places.
LEMMA PrefixNames ==
    ASSUME NEW S, NEW a \in Seq(S), NEW b \in Seq(S)
    PROVE  IsPrefix(a, b) <=> Len(a) <= Len(b) /\ \A i \in 1..Len(a) : a[i] = b[i]
  <1>1. PICK k \in Nat, l \in Nat : k = Len(a) /\ l = Len(b)
    BY LenProperties
  <1>2. SubSeq(a, 1, k) = a
    <2>1. PICK q : q = SubSeq(a, 1, k)
      OBVIOUS
    <2>2. q \in Seq(S) /\ Len(q) = k /\ \A i \in 1..k : q[i] = a[i]
      BY <1>1, <2>1
    <2> QED
      BY <1>1, <2>1, <2>2, SeqEqual
  <1>3. ASSUME k <= l PROVE SubSeq(b, 1, k) = a <=> \A i \in 1..k : a[i] = b[i]
    <2>1. PICK q : q = SubSeq(b, 1, k)
      OBVIOUS
    <2>2. q \in Seq(S) /\ Len(q) = k /\ \A i \in 1..k : q[i] = b[i]
      BY <1>1, <1>3, <2>1
    <2>3. (\A i \in 1..k : q[i] = a[i]) => q = a
      BY <1>1, <2>2, SeqEqual
    <2> QED
      BY <2>1, <2>2, <2>3
  <1> QED
    BY <1>1, <1>2, <1>3 DEF IsPrefix

\* An ancestor of a path is a prefix of it, shorter than the path.
LEMMA AncestorBelow ==
    ASSUME NEW S, NEW p \in Seq(S), NEW n \in 1..(Len(p) - 1), NEW q, q = SubSeq(p, 1, n)
    PROVE  q \in Seq(S) /\ IsStrictPrefix(q, p)
  <1>1. q \in Seq(S) /\ Len(q) = n /\ \A i \in 1..n : q[i] = p[i]
    OBVIOUS
  <1>2. Len(q) <= Len(p) /\ q # p
    BY <1>1
  <1>3. IsPrefix(q, p)
    BY <1>1, <1>2, PrefixNames
  <1> QED
    BY <1>1, <1>2, <1>3 DEF IsStrictPrefix

\* What lies above a path's ancestor lies above the path.
LEMMA PrefixOfPrefix ==
    ASSUME NEW a \in Seq(PathNames), NEW q \in Seq(PathNames), NEW p \in Seq(PathNames),
           IsPrefix(a, q), IsStrictPrefix(q, p)
    PROVE  IsPrefix(a, p)
  <1>1. PICK k \in Nat, n \in Nat : k = Len(a) /\ n = Len(q)
    BY LenProperties
  <1>2. k <= n /\ \A i \in 1..k : a[i] = q[i]
    BY <1>1, PrefixNames
  <1>3. n <= Len(p) /\ \A i \in 1..n : q[i] = p[i]
    BY <1>1, PrefixNames DEF IsStrictPrefix
  <1>4. k <= Len(p) /\ \A i \in 1..k : a[i] = p[i]
    BY <1>1, <1>2, <1>3, LenProperties
  <1> QED
    BY <1>1, <1>4, PrefixNames

\* A file's path is its folder and its name.
LEMMA FolderAndName ==
    ASSUME NEW S, NEW r \in Seq(S), NEW x \in S
    PROVE  /\ Append(r, x) \in Seq(S) /\ Append(r, x) # <<>>
           /\ Parent(Append(r, x)) = r /\ BaseName(Append(r, x)) = x
  <1>1. PICK p : p = Append(r, x)
    OBVIOUS
  <1>2. p \in Seq(S) /\ Len(p) = Len(r) + 1 /\ (\A i \in 1..Len(r) : p[i] = r[i]) /\ p[Len(r) + 1] = x
    BY <1>1, AppendProperties
  <1>3. PICK k \in Nat : k = Len(r)
    BY LenProperties
  <1>4. SubSeq(p, 1, k) = r
    <2>1. PICK q : q = SubSeq(p, 1, k)
      OBVIOUS
    <2>2. q \in Seq(S) /\ Len(q) = k /\ \A i \in 1..k : q[i] = p[i]
      BY <1>2, <1>3, <2>1
    <2> QED
      BY <1>2, <1>3, <2>1, <2>2, SeqEqual
  <1>5. Parent(p) = r /\ BaseName(p) = x /\ p # <<>>
    BY <1>2, <1>3, <1>4 DEF Parent, BaseName
  <1> QED
    BY <1>1, <1>2, <1>5

\* And every file's path has the two.
LEMMA PathParts ==
    ASSUME NEW S, NEW p \in Seq(S), p # <<>>
    PROVE  Parent(p) \in Seq(S) /\ BaseName(p) \in S /\ p = Append(Parent(p), BaseName(p))
  <1>1. PICK k \in Nat : Len(p) = k + 1
    <2>1. Len(p) \in Nat /\ Len(p) # 0
      BY EmptySeq, LenProperties
    <2> QED
      BY <2>1
  <1>2. PICK q : q = SubSeq(p, 1, k)
    OBVIOUS
  <1>3. q \in Seq(S) /\ Len(q) = k /\ \A i \in 1..k : q[i] = p[i]
    BY <1>1, <1>2
  <1>4. p[k + 1] \in S
    BY <1>1
  <1>5. PICK whole : whole = Append(q, p[k + 1])
    OBVIOUS
  <1>6. /\ whole \in Seq(S) /\ Len(whole) = k + 1
        /\ \A i \in 1..k : whole[i] = p[i]
        /\ whole[k + 1] = p[k + 1]
    BY <1>3, <1>4, <1>5, AppendProperties
  <1>7. \A i \in 1..(k + 1) : whole[i] = p[i]
    BY <1>6
  <1>8. whole = p
    BY <1>1, <1>6, <1>7, SeqEqual
  <1>9. Parent(p) = q /\ BaseName(p) = p[k + 1]
    BY <1>1, <1>2 DEF Parent, BaseName
  <1> QED
    BY <1>3, <1>4, <1>5, <1>8, <1>9

-----------------------------------------------------------------------------
(* Modules *)

\* Manifests as they were read.
WellRead(read) ==
    \A m \in DOMAIN read : WellFormed(m, read[m]) /\ read[m].kind \notin {"dir", "locked"}

\* A module's root is a folder of the repository whose manifest was read and
\* parsed.
LEMMA ModulesWell ==
    ASSUME NEW read, WellRead(read), NEW r \in Modules(read)
    PROVE  /\ r \in Seq(PathNames) /\ r # NoRoot
           /\ ModFile(r) \in DOMAIN read /\ BaseName(ModFile(r)) = "go.mod"
           /\ ModulePath(read, r) \in Seq(PathNames) /\ ModulePath(read, r) # <<>>
           /\ Replacements(read[ModFile(r)])
  <1>1. PICK p \in DOMAIN read : BaseName(p) = "go.mod" /\ read[p].module # <<>> /\ r = Parent(p)
    BY DEF Modules
  <1>2. p \in Seq(PathNames) /\ p # <<>> /\ p[1] # ".." /\ read[p].module \in Seq(PathNames) /\ Replacements(read[p])
    BY <1>1 DEF WellRead, WellFormed
  <1>3. r \in Seq(PathNames) /\ p = ModFile(r)
    BY <1>1, <1>2, PathParts DEF ModFile
  <1>4. r # NoRoot
    <2> SUFFICES ASSUME r = NoRoot PROVE FALSE
      OBVIOUS
    <2>1. Len(r) = 1 /\ r[1] = ".."
      BY DEF NoRoot
    <2>2. p[1] = r[1]
      BY <1>3, <2>1, AppendProperties DEF ModFile
    <2> QED
      BY <1>2, <2>1, <2>2
  <1> QED
    BY <1>1, <1>2, <1>3, <1>4 DEF ModulePath

\* A set of numbers with a bound has a greatest one.
LEMMA GreatestBelow ==
    ASSUME NEW numbers \in SUBSET Nat, numbers # {}, NEW top \in Nat, \A n \in numbers : n <= top
    PROVE  \E g \in numbers : \A n \in numbers : n <= g
  <1>1. PICK missing : missing = {top - n : n \in numbers}
    OBVIOUS
  <1>2. missing \subseteq Nat /\ missing # {}
    <2>1. PICK n : n \in numbers
      OBVIOUS
    <2>2. top - n \in missing
      BY <1>1, <2>1
    <2>3. missing \subseteq Nat
      <3>1. \A m \in numbers : m \in Nat /\ m <= top
        OBVIOUS
      <3> QED
        BY <1>1, <3>1
    <2> QED
      BY <2>2, <2>3
  <1>3. PICK least \in missing : \A other \in missing : ~(<<other, least>> \in OpToRel(<, Nat))
    BY <1>2, NatLessThanWellFounded, WFMin
  <1>4. \A other \in missing : least <= other
    <2>1. OpToRel(<, Nat) = {pair \in Nat \X Nat : pair[1] < pair[2]}
      BY DEF OpToRel
    <2>2. PICK less : less = {pair \in Nat \X Nat : pair[1] < pair[2]}
      OBVIOUS
    <2>3. \A other \in missing : ~(<<other, least>> \in less)
      BY <1>3, <2>1, <2>2, Zenon
    <2>4. ASSUME NEW other \in Nat, NEW limit \in Nat, other < limit PROVE <<other, limit>> \in less
      BY <2>2, <2>4
    <2>5. missing \subseteq Nat /\ least \in Nat
      BY <1>2
    <2>6. ASSUME NEW other \in missing PROVE least <= other
      <3>1. ~(other < least)
        <4> SUFFICES ASSUME other < least PROVE FALSE
          OBVIOUS
        <4>1. <<other, least>> \in less
          BY <2>4, <2>5
        <4> QED
          BY <2>3, <4>1, Zenon
      <3> QED
        BY <2>5, <3>1
    <2> QED
      BY <2>6
  <1>5. PICK g \in numbers : least = top - g
    BY <1>1, <1>3
  <1>6. ASSUME NEW n \in numbers PROVE n <= g
    <2>1. top - g <= top - n
      BY <1>1, <1>4, <1>5
    <2> QED
      BY <2>1
  <1> QED
    BY <1>6

\* A set of prefixes of a path has a longest one, and only one.
LEMMA LongestPrefix ==
    ASSUME NEW path \in Seq(PathNames), NEW around, around # {},
           \A r \in around : r \in Seq(PathNames) /\ IsPrefix(r, path)
    PROVE  /\ Longest(around) \in around
           /\ \A r \in around : Len(r) <= Len(Longest(around))
  <1>1. PICK top \in Nat : top = Len(path)
    BY LenProperties
  <1>2. \A r \in around : Len(r) \in Nat /\ Len(r) <= top
    BY <1>1, LenProperties DEF IsPrefix
  <1>3. PICK lengths : lengths = {Len(r) : r \in around}
    OBVIOUS
  <1>4. lengths \in SUBSET Nat /\ lengths # {} /\ \A n \in lengths : n <= top
    BY <1>2, <1>3
  <1>5. PICK greatest \in lengths : \A n \in lengths : n <= greatest
    BY <1>1, <1>4, GreatestBelow
  <1>6. PICK s \in around : greatest = Len(s)
    BY <1>3
  <1>7. \A r \in around : Len(r) <= Len(s)
    BY <1>3, <1>5, <1>6
  <1> QED
    BY <1>7 DEF Longest

\* The nearest module is the longest of the roots around the directory.
LEMMA NearestOf ==
    ASSUME NEW read, WellRead(read), NEW dir \in Seq(PathNames), NearestModule(read, dir) # NoRoot
    PROVE  LET r == NearestModule(read, dir)
           IN /\ r \in Modules(read) /\ IsPrefix(r, dir)
              /\ \A s \in Modules(read) : IsPrefix(s, dir) => Len(s) <= Len(r)
  <1>1. PICK around : around = {r \in Modules(read) : IsPrefix(r, dir)}
    OBVIOUS
  <1>2. around # {} /\ NearestModule(read, dir) = Longest(around)
    BY <1>1 DEF NearestModule
  <1>3. \A r \in around : r \in Seq(PathNames) /\ IsPrefix(r, dir)
    BY <1>1, ModulesWell
  <1>4. Longest(around) \in around /\ \A r \in around : Len(r) <= Len(Longest(around))
    BY <1>2, <1>3, LongestPrefix
  <1> QED
    BY <1>1, <1>2, <1>4

\* And whichever root is the longest is the nearest module.
LEMMA NearestIs ==
    ASSUME NEW read, WellRead(read), NEW dir \in Seq(PathNames), NEW r \in Modules(read), IsPrefix(r, dir),
           \A s \in Modules(read) : IsPrefix(s, dir) => Len(s) <= Len(r)
    PROVE  NearestModule(read, dir) = r
  <1>1. PICK around : around = {s \in Modules(read) : IsPrefix(s, dir)}
    OBVIOUS
  <1>2. r \in around /\ NearestModule(read, dir) = Longest(around)
    BY <1>1 DEF NearestModule
  <1>3. \A s \in around : s \in Seq(PathNames) /\ IsPrefix(s, dir)
    BY <1>1, ModulesWell
  <1>4. PICK longest \in around : longest = Longest(around) /\ \A s \in around : Len(s) <= Len(longest)
    BY <1>2, <1>3, LongestPrefix
  <1>5. Len(longest) = Len(r)
    <2>1. Len(longest) <= Len(r) /\ Len(r) <= Len(longest)
      BY <1>1, <1>2, <1>4
    <2>2. Len(longest) \in Nat /\ Len(r) \in Nat
      BY <1>2, <1>3, <1>4, LenProperties
    <2> QED
      BY <2>1, <2>2
  <1>6. longest = r
    BY <1>2, <1>3, <1>4, <1>5, PrefixesOfOneLength
  <1> QED
    BY <1>2, <1>4, <1>6

\* With fewer modules, the nearest one is the same as long as it is there.
LEMMA NearestAmongFewer ==
    ASSUME NEW read, WellRead(read), NEW now, WellRead(now), Modules(now) \subseteq Modules(read),
           NEW dir \in Seq(PathNames), NearestModule(read, dir) \in Modules(now)
    PROVE  NearestModule(now, dir) = NearestModule(read, dir)
  <1>1. PICK r \in Modules(now) : r = NearestModule(read, dir)
    OBVIOUS
  <1>2. r # NoRoot
    BY <1>1, ModulesWell
  <1>3. IsPrefix(r, dir) /\ \A s \in Modules(read) : IsPrefix(s, dir) => Len(s) <= Len(r)
    BY <1>1, <1>2, NearestOf
  <1>4. \A s \in Modules(now) : IsPrefix(s, dir) => Len(s) <= Len(r)
    BY <1>3
  <1> QED
    BY <1>1, <1>3, <1>4, NearestIs

-----------------------------------------------------------------------------
(* Proofs of package identities *)

\* What the syntax inventory holds of the files that parsed.
SyntaxWell ==
    /\ IsFiniteSet(Parsed)
    /\ \A p \in DOMAIN artifacts["golang"] : artifacts["golang"][p].status # "verified"
    /\ \A p \in Parsed :
         /\ p \in Seq(PathNames) /\ p # <<>>
         /\ Source(p).kind = "go" /\ \A i \in Source(p).imports : i.path \in Seq(PathNames)
         /\ PackageOf(p) = <<Parent(p), Source(p).package>>

\* A package is the directory and the package clause of each of its files.
LEMMA PackagesWell ==
    ASSUME SyntaxWell, NEW pkg \in Packages
    PROVE  /\ pkg[1] \in Seq(PathNames) /\ pkg # NoPackage /\ pkg = <<pkg[1], pkg[2]>>
           /\ FilesOf(pkg) # {}
           /\ \A p \in FilesOf(pkg) : pkg[1] = Parent(p) /\ pkg[2] = Source(p).package
           /\ \A path \in Imports(pkg) : path \in Seq(PathNames)
  <1>1. PICK p \in Parsed : pkg = PackageOf(p)
    BY DEF Packages
  <1>2. pkg = <<Parent(p), Source(p).package>> /\ Parent(p) \in Seq(PathNames)
    BY <1>1, PathParts DEF SyntaxWell
  <1>3. pkg # NoPackage /\ pkg[1] \in Seq(PathNames) /\ pkg = <<pkg[1], pkg[2]>>
    BY <1>2 DEF NoPackage
  <1>4. \A q \in FilesOf(pkg) : q \in Parsed /\ pkg = <<Parent(q), Source(q).package>>
    BY DEF FilesOf, SyntaxWell
  <1>5. \A q \in FilesOf(pkg) : pkg[1] = Parent(q) /\ pkg[2] = Source(q).package
    BY <1>4
  <1>6. \A path \in Imports(pkg) : path \in Seq(PathNames)
    BY <1>4 DEF Imports, SyntaxWell
  <1> QED
    BY <1>1, <1>3, <1>5, <1>6 DEF FilesOf

\* One candidate resolves, several are ambiguous, and only what is resolved has
\* a target.
LEMMA Decisions ==
    ASSUME NEW candidates, NEW evidence
    PROVE  /\ Decided(candidates, evidence).evidence = evidence
           /\ Decided(candidates, evidence).status = "resolved" =>
                Decided(candidates, evidence).target \in candidates
           /\ Decided(candidates, evidence).status \in {"resolved", "unresolved", "ambiguous"}
           /\ Decided(candidates, evidence).status # "resolved" =>
                Decided(candidates, evidence).target = NoPackage
           /\ Cardinality(candidates) = 1 => Decided(candidates, evidence).status = "resolved"
           /\ Cardinality(candidates) # 1 /\ candidates # {} =>
                Decided(candidates, evidence).status = "ambiguous"
  <1>1. CASE Cardinality(candidates) = 1
    <2>1. candidates # {}
      BY <1>1, FS_EmptySet
    <2> QED
      BY <1>1, <2>1 DEF Decided
  <1>2. CASE Cardinality(candidates) # 1
    BY <1>2 DEF Decided
  <1> QED
    BY <1>1, <1>2

\* The manifests of now are some of those that were read.
Fewer(read, now) ==
    WellRead(read) /\ WellRead(now) /\ Modules(now) \subseteq Modules(read)

\* A module has at a path below its own the package whose import path that is.
LEMMA AtItsPath ==
    ASSUME SyntaxWell, NEW read, WellRead(read), NEW r \in Modules(read),
           NEW path \in Seq(PathNames), IsPrefix(ModulePath(read, r), path),
           NEW pkg \in Packages, NearestModule(read, pkg[1]) = r
    PROVE  pkg[1] = r \o Suffix(path, ModulePath(read, r)) <=> CanonicalPath(read, pkg) = path
  <1>1. PICK module \in Seq(PathNames) : module = ModulePath(read, r)
    BY ModulesWell
  <1>2. PICK rest \in Seq(PathNames) : rest = Suffix(path, module) /\ path = module \o rest
    <2>1. IsPrefix(module, path)
      BY <1>1
    <2> QED
      BY <2>1, PrefixAndSuffix
  <1>3. PICK dir \in Seq(PathNames) : dir = pkg[1]
    BY PackagesWell
  <1>4. r \in Seq(PathNames) /\ r # NoRoot
    BY ModulesWell
  <1>5. IsPrefix(r, dir)
    BY <1>3, <1>4, NearestOf
  <1>6. PICK below \in Seq(PathNames) : below = Suffix(dir, r) /\ dir = r \o below
    BY <1>3, <1>4, <1>5, PrefixAndSuffix
  <1>7. CanonicalPath(read, pkg) = module \o below
    BY <1>1, <1>3, <1>6 DEF CanonicalPath
  <1>8. dir = r \o rest => below = rest
    BY <1>4, <1>6, SuffixOfConcatenation
  <1>9. path = module \o below => below = rest
    <2>1. Suffix(module \o below, module) = below
      BY SuffixOfConcatenation
    <2> QED
      BY <1>2, <2>1
  <1> QED
    BY <1>1, <1>2, <1>3, <1>6, <1>7, <1>8, <1>9

\* A package keeps its import path while its module's manifest is as it was.
LEMMA CanonicalAmongFewer ==
    ASSUME NEW read, NEW now, Fewer(read, now), NEW pkg, pkg[1] \in Seq(PathNames),
           NearestModule(read, pkg[1]) \in Modules(now),
           now[ModFile(NearestModule(read, pkg[1]))] = read[ModFile(NearestModule(read, pkg[1]))]
    PROVE  /\ NearestModule(now, pkg[1]) = NearestModule(read, pkg[1])
           /\ CanonicalPath(now, pkg) = CanonicalPath(read, pkg)
  <1>1. NearestModule(now, pkg[1]) = NearestModule(read, pkg[1])
    BY NearestAmongFewer DEF Fewer
  <1> QED
    BY <1>1 DEF CanonicalPath, ModulePath

\* An import that one of the context's modules answers is true, now, if that
\* module is there.
LEMMA MatchJustified ==
    ASSUME SyntaxWell, NEW read, NEW now, Fewer(read, now),
           NEW importer, importer[1] \in Seq(PathNames), NEW path \in Seq(PathNames),
           NearestModule(read, importer[1]) \in Modules(now),
           NEW c \in Contexts(now), NearestModule(read, importer[1]) \in c.modules,
           c.modules \subseteq Modules(read),
           NEW match, match = LongestMatching(read, path, c.modules),
           \A r \in match : r \in Modules(now) /\ now[ModFile(r)] = read[ModFile(r)],
           NEW evidence, NEW f,
           f = Decided(UNION {PackagesAt(read, r, Suffix(path, ModulePath(read, r))) : r \in match}, evidence),
           f.status = "resolved"
    PROVE  /\ f.target \in Packages /\ Justified(now, importer, path, f.target)
           /\ NearestModule(read, f.target[1]) \in Modules(now)
           /\ NearestModule(now, f.target[1]) = NearestModule(read, f.target[1])
  <1>1. PICK r \in match : f.target \in PackagesAt(read, r, Suffix(path, ModulePath(read, r)))
    <2>1. PICK candidates :
            candidates = UNION {PackagesAt(read, r, Suffix(path, ModulePath(read, r))) : r \in match}
      OBVIOUS
    <2>2. f = Decided(candidates, evidence)
      BY <2>1
    <2>3. f.target \in candidates
      BY <2>2, Decisions
    <2> QED
      BY <2>1, <2>3
  <1>2. PICK pkg \in Packages : /\ pkg = f.target /\ NearestModule(read, pkg[1]) = r
                                /\ pkg[1] = r \o Suffix(path, ModulePath(read, r))
    BY <1>1 DEF PackagesAt, Assigned
  <1>3. r \in c.modules /\ IsPrefix(ModulePath(read, r), path) /\ r \in Modules(read) /\ r \in Modules(now)
    BY <1>1 DEF LongestMatching
  <1>4. CanonicalPath(read, pkg) = path
    BY <1>2, <1>3, AtItsPath DEF Fewer
  <1>5. NearestModule(now, pkg[1]) = r /\ CanonicalPath(now, pkg) = path
    BY <1>1, <1>2, <1>3, <1>4, CanonicalAmongFewer, PackagesWell
  <1>6. PICK owner : owner = NearestModule(read, importer[1])
    OBVIOUS
  <1>7. NearestModule(now, importer[1]) = owner /\ owner # NoRoot /\ r # NoRoot
    BY <1>3, <1>6, NearestAmongFewer, ModulesWell DEF Fewer
  <1>8. {owner, r} \subseteq c.modules
    BY <1>3, <1>6
  <1> QED
    BY <1>2, <1>3, <1>5, <1>7, <1>8 DEF Justified

\* An import that a replacement by a directory answers is true, now, if the
\* replacing manifest and the replacing module are as they were.
LEMMA ReplacementJustified ==
    ASSUME SyntaxWell, NEW read, NEW now, Fewer(read, now),
           NEW importer, importer[1] \in Seq(PathNames), NEW path \in Seq(PathNames),
           NEW owner \in Modules(now), NearestModule(read, importer[1]) = owner,
           now[ModFile(owner)] = read[ModFile(owner)],
           NEW file \in DOMAIN now, file \in DOMAIN read, now[file] = read[file],
           BaseName(file) = "go.work" \/ file = ModFile(owner),
           \A r \in Replacing(read, path, owner, file) : r.target \in Modules(read) =>
               r.target \in Modules(now) /\ now[ModFile(r.target)] = read[ModFile(r.target)],
           NEW f, f = ReplacementProof(read, path, owner, file), f.status = "resolved"
    PROVE  /\ f.target \in Packages /\ Justified(now, importer, path, f.target)
           /\ NearestModule(read, f.target[1]) \in Modules(now)
           /\ NearestModule(now, f.target[1]) = NearestModule(read, f.target[1])
  <1>1. PICK chosen : chosen = Replacing(read, path, owner, file)
    OBVIOUS
  <1>2. PICK targets : targets = {r \in chosen : r.target \in Modules(read)}
    OBVIOUS
  <1>3. PICK candidates : candidates = UNION {PackagesAt(read, r.target, Suffix(path, r.old)) : r \in targets}
    OBVIOUS
  <1>4. \E evidence : f = Decided(candidates, evidence) \/ f = Targetless("external", evidence)
    BY <1>1, <1>2, <1>3 DEF ReplacementProof
  <1>5. f.target \in candidates
    BY <1>4, Decisions DEF Targetless
  <1>6. PICK r \in targets : f.target \in PackagesAt(read, r.target, Suffix(path, r.old))
    BY <1>3, <1>5
  <1>7. /\ r \in read[file].replaces /\ IsPrefix(r.old, path)
        /\ r.old \in DOMAIN read[ModFile(owner)].requires
    BY <1>1, <1>2 DEF Replacing
  <1>8. r.target \in Modules(read) /\ r.target \in Modules(now) /\ now[ModFile(r.target)] = read[ModFile(r.target)]
    BY <1>1, <1>2
  <1>9. Replacements(read[file])
    BY ModulesWell DEF Fewer, WellRead, WellFormed
  <1>10. r.old \in Seq(PathNames) /\ r.target \in Seq(PathNames) /\ r.filesystem
    <2>1. r.target # NoRoot
      BY <1>8, ModulesWell DEF Fewer
    <2> QED
      BY <1>7, <1>9, <2>1 DEF Replacements
  <1>11. PICK pkg \in Packages : /\ pkg = f.target /\ NearestModule(read, pkg[1]) = r.target
                                 /\ pkg[1] = r.target \o Suffix(path, r.old)
    BY <1>6 DEF PackagesAt, Assigned
  <1>12. NearestModule(now, pkg[1]) = r.target
    <2>1. PICK dir \in Seq(PathNames) : dir = pkg[1]
      BY PackagesWell
    <2>2. NearestModule(read, dir) \in Modules(now)
      BY <1>8, <1>11, <2>1
    <2>3. NearestModule(now, dir) = NearestModule(read, dir)
      BY <2>2, NearestAmongFewer DEF Fewer
    <2> QED
      BY <1>11, <2>1, <2>3
  <1>13. path = r.old \o Suffix(pkg[1], r.target)
    <2>1. PICK rest \in Seq(PathNames) : rest = Suffix(path, r.old) /\ path = r.old \o rest
      <3>1. PICK old \in Seq(PathNames) : old = r.old /\ IsPrefix(old, path)
        BY <1>7, <1>10
      <3>2. Suffix(path, old) \in Seq(PathNames) /\ path = old \o Suffix(path, old)
        BY <3>1, PrefixAndSuffix
      <3> QED
        BY <3>1, <3>2
    <2>2. PICK target \in Seq(PathNames) : target = r.target
      BY <1>10
    <2>3. Suffix(target \o rest, target) = rest
      BY SuffixOfConcatenation
    <2> QED
      BY <1>11, <2>1, <2>2, <2>3
  <1>14. NearestModule(now, importer[1]) = owner /\ owner # NoRoot
    BY NearestAmongFewer, ModulesWell DEF Fewer
  <1>15. Replaced(now, owner, path, pkg)
    <2>1. file \in {m \in DOMAIN now : BaseName(m) = "go.work"} \cup {ModFile(owner)}
      OBVIOUS
    <2>2. r \in now[file].replaces /\ r.old \in DOMAIN now[ModFile(owner)].requires
      BY <1>7
    <2> QED
      BY <1>10, <1>12, <1>13, <2>1, <2>2 DEF Replaced
  <1> QED
    BY <1>8, <1>11, <1>12, <1>14, <1>15 DEF Justified

\* The list of vendored modules lies in the vendor folder of its root.
LEMMA VendorFiles ==
    ASSUME NEW root \in Seq(PathNames)
    PROVE  /\ Parent(VendorFile(root)) = root \o <<"vendor">>
           /\ BaseName(VendorFile(root)) = "modules.txt"
           /\ Parent(Parent(VendorFile(root))) = root
  <1>1. PICK vendor \in PathNames, modules \in PathNames : vendor = "vendor" /\ modules = "modules.txt"
    BY DirectoryAssumption
  <1>2. PICK folder : folder = Append(root, vendor)
    OBVIOUS
  <1>3. folder \in Seq(PathNames) /\ Parent(folder) = root
    BY <1>2, FolderAndName
  <1>4. folder = root \o <<vendor>>
    BY <1>2, AppendIsConcat
  <1>5. PICK file : file = Append(folder, modules)
    OBVIOUS
  <1>6. Parent(file) = folder /\ BaseName(file) = modules
    BY <1>3, <1>5, FolderAndName
  <1>7. VendorFile(root) = file
    BY <1>1, <1>2, <1>5 DEF VendorFile
  <1> QED
    BY <1>1, <1>3, <1>4, <1>6, <1>7

\* An import that vendored code answers is the package in the vendor folder, of
\* a module that the list has in the required version.
LEMMA VendoredJustified ==
    ASSUME SyntaxWell, NEW read, WellRead(read),
           NEW importer, NEW path \in Seq(PathNames), NEW owner, NearestModule(read, importer[1]) = owner,
           owner # NoRoot, NEW c, c.root \in Seq(PathNames), VendorFile(c.root) \in DOMAIN read,
           NEW f, f = VendorProof(read, path, owner, c), f.status = "resolved"
    PROVE  f.target \in Packages /\ Justified(read, importer, path, f.target)
  <1>1. PICK file, requires : file = VendorFile(c.root) /\ requires = read[ModFile(owner)].requires
    OBVIOUS
  <1>2. PICK declared : declared = {d \in read[file].packages : d.path = path}
    OBVIOUS
  <1>3. PICK valid : valid = {d \in declared : /\ d.module \in DOMAIN requires
                                               /\ requires[d.module] = d.version
                                               /\ IsPrefix(d.module, path)}
    OBVIOUS
  <1>4. PICK here : here = {pkg \in Packages : Importable(pkg) /\ pkg[1] = Parent(file) \o path}
    OBVIOUS
  <1>5. /\ declared = {} => f = Targetless("external", {})
        /\ declared # {} /\ valid = {} => f = Targetless("unresolved", {file})
        /\ declared # {} /\ valid # {} =>
             f = Decided(here, {file, ModFile(owner)}) \/ f = Targetless("ambiguous", {file, ModFile(owner)})
    BY <1>1, <1>2, <1>3, <1>4 DEF VendorProof
  <1>6. declared # {} /\ valid # {} /\ f = Decided(here, {file, ModFile(owner)})
    BY <1>5 DEF Targetless
  <1>7. f.target \in here
    BY <1>6, Decisions
  <1>8. PICK d \in valid : TRUE
    BY <1>6
  <1>9. PICK pkg \in Packages : pkg = f.target /\ pkg[1] = Parent(file) \o path
    BY <1>4, <1>7
  <1>10. pkg[1] = c.root \o <<"vendor">> \o path
    BY <1>1, <1>9, VendorFiles
  <1>11. c.root \in {Parent(Parent(q)) : q \in {m \in DOMAIN read : BaseName(m) = "modules.txt"}}
    BY <1>1, VendorFiles
  <1>12. d \in read[VendorFile(c.root)].packages /\ d.path = path /\ d.module \in DOMAIN requires
         /\ requires[d.module] = d.version
    BY <1>1, <1>2, <1>3, <1>8
  <1>13. Vendored(read, owner, path, pkg)
    BY <1>1, <1>10, <1>11, <1>12 DEF Vendored
  <1> QED
    BY <1>9, <1>13 DEF Justified

\* A context's modules are of those that parsed, and its root is where its
\* manifest was read.
LEMMA ContextsWell ==
    ASSUME NEW read, WellRead(read), NEW c \in Contexts(read)
    PROVE  /\ c.modules \subseteq Modules(read) /\ c.kind \in {"single", "workspace", "vendor"}
           /\ c.kind = "single" => c.root \in Modules(read) /\ c.modules = {c.root}
           /\ c.kind = "workspace" =>
                /\ Append(c.root, "go.work") \in DOMAIN read
                /\ BaseName(Append(c.root, "go.work")) = "go.work"
           /\ c.kind = "vendor" => c.root \in Seq(PathNames) /\ VendorFile(c.root) \in DOMAIN read
  <1>1. PICK plain : plain = {[kind |-> "single", root |-> r, modules |-> {r}] : r \in Modules(read)}
                                \cup Workspaces(read)
    OBVIOUS
  <1>2. ASSUME NEW d \in plain
        PROVE  /\ d.modules \subseteq Modules(read) /\ d.kind \in {"single", "workspace"}
               /\ d.root \in Seq(PathNames)
               /\ d.kind = "single" => d.root \in Modules(read) /\ d.modules = {d.root}
               /\ d.kind = "workspace" =>
                    /\ Append(d.root, "go.work") \in DOMAIN read
                    /\ BaseName(Append(d.root, "go.work")) = "go.work"
    <2>1. CASE d \in Workspaces(read)
      <3>1. PICK p \in DOMAIN read :
              /\ BaseName(p) = "go.work"
              /\ d = [kind |-> "workspace", root |-> Parent(p), modules |-> read[p].uses \cap Modules(read)]
        BY <2>1 DEF Workspaces
      <3>2. p \in Seq(PathNames) /\ p # <<>>
        BY DEF WellRead, WellFormed
      <3>3. Parent(p) \in Seq(PathNames) /\ p = Append(Parent(p), "go.work")
        BY <3>1, <3>2, PathParts
      <3> QED
        BY <3>1, <3>3
    <2>2. CASE d \notin Workspaces(read)
      <3>1. PICK r \in Modules(read) : d = [kind |-> "single", root |-> r, modules |-> {r}]
        BY <1>1, <1>2, <2>2
      <3> QED
        BY <3>1, ModulesWell
    <2> QED
      BY <2>1, <2>2
  <1>3. CASE c \in plain
    BY <1>2, <1>3
  <1>4. CASE c \notin plain
    <2>1. PICK d \in plain : Vendors(read, d) /\ c = [d EXCEPT !.kind = "vendor"]
      BY <1>1, <1>4 DEF Contexts
    <2>2. d.modules = c.modules /\ d.root = c.root /\ c.kind = "vendor"
      <3>1. CASE d \in Workspaces(read)
        BY <2>1, <3>1 DEF Workspaces
      <3>2. CASE d \notin Workspaces(read)
        BY <1>1, <2>1, <3>2
      <3> QED
        BY <3>1, <3>2
    <2> QED
      BY <1>2, <2>1, <2>2 DEF Vendors
  <1> QED
    BY <1>3, <1>4

\* The modules that answer an import are of the context.
LEMMA MatchesOf ==
    ASSUME NEW read, NEW path, NEW roots
    PROVE  LongestMatching(read, path, roots) \subseteq roots
  BY DEF LongestMatching

\* Whatever resolves an import, what it is resolved to has that import path.
LEMMA ResolveJustified ==
    ASSUME SyntaxWell, NEW read, WellRead(read), NEW importer, importer[1] \in Seq(PathNames),
           NEW path \in Seq(PathNames), NEW owner, owner = NearestModule(read, importer[1]), owner # NoRoot,
           NEW c \in Contexts(read), owner \in c.modules,
           NEW f, f = Resolve(read, path, owner, c), f.status = "resolved"
    PROVE  f.target \in Packages /\ Justified(read, importer, path, f.target)
  <1>1. PICK match : match = LongestMatching(read, path, c.modules)
    OBVIOUS
  <1>2. /\ Fewer(read, read) /\ c.modules \subseteq Modules(read) /\ owner \in Modules(read)
        /\ ModFile(owner) \in DOMAIN read
    BY ContextsWell, NearestOf, ModulesWell DEF Fewer
  <1>3. CASE match # {}
    <2>1. f = Decided(UNION {PackagesAt(read, r, Suffix(path, ModulePath(read, r))) : r \in match},
                      {ModFile(r) : r \in match})
      BY <1>1, <1>3 DEF Resolve
    <2>2. \A r \in match : r \in Modules(read)
      BY <1>1, <1>2, MatchesOf
    <2> QED
      BY <1>1, <1>2, <2>1, <2>2, MatchJustified
  <1>4. CASE match = {} /\ c.kind = "vendor"
    <2>1. f = VendorProof(read, path, owner, c)
      BY <1>1, <1>4 DEF Resolve
    <2>2. c.root \in Seq(PathNames) /\ VendorFile(c.root) \in DOMAIN read
      BY <1>4, ContextsWell
    <2> QED
      BY <2>1, <2>2, VendoredJustified
  <1>5. CASE match = {} /\ c.kind # "vendor"
    <2>1. PICK file \in DOMAIN read : /\ f = ReplacementProof(read, path, owner, file)
                                      /\ BaseName(file) = "go.work" \/ file = ModFile(owner)
      <3>1. f = Targetless("external", {}) => f.status # "resolved"
        BY DEF Targetless
      <3>2. CASE c.kind = "workspace" /\ Replacing(read, path, owner, Append(c.root, "go.work")) # {}
        <4>1. f = ReplacementProof(read, path, owner, Append(c.root, "go.work"))
          BY <1>1, <1>5, <3>2 DEF Resolve
        <4> QED
          BY <3>2, <4>1, ContextsWell
      <3>3. CASE ~(c.kind = "workspace" /\ Replacing(read, path, owner, Append(c.root, "go.work")) # {})
        <4>1. f = ReplacementProof(read, path, owner, ModFile(owner)) \/ f = Targetless("external", {})
          BY <1>1, <1>5, <3>3 DEF Resolve
        <4> QED
          BY <1>2, <3>1, <4>1
      <3> QED
        BY <3>2, <3>3
    <2> QED
      BY <1>2, <2>1, ReplacementJustified
  <1> QED
    BY <1>3, <1>4, <1>5

\* A module is there as long as its manifest is as it was read.
LEMMA ModuleStays ==
    ASSUME NEW read, WellRead(read), NEW r \in Modules(read), NEW now,
           ModFile(r) \in DOMAIN now, now[ModFile(r)] = read[ModFile(r)]
    PROVE  r \in Modules(now)
  <1>1. r \in Seq(PathNames) /\ BaseName(ModFile(r)) = "go.mod" /\ read[ModFile(r)].module # <<>>
    BY ModulesWell DEF ModulePath
  <1>2. Parent(ModFile(r)) = r
    <2>1. PICK name \in PathNames : name = "go.mod"
      BY DirectoryAssumption
    <2> QED
      BY <1>1, <2>1, FolderAndName DEF ModFile
  <1> QED
    BY <1>1, <1>2 DEF Modules

\* What the importing module alone decides, it decided by manifests it cites:
\* it stays true while they are there, whatever becomes of the others.
LEMMA SingleJustified ==
    ASSUME SyntaxWell, NEW read, NEW now, Fewer(read, now),
           NEW importer, importer[1] \in Seq(PathNames), NEW path \in Seq(PathNames),
           NEW owner, owner = NearestModule(read, importer[1]), owner # NoRoot,
           NEW c \in Contexts(read), c.kind = "single", owner \in c.modules,
           NEW f, f = Resolve(read, path, owner, c), f.status = "resolved",
           \A e \in f.evidence : e \in DOMAIN now /\ now[e] = read[e]
    PROVE  /\ f.target \in Packages /\ Justified(now, importer, path, f.target)
           /\ owner \in Modules(now)
           /\ NearestModule(read, f.target[1]) \in Modules(now)
           /\ NearestModule(now, f.target[1]) = NearestModule(read, f.target[1])
  <1>1. PICK match : match = LongestMatching(read, path, c.modules)
    OBVIOUS
  <1>2. c.root = owner /\ c.modules = {owner} /\ owner \in Modules(read) /\ ModFile(owner) \in DOMAIN read
    BY ContextsWell, ModulesWell DEF Fewer
  <1>3. CASE match # {}
    <2>1. f = Decided(UNION {PackagesAt(read, r, Suffix(path, ModulePath(read, r))) : r \in match},
                      {ModFile(r) : r \in match})
      BY <1>1, <1>3 DEF Resolve
    <2>2. match = {owner}
      BY <1>1, <1>2, <1>3, MatchesOf
    <2>3. ModFile(owner) \in DOMAIN now /\ now[ModFile(owner)] = read[ModFile(owner)]
      <3>1. f.evidence = {ModFile(r) : r \in match}
        <4>1. PICK candidates, evidence :
                /\ candidates = UNION {PackagesAt(read, r, Suffix(path, ModulePath(read, r))) : r \in match}
                /\ evidence = {ModFile(r) : r \in match}
          OBVIOUS
        <4>2. Decided(candidates, evidence).evidence = evidence
          BY Decisions
        <4> QED
          BY <2>1, <4>1, <4>2
      <3> QED
        BY <2>2, <3>1
    <2>4. owner \in Modules(now)
      BY <1>2, <2>3, ModuleStays DEF Fewer
    <2>5. PICK d \in Contexts(now) : d = [kind |-> "single", root |-> owner, modules |-> {owner}]
      BY <2>4 DEF Contexts
    <2>6. match = LongestMatching(read, path, d.modules) /\ owner \in d.modules /\ d.modules \subseteq Modules(read)
      BY <1>1, <1>2, <2>5
    <2>7. \A r \in match : r \in Modules(now) /\ now[ModFile(r)] = read[ModFile(r)]
      BY <2>2, <2>3, <2>4
    <2> QED
      BY <2>1, <2>4, <2>6, <2>7, MatchJustified
  <1>4. CASE match = {}
    <2>1. f = ReplacementProof(read, path, owner, ModFile(owner))
      <3>1. f = Targetless("external", {}) => f.status # "resolved"
        BY DEF Targetless
      <3> QED
        BY <1>1, <1>4, <3>1 DEF Resolve
    <2>2. f.evidence = {ModFile(owner)} \cup
            {ModFile(r.target) : r \in {x \in Replacing(read, path, owner, ModFile(owner)) :
                                          x.target \in Modules(read)}}
      <3>1. PICK targets, evidence :
              /\ targets = {x \in Replacing(read, path, owner, ModFile(owner)) : x.target \in Modules(read)}
              /\ evidence = {ModFile(owner), ModFile(owner)} \cup {ModFile(r.target) : r \in targets}
        OBVIOUS
      <3>2. \/ f = Targetless("external", evidence)
            \/ \E candidates : f = Decided(candidates, evidence)
        BY <2>1, <3>1 DEF ReplacementProof
      <3>3. f.evidence = evidence
        BY <3>2, Decisions DEF Targetless
      <3> QED
        BY <3>1, <3>3
    <2>3. ModFile(owner) \in DOMAIN now /\ now[ModFile(owner)] = read[ModFile(owner)]
      BY <2>2
    <2>4. owner \in Modules(now)
      BY <1>2, <2>3, ModuleStays DEF Fewer
    <2>5. ASSUME NEW r \in Replacing(read, path, owner, ModFile(owner)), r.target \in Modules(read)
          PROVE  r.target \in Modules(now) /\ now[ModFile(r.target)] = read[ModFile(r.target)]
      <3>1. ModFile(r.target) \in f.evidence
        BY <2>2, <2>5
      <3> QED
        BY <2>5, <3>1, ModuleStays DEF Fewer
    <2> QED
      BY <1>2, <2>1, <2>3, <2>4, <2>5, ReplacementJustified
  <1> QED
    BY <1>3, <1>4

\* What a module's context says of an import is all its packages can say.
Named(read, root, path) ==
    {pkg \in Packages :
       Importable(pkg) /\ NearestModule(read, pkg[1]) = root /\ CanonicalPath(read, pkg) = path}

\* Inside one module, a path that one package has resolves to it, and one that
\* several have is ambiguous.
LEMMA SingleComplete ==
    ASSUME SyntaxWell, NEW read, WellRead(read), NEW path \in Seq(PathNames), NEW owner \in Modules(read),
           NEW c \in Contexts(read), c.kind = "single", owner \in c.modules,
           NEW f, f = Resolve(read, path, owner, c)
    PROVE  /\ Cardinality(Named(read, owner, path)) = 1 =>
                f.status = "resolved" /\ f.target \in Named(read, owner, path)
           /\ Cardinality(Named(read, owner, path)) > 1 => f.status = "ambiguous"
  <1>1. c.modules = {owner}
    BY ContextsWell
  <1>2. PICK module \in Seq(PathNames) : module = ModulePath(read, owner)
    BY ModulesWell
  <1>3. Cardinality({}) = 0
    BY FS_EmptySet
  <1>4. CASE ~IsPrefix(module, path)
    <2>1. Named(read, owner, path) = {}
      <3> SUFFICES ASSUME NEW pkg \in Named(read, owner, path) PROVE FALSE
        OBVIOUS
      <3>1. pkg \in Packages /\ NearestModule(read, pkg[1]) = owner /\ CanonicalPath(read, pkg) = path
        BY DEF Named
      <3>2. PICK dir \in Seq(PathNames) : dir = pkg[1]
        BY <3>1, PackagesWell
      <3>3. IsPrefix(owner, dir) /\ owner \in Seq(PathNames)
        BY <3>1, <3>2, NearestOf, ModulesWell
      <3>4. Suffix(dir, owner) \in Seq(PathNames) /\ path = module \o Suffix(dir, owner)
        BY <1>2, <3>1, <3>2, <3>3, PrefixAndSuffix DEF CanonicalPath
      <3> QED
        BY <1>4, <3>4, SuffixOfConcatenation
    <2> QED
      BY <1>3, <2>1
  <1>5. CASE IsPrefix(module, path)
    <2>1. LongestMatching(read, path, c.modules) = {owner}
      <3>1. Len(module) \in Nat
        BY LenProperties
      <3> QED
        BY <1>1, <1>2, <1>5, <3>1 DEF LongestMatching
    <2>2. PICK candidates : candidates = PackagesAt(read, owner, Suffix(path, module))
      OBVIOUS
    <2>3. \E evidence : f = Decided(candidates, evidence)
      <3>1. UNION {PackagesAt(read, r, Suffix(path, ModulePath(read, r))) : r \in {owner}} = candidates
        BY <1>2, <2>2
      <3> QED
        BY <2>1, <3>1 DEF Resolve
    <2>4. candidates = Named(read, owner, path)
      BY <1>2, <1>5, <2>2, AtItsPath DEF PackagesAt, Assigned, Named
    <2>5. Cardinality(candidates) > 1 => candidates # {} /\ Cardinality(candidates) # 1
      <3>1. CASE candidates = {}
        BY <1>3, <3>1
      <3>2. CASE Cardinality(candidates) = 1
        BY <3>2
      <3>3. CASE candidates # {} /\ Cardinality(candidates) # 1
        BY <3>3
      <3> QED
        BY <3>1, <3>2, <3>3
    <2> QED
      BY <2>3, <2>4, <2>5, Decisions
  <1> QED
    BY <1>4, <1>5

\* What a proof may cite: manifests that were read, and of modules that parsed.
Citable(read) == {e \in DOMAIN read : BaseName(e) = "go.mod" => read[e].module # <<>>}

\* A proof is true of every directory that still has the manifests it cites.
Lasting(read, f) ==
    \A now : Fewer(read, now) /\ (\A e \in f.evidence : e \in DOMAIN now /\ now[e] = read[e]) =>
      /\ Justified(now, f.package, f.path, f.target)
      /\ NearestModule(read, f.package[1]) \in Modules(now)
      /\ NearestModule(read, f.target[1]) \in Modules(now)
      /\ NearestModule(now, f.target[1]) = NearestModule(read, f.target[1])

\* What every proof says, whatever context it is of.
ProofTrue(read, f) ==
    /\ f.package \in Packages /\ f.path \in Imports(f.package)
    /\ f.status \in {"resolved", "unresolved", "ambiguous", "external"}
    /\ f.evidence \subseteq Citable(read)
    /\ f.context = "unmanaged" \/ \E c \in Contexts(read) : c.kind = f.context /\ c.root = f.root
    /\ IF f.status = "resolved"
         THEN f.target \in Packages /\ Justified(read, f.package, f.path, f.target)
         ELSE f.target = NoPackage
    /\ f.context = "single" =>
         /\ f.root = NearestModule(read, f.package[1])
         /\ f.status = "resolved" => Lasting(read, f)
         /\ Cardinality(Named(read, f.root, f.path)) = 1 =>
              f.status = "resolved" /\ f.target \in Named(read, f.root, f.path)
         /\ Cardinality(Named(read, f.root, f.path)) > 1 => f.status = "ambiguous"

\* What is cited was read, and only what is resolved has a target.
LEMMA ResolveWell ==
    ASSUME SyntaxWell, NEW read, WellRead(read), NEW path, NEW owner \in Modules(read), NEW c \in Contexts(read),
           NEW f, f = Resolve(read, path, owner, c)
    PROVE  /\ f.status \in {"resolved", "unresolved", "ambiguous", "external"}
           /\ f.status # "resolved" => f.target = NoPackage
           /\ f.evidence \subseteq Citable(read)
  <1>1. ASSUME NEW g, NEW evidence, evidence \subseteq Citable(read),
               \/ \E candidates : g = Decided(candidates, evidence)
               \/ g \in {Targetless(status, evidence) : status \in {"unresolved", "ambiguous", "external"}}
        PROVE  /\ g.status \in {"resolved", "unresolved", "ambiguous", "external"}
               /\ g.status # "resolved" => g.target = NoPackage
               /\ g.evidence \subseteq Citable(read)
    <2>1. CASE \E candidates : g = Decided(candidates, evidence)
      BY <1>1, <2>1, Decisions
    <2>2. CASE ~ \E candidates : g = Decided(candidates, evidence)
      BY <1>1, <2>2 DEF Targetless
    <2> QED
      BY <2>1, <2>2
  <1>2. \A r \in Modules(read) : ModFile(r) \in Citable(read)
    BY ModulesWell DEF Citable, ModulePath
  <1>3. ASSUME NEW file \in Citable(read), NEW g, g = ReplacementProof(read, path, owner, file)
        PROVE  \E evidence : /\ evidence \subseteq Citable(read)
                             /\ \/ \E candidates : g = Decided(candidates, evidence)
                                \/ g = Targetless("external", evidence)
    <2>1. PICK targets : targets = {r \in Replacing(read, path, owner, file) : r.target \in Modules(read)}
      OBVIOUS
    <2>2. PICK evidence : evidence = {ModFile(owner), file} \cup {ModFile(r.target) : r \in targets}
      OBVIOUS
    <2>3. evidence \subseteq Citable(read)
      BY <1>2, <2>1, <2>2
    <2>4. (\E candidates : g = Decided(candidates, evidence)) \/ g = Targetless("external", evidence)
      BY <1>3, <2>1, <2>2 DEF ReplacementProof
    <2> QED
      BY <2>3, <2>4
  <1>4. PICK match : match = LongestMatching(read, path, c.modules)
    OBVIOUS
  <1>5. CASE match # {}
    <2>1. PICK evidence : evidence = {ModFile(r) : r \in match}
      OBVIOUS
    <2>2. evidence \subseteq Citable(read)
      BY <1>2, <1>4, <2>1, MatchesOf, ContextsWell
    <2>3. \E candidates : f = Decided(candidates, evidence)
      BY <1>4, <1>5, <2>1 DEF Resolve
    <2> QED
      BY <1>1, <2>2, <2>3
  <1>6. CASE match = {} /\ c.kind = "vendor"
    <2>1. f = VendorProof(read, path, owner, c)
      BY <1>4, <1>6 DEF Resolve
    <2>2. PICK file : file = VendorFile(c.root)
      OBVIOUS
    <2>3. file \in Citable(read)
      BY <1>6, <2>2, ContextsWell, VendorFiles DEF Citable
    <2>4. \/ f = Targetless("external", {}) \/ f = Targetless("unresolved", {file})
          \/ f = Targetless("ambiguous", {file, ModFile(owner)})
          \/ \E candidates : f = Decided(candidates, {file, ModFile(owner)})
      BY <2>1, <2>2 DEF VendorProof
    <2>5. {} \subseteq Citable(read) /\ {file} \subseteq Citable(read) /\ {file, ModFile(owner)} \subseteq Citable(read)
      BY <1>2, <2>3
    <2> QED
      BY <1>1, <2>4, <2>5
  <1>7. CASE match = {} /\ c.kind # "vendor"
    <2>1. \/ f = Targetless("external", {})
          \/ \E file \in Citable(read) : f = ReplacementProof(read, path, owner, file)
      <3>1. CASE c.kind = "workspace" /\ Replacing(read, path, owner, Append(c.root, "go.work")) # {}
        <4>1. f = ReplacementProof(read, path, owner, Append(c.root, "go.work"))
          BY <1>4, <1>7, <3>1 DEF Resolve
        <4> QED
          BY <3>1, <4>1, ContextsWell DEF Citable
      <3>2. CASE ~(c.kind = "workspace" /\ Replacing(read, path, owner, Append(c.root, "go.work")) # {})
        <4>1. f = ReplacementProof(read, path, owner, ModFile(owner)) \/ f = Targetless("external", {})
          BY <1>4, <1>7, <3>2 DEF Resolve
        <4> QED
          BY <1>2, <4>1
      <3> QED
        BY <3>1, <3>2
    <2>2. PICK evidence : /\ evidence \subseteq Citable(read)
                          /\ \/ \E candidates : f = Decided(candidates, evidence)
                             \/ f = Targetless("external", evidence)
      <3>1. CASE f = Targetless("external", {})
        <4>1. {} \subseteq Citable(read)
          OBVIOUS
        <4> QED
          BY <3>1, <4>1
      <3>2. CASE f # Targetless("external", {})
        BY <1>3, <2>1, <3>2
      <3> QED
        BY <3>1, <3>2
    <2> QED
      BY <1>1, <2>2
  <1> QED
    BY <1>5, <1>6, <1>7

\* Every proof that is made says so, and the importing module alone is always
\* one of the contexts.
LEMMA ProofsAreTrue ==
    ASSUME SyntaxWell, NEW read, WellRead(read), NEW pkg \in Packages, NEW path \in Imports(pkg),
           NEW f \in ProofsOf(read, pkg, path)
    PROVE  /\ ProofTrue(read, f) /\ f.package = pkg /\ f.path = path
           /\ f.status = "resolved" =>
                \E g \in ProofsOf(read, pkg, path) : g.context = "single" /\ g.package = pkg /\ g.path = path
  <1>1. PICK owner : owner = NearestModule(read, pkg[1])
    OBVIOUS
  <1>2. pkg[1] \in Seq(PathNames) /\ path \in Seq(PathNames)
    BY PackagesWell
  <1>3. CASE owner = NoRoot
    <2>1. f = [package |-> pkg, path |-> path, context |-> "unmanaged", root |-> pkg[1],
               status |-> "unresolved", target |-> NoPackage, evidence |-> {}]
      BY <1>1, <1>3 DEF ProofsOf
    <2> QED
      BY <2>1 DEF ProofTrue
  <1>4. CASE owner # NoRoot
    <2>1. owner \in Modules(read)
      BY <1>1, <1>2, <1>4, NearestOf
    <2>2. PICK c \in Contexts(read) :
            /\ owner \in c.modules
            /\ f = LET r == Resolve(read, path, owner, c)
                   IN [package |-> pkg, path |-> path, context |-> c.kind, root |-> c.root,
                       status |-> r.status, target |-> r.target, evidence |-> r.evidence]
      BY <1>1, <1>4 DEF ProofsOf
    <2>3. PICK r : r = Resolve(read, path, owner, c)
      OBVIOUS
    <2>4. f = [package |-> pkg, path |-> path, context |-> c.kind, root |-> c.root,
               status |-> r.status, target |-> r.target, evidence |-> r.evidence]
      BY <2>2, <2>3
    <2>5. /\ r.status \in {"resolved", "unresolved", "ambiguous", "external"}
          /\ r.status # "resolved" => r.target = NoPackage
          /\ r.evidence \subseteq Citable(read)
      BY <2>1, <2>3, ResolveWell
    <2>6. r.status = "resolved" => r.target \in Packages /\ Justified(read, pkg, path, r.target)
      BY <1>1, <1>2, <1>4, <2>2, <2>3, ResolveJustified
    <2>7. ASSUME c.kind = "single"
          PROVE  /\ c.root = owner
                 /\ r.status = "resolved" => Lasting(read, f)
                 /\ Cardinality(Named(read, owner, path)) = 1 =>
                      r.status = "resolved" /\ r.target \in Named(read, owner, path)
                 /\ Cardinality(Named(read, owner, path)) > 1 => r.status = "ambiguous"
      <3>1. c.root = owner
        BY <2>2, <2>7, ContextsWell
      <3>2. ASSUME r.status = "resolved" PROVE Lasting(read, f)
        <4> SUFFICES ASSUME NEW now, Fewer(read, now), \A e \in r.evidence : e \in DOMAIN now /\ now[e] = read[e]
                     PROVE  /\ Justified(now, pkg, path, r.target)
                            /\ owner \in Modules(now) /\ NearestModule(read, r.target[1]) \in Modules(now)
                            /\ NearestModule(now, r.target[1]) = NearestModule(read, r.target[1])
          BY <1>1, <2>4 DEF Lasting
        <4> QED
          BY <1>1, <1>2, <1>4, <2>2, <2>3, <2>7, <3>2, SingleJustified
      <3> QED
        BY <2>1, <2>2, <2>3, <2>7, <3>1, <3>2, <1>2, SingleComplete
    <2>8. ProofTrue(read, f)
      BY <1>1, <2>4, <2>5, <2>6, <2>7 DEF ProofTrue
    <2>9. \E g \in ProofsOf(read, pkg, path) : g.context = "single" /\ g.package = pkg /\ g.path = path
      <3>1. PICK d \in Contexts(read) : d = [kind |-> "single", root |-> owner, modules |-> {owner}]
        BY <2>1 DEF Contexts
      <3>2. PICK s : s = Resolve(read, path, owner, d)
        OBVIOUS
      <3>3. [package |-> pkg, path |-> path, context |-> d.kind, root |-> d.root,
             status |-> s.status, target |-> s.target, evidence |-> s.evidence] \in ProofsOf(read, pkg, path)
        BY <1>1, <1>4, <3>1, <3>2 DEF ProofsOf
      <3> QED
        BY <3>1, <3>3
    <2> QED
      BY <2>4, <2>8, <2>9
  <1> QED
    BY <1>3, <1>4

-----------------------------------------------------------------------------
(* Semantic facts *)

\* There are finitely many packages, so their number says whether they agree.
LEMMA PackagesFinite == SyntaxWell => IsFiniteSet(Packages)
  <1> SUFFICES ASSUME SyntaxWell PROVE IsFiniteSet(Packages)
    OBVIOUS
  <1>1. PICK f : f = [p \in Parsed |-> PackageOf(p)]
    OBVIOUS
  <1>2. f \in Surjection(Parsed, Packages)
    <2>1. f \in [Parsed -> Packages] /\ \A pkg \in Packages : \E p \in Parsed : f[p] = pkg
      BY <1>1 DEF Packages
    <2> QED
      BY <2>1 DEF Surjection
  <1> QED
    BY <1>2, FS_Surjection DEF SyntaxWell

\* A proof's manifests are in a directory as they were read.
FreshIn(dir, f) ==
    \A e \in f.evidence :
      e \in DOMAIN dir /\ dir[e].kind \notin {"dir", "locked"} /\ dir[e] = Identity.read[e]

\* What an import is bound to, by the proofs for it.
Combined(dir, b, proofs) ==
    /\ b.status \in {"resolved", "unresolved", "ambiguous", "external"}
    /\ b.status # "resolved" => b.target = NoPackage
    /\ b.status = "external" => proofs # {} /\ \A f \in proofs : f.status = "external"
    /\ b.status = "resolved" =>
         proofs # {} /\ \A f \in proofs : f.status = "resolved" /\ f.target = b.target /\ FreshIn(dir, f)

\* A binding is resolved only when every proof resolves the import, to the same
\* package, by manifests that are still as they were read.
LEMMA CombineWell ==
    ASSUME SyntaxWell, NEW read, NEW proofs, \A f \in proofs : ProofTrue(read, f)
    PROVE  Combined(tree, CombineProofs(proofs), proofs)
  <1>1. PICK statuses, targets : /\ statuses = {f.status : f \in proofs}
                                 /\ targets = {f.target : f \in proofs} \ {NoPackage}
    OBVIOUS
  <1>2. PICK b : b = CombineProofs(proofs)
    OBVIOUS
  <1> USE DEF NoBinding, Binding
  <1>3. CASE proofs = {} \/ \E f \in proofs : ~Fresh(f)
    <2>1. b = NoBinding("unresolved") \/ b = Binding("unresolved", NoPackage, TRUE)
      BY <1>2, <1>3 DEF CombineProofs
    <2> QED
      BY <1>2, <2>1 DEF Combined
  <1>4. CASE ~(proofs = {} \/ \E f \in proofs : ~Fresh(f))
    <2>1. b = IF "ambiguous" \in statuses \/ Cardinality(targets) > 1
                THEN NoBinding("ambiguous")
              ELSE IF statuses = {"resolved"}
                THEN Binding("resolved", CHOOSE t \in targets : TRUE, FALSE)
              ELSE IF statuses = {"external"} THEN NoBinding("external")
              ELSE NoBinding("unresolved")
      BY <1>1, <1>2, <1>4 DEF CombineProofs
    <2>2. CASE "ambiguous" \in statuses \/ Cardinality(targets) > 1
      <3>1. b = [status |-> "ambiguous", target |-> NoPackage, stale |-> FALSE]
        BY <2>1, <2>2
      <3> QED
        BY <1>2, <3>1 DEF Combined
    <2>3. CASE ~("ambiguous" \in statuses \/ Cardinality(targets) > 1) /\ statuses = {"resolved"}
      <3>1. PICK target : target = CHOOSE t \in targets : TRUE
        OBVIOUS
      <3>2. b = [status |-> "resolved", target |-> target, stale |-> FALSE]
        BY <2>1, <2>3, <3>1
      <3>3. \A f \in proofs : f.status = "resolved" /\ f.target \in Packages /\ Fresh(f)
        BY <1>1, <1>4, <2>3 DEF ProofTrue
      <3>4. \A f \in proofs : f.target \in targets
        BY <1>1, <3>3, PackagesWell
      <3>5. IsFiniteSet(targets)
        <4>1. targets \subseteq Packages
          BY <1>1, <3>3
        <4> QED
          BY <4>1, PackagesFinite, FS_Subset
      <3>6. \E t : targets = {t}
        <4>1. targets # {}
          BY <1>4, <3>4
        <4>2. PICK n \in Nat : n = Cardinality(targets)
          BY <3>5, FS_CardinalityType
        <4>3. n # 0 /\ ~(n > 1)
          BY <2>3, <3>5, <4>1, <4>2, FS_EmptySet
        <4>4. n = 1
          BY <4>3
        <4> QED
          BY <3>5, <4>2, <4>4, FS_Singleton
      <3>7. \A f \in proofs : f.target = target
        BY <3>1, <3>4, <3>6
      <3>8. \A f \in proofs : FreshIn(tree, f)
        BY <3>3 DEF Fresh, FreshIn, Readable, Identity
      <3> QED
        BY <1>2, <1>4, <3>2, <3>3, <3>7, <3>8 DEF Combined
    <2>4. CASE ~("ambiguous" \in statuses \/ Cardinality(targets) > 1) /\ statuses = {"external"}
      <3>1. b = [status |-> "external", target |-> NoPackage, stale |-> FALSE]
        BY <2>1, <2>4
      <3>2. \A f \in proofs : f.status = "external"
        BY <1>1, <2>4
      <3> QED
        BY <1>2, <1>4, <3>1, <3>2 DEF Combined
    <2>5. CASE /\ ~("ambiguous" \in statuses \/ Cardinality(targets) > 1)
               /\ statuses # {"resolved"} /\ statuses # {"external"}
      <3>1. b = NoBinding("unresolved")
        BY <2>1, <2>5
      <3> QED
        BY <1>2, <3>1 DEF Combined
    <2> QED
      BY <2>2, <2>3, <2>4, <2>5
  <1> QED
    BY <1>3, <1>4

\* Every target is a declaration of that name in one of the files.
Declared(texts, name, target) ==
    \A d \in target : \E q \in DOMAIN texts : d = <<q, name>> /\ name \in texts[q].declares

\* The target of a name is all the declarations that were found, or none.
LEMMA AmongWell ==
    ASSUME NEW decls
    PROVE  /\ Among(decls).status = "resolved" => decls # {} /\ Among(decls).target = decls
           /\ Among(decls).status # "resolved" => Among(decls).target = {}
  <1>1. Cardinality({}) = 0
    BY FS_EmptySet
  <1>2. CASE Cardinality(decls) = 0
    <2>1. Among(decls) = Unbound
      BY <1>2 DEF Among
    <2> QED
      BY <2>1 DEF Unbound, NotBound
  <1>3. CASE Cardinality(decls) = 1
    <2>1. Among(decls) = [status |-> "resolved", target |-> decls]
      BY <1>3 DEF Among
    <2> QED
      BY <1>1, <1>3, <2>1
  <1>4. CASE Cardinality(decls) # 0 /\ Cardinality(decls) # 1
    <2>1. Among(decls) = NotBound("ambiguous")
      BY <1>4 DEF Among
    <2> QED
      BY <2>1 DEF NotBound
  <1> QED
    BY <1>2, <1>3, <1>4

\* What a name of a package is resolved to is declared in one of its files.
LEMMA AmongDeclared ==
    ASSUME NEW texts, NEW pkg, NEW name
    PROVE  Declared(texts, name, Among(DeclaredIn(texts, pkg, name)).target)
  <1>1. Declared(texts, name, DeclaredIn(texts, pkg, name))
    BY DEF Declared, DeclaredIn
  <1> QED
    BY <1>1, AmongWell DEF Declared

\* A qualified name, whatever was found in the packages it may stand for.
LEMMA ImportedWell ==
    ASSUME NEW named, NEW name, NEW found, DOMAIN found = named
    PROVE  \/ \E b \in named : /\ b.status = "resolved" /\ ~(Cardinality(named) > 1)
                               /\ b = CHOOSE c \in named : TRUE
                               /\ name \in Exported /\ ImportedName(named, name, found) = found[b]
           \/ \E status : status # "resolved" /\ ImportedName(named, name, found) = NotBound(status)
  <1>1. CASE named = {} \/ name \notin Exported
    BY <1>1 DEF ImportedName, Unbound
  <1>2. CASE ~(named = {} \/ name \notin Exported)
    <2>1. PICK b \in named : b = CHOOSE c \in named : TRUE
      BY <1>2
    <2>2. CASE Cardinality(named) > 1
      BY <1>2, <2>2 DEF ImportedName
    <2>3. CASE ~(Cardinality(named) > 1) /\ b.status = "resolved"
      BY <1>2, <2>1, <2>3 DEF ImportedName
    <2>4. CASE ~(Cardinality(named) > 1) /\ b.status # "resolved"
      BY <1>2, <2>1, <2>4 DEF ImportedName
    <2> QED
      BY <2>2, <2>3, <2>4
  <1> QED
    BY <1>1, <1>2

\* So is what a reference is resolved to, however it is qualified.
LEMMA ReferencesDeclared ==
    ASSUME NEW texts, NEW bindings, NEW p, NEW r, NEW f, f = BindReference(texts, bindings, p, r)
    PROVE  /\ f.file = p /\ f.name = r.name /\ f.qualifier = r.qualifier
           /\ Declared(texts, r.name, f.target)
  <1>1. PICK mine, named : mine = {b \in bindings : b.file = p} /\ named = Called(r.qualifier, mine)
    OBVIOUS
  <1>2. PICK found : found = [b \in named |-> Among(DeclaredIn(texts, b.target, r.name))]
    OBVIOUS
  <1>3. PICK answer : answer = IF r.qualifier # "" THEN ImportedName(named, r.name, found)
                               ELSE PlainName(texts, p, mine, r.name)
    OBVIOUS
  <1>4. f = Bound(p, r.name, r.qualifier, answer)
    BY <1>1, <1>2, <1>3 DEF BindReference
  <1>5. \A status : Declared(texts, r.name, NotBound(status).target)
    BY DEF Declared, NotBound
  <1>6. Declared(texts, r.name, answer.target)
    <2>1. CASE r.qualifier # ""
      <3>1. answer = ImportedName(named, r.name, found) /\ DOMAIN found = named
        BY <1>2, <1>3, <2>1
      <3>2. \/ \E b \in named : answer = found[b]
            \/ \E status : answer = NotBound(status)
        BY <3>1, ImportedWell
      <3> QED
        BY <1>2, <1>5, <3>2, AmongDeclared
    <2>2. CASE r.qualifier = ""
      <3>1. PICK own, dots :
              /\ own = DeclaredIn(texts, PackageOf(p), r.name)
              /\ dots = UNION {DeclaredIn(texts, b.target, r.name) :
                                 b \in {c \in mine : c.alias = "." /\ c.status = "resolved"}}
        OBVIOUS
      <3>2. \/ answer = Among(own) \/ answer = Among(dots)
            \/ answer = NotBound("external") \/ answer = Unbound
        BY <1>3, <2>2, <3>1 DEF PlainName
      <3>3. Declared(texts, r.name, dots)
        BY <3>1 DEF Declared, DeclaredIn
      <3>4. Declared(texts, r.name, Among(dots).target)
        BY <3>3, AmongWell DEF Declared
      <3> QED
        BY <1>5, <3>1, <3>2, <3>4, AmongDeclared DEF Unbound
    <2> QED
      BY <2>1, <2>2
  <1> QED
    BY <1>4, <1>6 DEF Bound

\* A name that is resolved as a type is resolved as a reference, to the same.
LEMMA TypesAgree ==
    ASSUME NEW texts, NEW bindings, NEW p, NEW x, NEW q, NEW y,
           NEW t, t = BindTypeRelation(texts, bindings, p, x),
           NEW r, r = BindReference(texts, bindings, q, y),
           t.status = "resolved", <<r.file, r.name, r.qualifier>> = <<t.file, t.name, t.qualifier>>
    PROVE  r.status = "resolved" /\ r.target = t.target
  <1>1. PICK mine, named : mine = {b \in bindings : b.file = p} /\ named = Called(x.qualifier, mine)
    OBVIOUS
  <1>2. PICK types : types = [b \in named |-> AmongTypes(texts, b.target, x.name)]
    OBVIOUS
  <1>3. PICK found : found = [b \in named |-> Among(DeclaredIn(texts, b.target, x.name))]
    OBVIOUS
  <1>4. PICK own : own = TypeTarget(texts, p, x.name)
    OBVIOUS
  <1>5. PICK type : type = IF x.qualifier # "" THEN ImportedName(named, x.name, types)
                           ELSE IF own = Unbound /\ x.name \in PredeclaredTypes THEN NotBound("external")
                           ELSE own
    OBVIOUS
  <1>6. t = Bound(p, x.name, x.qualifier, type)
    BY <1>1, <1>2, <1>4, <1>5 DEF BindTypeRelation
  <1>7. q = p /\ y.name = x.name /\ y.qualifier = x.qualifier
    <2>1. r.file = q /\ r.name = y.name /\ r.qualifier = y.qualifier
      BY ReferencesDeclared
    <2> QED
      BY <1>6, <2>1 DEF Bound
  <1>8. PICK answer : answer = IF x.qualifier # "" THEN ImportedName(named, x.name, found)
                               ELSE PlainName(texts, p, mine, x.name)
    OBVIOUS
  <1>9. r = Bound(p, x.name, x.qualifier, answer)
    BY <1>1, <1>3, <1>7, <1>8 DEF BindReference
  <1>10. \A status : status # "resolved" => NotBound(status).status # "resolved"
    BY DEF NotBound
  <1>11. ASSUME NEW pkg, AmongTypes(texts, pkg, x.name).status = "resolved"
         PROVE  /\ AmongTypes(texts, pkg, x.name) = Among(DeclaredIn(texts, pkg, x.name))
                /\ DeclaredIn(texts, pkg, x.name) # {}
    <2>1. AmongTypes(texts, pkg, x.name) \in {Unbound, Among(DeclaredIn(texts, pkg, x.name))}
      BY DEF AmongTypes
    <2>2. AmongTypes(texts, pkg, x.name) = Among(DeclaredIn(texts, pkg, x.name))
      BY <1>10, <1>11, <2>1 DEF Unbound
    <2> QED
      BY <1>11, <2>2, AmongWell
  <1>12. type.status = "resolved"
    BY <1>6 DEF Bound
  <1>13. answer = type
    <2>1. CASE x.qualifier # ""
      <3>1. type = ImportedName(named, x.name, types) /\ answer = ImportedName(named, x.name, found)
        BY <1>5, <1>8, <2>1
      <3>2. PICK b \in named : /\ b.status = "resolved" /\ ~(Cardinality(named) > 1)
                               /\ b = CHOOSE c \in named : TRUE
                               /\ x.name \in Exported /\ type = types[b]
        BY <1>2, <1>10, <1>12, <3>1, ImportedWell
      <3>3. types[b] = Among(DeclaredIn(texts, b.target, x.name))
        BY <1>2, <1>11, <1>12, <3>2
      <3>4. answer = found[b]
        BY <3>1, <3>2 DEF ImportedName
      <3> QED
        BY <1>3, <3>2, <3>3, <3>4
    <2>2. CASE x.qualifier = ""
      <3>1. type = own
        BY <1>5, <1>10, <1>12, <2>2
      <3>2. own \in {Unbound, AmongTypes(texts, PackageOf(p), x.name)}
        BY <1>4 DEF TypeTarget
      <3>3. own = AmongTypes(texts, PackageOf(p), x.name)
        BY <1>10, <1>12, <3>1, <3>2 DEF Unbound
      <3>4. /\ own = Among(DeclaredIn(texts, PackageOf(p), x.name))
            /\ DeclaredIn(texts, PackageOf(p), x.name) # {}
        BY <1>11, <1>12, <3>1, <3>3
      <3>5. answer = PlainName(texts, p, mine, x.name)
        BY <1>8, <2>2
      <3>6. answer = Among(DeclaredIn(texts, PackageOf(p), x.name))
        BY <3>4, <3>5 DEF PlainName
      <3> QED
        BY <3>1, <3>4, <3>6
    <2> QED
      BY <2>1, <2>2
  <1> QED
    BY <1>6, <1>9, <1>13 DEF Bound

-----------------------------------------------------------------------------
(* The engines one after the other *)

\* What appending does to a sequence.
LEMMA Longer ==
    ASSUME NEW S, NEW s \in Seq(S), NEW x \in S, NEW n \in Nat, n = Len(s), NEW t, t = Append(s, x)
    PROVE  t \in Seq(S) /\ Len(t) = n + 1 /\ (\A i \in 1..n : t[i] = s[i]) /\ t[n + 1] = x
  BY AppendProperties

\* The place of each engine in the order.
LEMMA Positions ==
    /\ \A i \in 1..7 : Order[i] = GoOrder[i]
    /\ GoOrder[1] = "discovery" /\ GoOrder[2] = "ignore" /\ GoOrder[3] = "language"
    /\ GoOrder[4] = "framework" /\ GoOrder[5] = "build-package" /\ GoOrder[6] = "repository-metadata"
    /\ GoOrder[7] = "repository-intelligence-summary"
    /\ GoOrder[8] = "golang" /\ GoOrder[9] = "go-package-identity" /\ GoOrder[10] = "go-semantic"
  <1>1. PICK order \in Seq(Contracted) : order = Order /\ Len(order) = 7
    BY Profiles
  <1>2. PICK first : first = Append(order, "golang")
    OBVIOUS
  <1>3. PICK second : second = Append(first, "go-package-identity")
    OBVIOUS
  <1>4. PICK third : third = Append(second, "go-semantic")
    OBVIOUS
  <1>5. {"golang", "go-package-identity", "go-semantic"} \subseteq Contracted
    BY DEF Contracted
  <1>6. first \in Seq(Contracted) /\ Len(first) = 7 + 1 /\ (\A i \in 1..7 : first[i] = order[i]) /\ first[7 + 1] = "golang"
    BY <1>1, <1>2, <1>5, Longer
  <1>7. /\ second \in Seq(Contracted) /\ Len(second) = 8 + 1
        /\ (\A i \in 1..8 : second[i] = first[i]) /\ second[8 + 1] = "go-package-identity"
    <2>1. PICK n \in Nat : n = 8
      OBVIOUS
    <2>2. PICK prior \in Seq(Contracted), name \in Contracted :
            prior = first /\ n = Len(prior) /\ name = "go-package-identity"
      BY <1>5, <1>6, <2>1
    <2>3. second = Append(prior, name)
      BY <1>3, <2>2
    <2>4. second \in Seq(Contracted) /\ Len(second) = n + 1 /\ (\A i \in 1..n : second[i] = prior[i]) /\ second[n + 1] = name
      BY <2>2, <2>3, Longer
    <2> QED
      BY <2>1, <2>2, <2>4
  <1>8. (\A i \in 1..9 : third[i] = second[i]) /\ third[9 + 1] = "go-semantic"
    <2>1. PICK n \in Nat : n = 9
      OBVIOUS
    <2>2. PICK prior \in Seq(Contracted), name \in Contracted :
            prior = second /\ n = Len(prior) /\ name = "go-semantic"
      BY <1>5, <1>7, <2>1
    <2>3. third = Append(prior, name)
      BY <1>4, <2>2
    <2>4. third \in Seq(Contracted) /\ Len(third) = n + 1 /\ (\A i \in 1..n : third[i] = prior[i]) /\ third[n + 1] = name
      BY <2>2, <2>3, Longer
    <2> QED
      BY <2>1, <2>2, <2>4
  <1>9. GoOrder = third
    BY <1>1, <1>2, <1>3, <1>4 DEF GoOrder
  <1>10. /\ order[1] = "discovery" /\ order[2] = "ignore" /\ order[3] = "language"
         /\ order[4] = "framework" /\ order[5] = "build-package" /\ order[6] = "repository-metadata"
         /\ order[7] = "repository-intelligence-summary"
    BY <1>1 DEF Order
  <1>11. \A i \in 1..7 : third[i] = order[i]
    BY <1>6, <1>7, <1>8
  <1> QED
    BY <1>1, <1>6, <1>7, <1>8, <1>9, <1>10, <1>11

\* Whoever has its turn is the next in the one order.
LEMMA Turns ==
    ASSUME engines \in Seq(Contracted), NEW name, NextEngine(name) \/ NextGoEngine(name)
    PROVE  /\ Len(engines) + 1 \in 1..10 /\ name = GoOrder[Len(engines) + 1]
           /\ Append(engines, name) \in Seq(Contracted) /\ Len(Append(engines, name)) = Len(engines) + 1
  <1>1. PICK n \in Nat : n = Len(engines)
    BY LenProperties
  <1>2. PICK longer : longer = Append(engines, name)
    OBVIOUS
  <1>3. Len(longer) = n + 1 /\ longer[n + 1] = name
    BY <1>1, <1>2
  <1>4. \E order \in {Order, GoOrder} : IsPrefix(longer, order)
    BY <1>2 DEF NextEngine, NextGoEngine
  <1>5. PICK order \in {Order, GoOrder} : n + 1 <= Len(order) /\ SubSeq(longer, 1, n + 1) = SubSeq(order, 1, n + 1)
    BY <1>3, <1>4 DEF IsPrefix
  <1>6. order \in Seq(Contracted) /\ Len(order) <= 10
    <2>1. CASE order = Order
      BY <2>1, Profiles
    <2>2. CASE order = GoOrder
      BY <2>2, Profiles
    <2> QED
      BY <2>1, <2>2
  <1>7. order[n + 1] = name
    <2>1. SubSeq(order, 1, n + 1)[n + 1] = order[n + 1]
      BY <1>1, <1>5, <1>6
    <2>2. SubSeq(longer, 1, n + 1)[n + 1] = longer[n + 1]
      <3>1. PICK S : S = Contracted \cup {name}
        OBVIOUS
      <3>2. engines \in Seq(S) /\ name \in S
        BY <3>1
      <3>3. longer \in Seq(S)
        BY <1>2, <3>2, AppendProperties
      <3> QED
        BY <1>1, <1>3, <3>3
    <2> QED
      BY <1>3, <1>5, <2>1, <2>2
  <1>8. order[n + 1] = GoOrder[n + 1]
    <2>1. CASE order = Order
      <3>1. n + 1 \in 1..7
        BY <1>1, <1>5, <2>1, Profiles
      <3> QED
        BY <2>1, <3>1, Positions
    <2> QED
      BY <2>1
  <1>9. name \in Contracted
    BY <1>1, <1>5, <1>6, <1>7
  <1> QED
    BY <1>1, <1>2, <1>3, <1>5, <1>6, <1>7, <1>8, <1>9, AppendProperties

-----------------------------------------------------------------------------
(* The invariant of an analysis *)

\* The directory has finitely many files, each what its name says.
DirectoryWell(dir) == IsFiniteSet(DOMAIN dir) /\ \A p \in DOMAIN dir : WellFormed(p, dir[p])

\* The store has a place for every artifact, and no engine has refused one.
EnginesWell ==
    /\ engines \in Seq(Contracted)
    /\ Contracted \cup {"go-dependency"} \subseteq DOMAIN artifacts
    /\ outcome # "mismatch"

\* The counts are of the snapshot.
LanguageInv ==
    Len(engines) >= 3 /\ "Go" \in DOMAIN artifacts["language"].counts => VerifyLanguageInventory

\* What parsed is of the snapshot.
SyntaxInv == Len(engines) >= 8 => IdentityInputAgrees /\ SyntaxWell

\* The proofs are true of the manifests that were read, and an import that any
\* context resolves is resolved by the importing module alone, too.
IdentityWell ==
    /\ WellRead(Identity.read) /\ DOMAIN Identity.read \subseteq SnapshotFiles
    /\ \A f \in Identity.proofs :
         /\ ProofTrue(Identity.read, f)
         /\ f.status = "resolved" =>
              \E g \in ProofsFor(f.package, f.path) : g.context = "single"

\* The files are the parsed ones, the bindings follow from the proofs, and what
\* is declared where was read there.
FilesWell ==
    /\ DirectoryWell(Semantic.seen) /\ DOMAIN Semantic.files = DOMAIN artifacts["golang"]
    /\ \A p \in DOMAIN Semantic.files : Verified(p) =>
         /\ p \in Parsed /\ Semantic.files[p].digest = Source(p)
         /\ p \in DOMAIN Semantic.seen /\ Semantic.seen[p] = Source(p)

\* A binding is of an import of a verified file, and follows from its proofs.
BindingsWell ==
    \A b \in Semantic.bindings :
      /\ b.file \in DOMAIN Semantic.files /\ Verified(b.file)
      /\ \E i \in Source(b.file).imports : i.path = b.path /\ i.alias = b.alias
      /\ Combined(Semantic.seen, b, ProofsFor(PackageOf(b.file), b.path))

\* A reference is in a verified file, and so is what it is resolved to.
ReferencesWell ==
    \A r \in Semantic.references :
      /\ r.file \in DOMAIN Semantic.files /\ Verified(r.file)
      /\ \E x \in Source(r.file).refs : x.name = r.name
      /\ \A d \in r.target : /\ d[1] \in DOMAIN Semantic.files /\ Verified(d[1])
                             /\ r.name \in Source(d[1]).declares

\* A name resolved as a type is resolved to the same as a reference.
RelationsWell ==
    \A t \in Semantic.relations, r \in Semantic.references :
      t.status = "resolved" /\ <<r.file, r.name, r.qualifier>> = <<t.file, t.name, t.qualifier>> =>
        r.status = "resolved" /\ r.target = t.target

SemanticWell == FilesWell /\ BindingsWell /\ ReferencesWell /\ RelationsWell

\* What has not run has no artifact.
IdentityInv == IF Len(engines) >= 9 THEN IdentityWell ELSE Identity = NoResult
SemanticInv == IF Len(engines) >= 10 THEN SemanticWell ELSE Semantic = NoResult
\* The edges are those that the artifacts, which no engine changes, translate to.
DependencyInv ==
    artifacts["go-dependency"] # NoResult =>
      Len(engines) >= 10 /\ artifacts["go-dependency"].edges = Translated

\* The invariant: each artifact follows from those before it.
AnalysisInv ==
    /\ DirectoryWell(tree) /\ EnginesWell
    /\ LanguageInv /\ SyntaxInv /\ IdentityInv /\ SemanticInv /\ DependencyInv

\* What depends on the syntax only is the same as long as the syntax is.
LEMMA SyntaxStays ==
    ASSUME artifacts'["golang"] = artifacts["golang"]
    PROVE  /\ Parsed' = Parsed /\ Packages' = Packages
           /\ \A p : Source(p)' = Source(p) /\ PackageOf(p)' = PackageOf(p)
           /\ \A pkg : /\ FilesOf(pkg)' = FilesOf(pkg) /\ Importable(pkg)' = Importable(pkg)
                       /\ Imports(pkg)' = Imports(pkg)
           /\ SyntaxWell' = SyntaxWell
  <1>1. Parsed' = Parsed
    BY DEF Parsed
  <1>2. \A p : Source(p)' = Source(p) /\ PackageOf(p)' = PackageOf(p)
    BY DEF Source, PackageOf
  <1>3. \A pkg : FilesOf(pkg)' = FilesOf(pkg)
    BY <1>1, <1>2 DEF FilesOf
  <1>4. Packages' = Packages
    BY <1>1, <1>2 DEF Packages
  <1>5. \A pkg : Importable(pkg)' = Importable(pkg)
    BY <1>3 DEF Importable
  <1>6. \A pkg : Imports(pkg)' = Imports(pkg)
    BY <1>2, <1>3 DEF Imports
  <1>7. SyntaxWell' = SyntaxWell
    BY <1>1, <1>2 DEF SyntaxWell
  <1> QED
    BY <1>1, <1>2, <1>3, <1>4, <1>5, <1>6, <1>7

\* So are the proofs, which are of manifests as they were read,
LEMMA ProofsStay ==
    ASSUME artifacts'["golang"] = artifacts["golang"], NEW read, NEW f
    PROVE  ProofTrue(read, f)' = ProofTrue(read, f)
  <1>1. Named(read, f.root, f.path)' = Named(read, f.root, f.path)
    BY SyntaxStays DEF Named
  <1> QED
    BY <1>1, SyntaxStays DEF ProofTrue

\* the identities as long as their artifact and the snapshot are the same,
LEMMA IdentityStays ==
    ASSUME artifacts'["golang"] = artifacts["golang"], artifacts'["ignore"] = artifacts["ignore"],
           artifacts'["go-package-identity"] = artifacts["go-package-identity"], IdentityWell
    PROVE  IdentityWell'
  <1>1. Identity' = Identity /\ SnapshotFiles' = SnapshotFiles
    BY DEF Identity, SnapshotFiles
  <1>2. \A pkg, path : ProofsFor(pkg, path)' = ProofsFor(pkg, path)
    BY <1>1 DEF ProofsFor
  <1>3. PICK read : read = Identity.read /\ read = Identity.read'
    BY <1>1
  <1>4. \A f \in Identity.proofs : ProofTrue(read, f) /\ ProofTrue(read, f)'
    BY <1>3, ProofsStay DEF IdentityWell
  <1> QED
    BY <1>1, <1>2, <1>3, <1>4 DEF IdentityWell

\* and the semantic facts and the edges, which come from three artifacts.
LEMMA SemanticStays ==
    ASSUME artifacts'["golang"] = artifacts["golang"],
           artifacts'["go-package-identity"] = artifacts["go-package-identity"],
           artifacts'["go-semantic"] = artifacts["go-semantic"]
    PROVE  SemanticWell' = SemanticWell /\ Translated' = Translated
  <1>1. Identity' = Identity /\ Semantic' = Semantic
    BY DEF Identity, Semantic
  <1>2. \A pkg, path : ProofsFor(pkg, path)' = ProofsFor(pkg, path)
    BY <1>1 DEF ProofsFor
  <1>3. \A p : Verified(p)' = Verified(p)
    BY <1>1 DEF Verified
  <1>4. FilesWell' = FilesWell
    BY <1>1, <1>3, SyntaxStays DEF FilesWell, DirectoryWell
  <1>5. BindingsWell' = BindingsWell
    <2>1. \A dir, b, proofs : Combined(dir, b, proofs)' = Combined(dir, b, proofs)
      BY <1>1 DEF Combined, FreshIn
    <2> QED
      BY <1>1, <1>2, <1>3, <2>1, SyntaxStays DEF BindingsWell
  <1>6. ReferencesWell' = ReferencesWell /\ RelationsWell' = RelationsWell
    BY <1>1, <1>3, SyntaxStays DEF ReferencesWell, RelationsWell
  <1>7. \A p, i : ImportEdges(p, i)' = ImportEdges(p, i)
    <2> SUFFICES ASSUME NEW p, NEW i PROVE ImportEdges(p, i)' = ImportEdges(p, i)
      OBVIOUS
    <2>1. BindingsFor(p, i)' = BindingsFor(p, i)
      BY <1>1 DEF BindingsFor
    <2>2. \A b, proofs : ResolveBound(p, b, proofs)' = ResolveBound(p, b, proofs)
      <3>1. \A pkg : Unsure(pkg)' = Unsure(pkg)
        BY <1>3, SyntaxStays DEF Unsure
      <3>2. \A pkg : FirstUnsure(pkg)' = FirstUnsure(pkg)
        BY <1>1, <3>1 DEF FirstUnsure
      <3> QED
        BY <1>3, <3>1, <3>2 DEF ResolveBound
    <2>3. ResolveContext(p, i)' = ResolveContext(p, i)
      BY <1>1, <1>2, <2>1, <2>2, SyntaxStays DEF ResolveContext
    <2>4. BoundaryNode(p, i)' = BoundaryNode(p, i)
      BY <1>2, SyntaxStays DEF BoundaryNode
    <2>5. \A pkg : OwnerOf(pkg)' = OwnerOf(pkg)
      BY <1>1 DEF OwnerOf
    <2> QED
      BY <2>3, <2>4, <2>5, SyntaxStays DEF ImportEdges
  <1>8. ReferenceEdges' = ReferenceEdges
    BY <1>1, <1>3 DEF ReferenceEdges
  <1>9. Translated' = Translated
    BY <1>7, <1>8, SyntaxStays DEF Translated
  <1> QED
    BY <1>4, <1>5, <1>6, <1>9 DEF SemanticWell

\* A step that makes no artifact but the dependency engine's.
LEMMA KeptInv ==
    ASSUME AnalysisInv, DirectoryWell(tree)', UNCHANGED engines, outcome' # "mismatch",
           DOMAIN artifacts' = DOMAIN artifacts,
           \A name \in Contracted : artifacts'[name] = artifacts[name],
           DependencyInv'
    PROVE  AnalysisInv'
  <1> USE DEF AnalysisInv
  <1>1. /\ artifacts'["ignore"] = artifacts["ignore"] /\ artifacts'["language"] = artifacts["language"]
        /\ artifacts'["golang"] = artifacts["golang"] /\ artifacts'["go-semantic"] = artifacts["go-semantic"]
        /\ artifacts'["go-package-identity"] = artifacts["go-package-identity"]
    BY DEF Contracted
  <1>2. SnapshotFiles' = SnapshotFiles
    BY <1>1 DEF SnapshotFiles
  <1>3. EnginesWell'
    BY DEF EnginesWell
  <1>4. LanguageInv'
    BY <1>1, <1>2 DEF LanguageInv, VerifyLanguageInventory, GoCandidates
  <1>5. SyntaxInv'
    BY <1>1, <1>2, SyntaxStays DEF SyntaxInv, IdentityInputAgrees, InSnapshot
  <1>6. IdentityInv'
    BY <1>1, IdentityStays DEF IdentityInv, Identity
  <1>7. SemanticInv'
    BY <1>1, SemanticStays DEF SemanticInv, Semantic
  <1> QED
    BY <1>3, <1>4, <1>5, <1>6, <1>7

\* How many engines have run when one that matters here has its turn.
LEMMA TurnOf ==
    ASSUME NEW n \in 0..9, NEW name, name = GoOrder[n + 1]
    PROVE  /\ (name = "ignore" <=> n = 1) /\ (name = "language" <=> n = 2)
           /\ (name = "golang" <=> n = 7) /\ (name = "go-package-identity" <=> n = 8)
           /\ (name = "go-semantic" <=> n = 9)
  <1>1. CASE n = 0
    BY <1>1, Positions
  <1>2. CASE n = 1
    BY <1>2, Positions
  <1>3. CASE n = 2
    BY <1>3, Positions
  <1>4. CASE n = 3
    BY <1>4, Positions
  <1>5. CASE n = 4
    BY <1>5, Positions
  <1>6. CASE n = 5
    BY <1>6, Positions
  <1>7. CASE n = 6
    BY <1>7, Positions
  <1>8. CASE n = 7
    BY <1>8, Positions
  <1>9. CASE n = 8
    BY <1>9, Positions
  <1>10. CASE n = 9
    BY <1>10, Positions
  <1> QED
    BY <1>1, <1>2, <1>3, <1>4, <1>5, <1>6, <1>7, <1>8, <1>9, <1>10

\* An engine's turn adds its own artifact and leaves those before it alone.
LEMMA ExecutedInv ==
    ASSUME AnalysisInv, NEW name, NEW artifact, NextEngine(name) \/ NextGoEngine(name),
           Executed(name, artifact),
           name = "language" => LanguageInv', name = "golang" => SyntaxInv',
           name = "go-package-identity" => IdentityInv', name = "go-semantic" => SemanticInv'
    PROVE  AnalysisInv'
  <1> USE DEF AnalysisInv
  <1>1. PICK n \in 0..9 : n = Len(engines) /\ name = GoOrder[n + 1] /\ Len(engines') = n + 1 /\ engines' \in Seq(Contracted)
    <2>1. /\ Len(engines) + 1 \in 1..10 /\ name = GoOrder[Len(engines) + 1]
          /\ Append(engines, name) \in Seq(Contracted) /\ Len(Append(engines, name)) = Len(engines) + 1
      BY Turns DEF EnginesWell
    <2>2. Len(engines) \in Nat
      BY LenProperties DEF EnginesWell
    <2>3. PICK n \in Nat : n = Len(engines)
      BY <2>2
    <2>4. n + 1 \in 1..10
      BY <2>1, <2>3
    <2>5. n \in 0..9
      BY <2>4
    <2> QED
      BY <2>1, <2>3, <2>5 DEF Executed
  <1>turn. /\ (name = "ignore" <=> n = 1) /\ (name = "language" <=> n = 2)
           /\ (name = "golang" <=> n = 7) /\ (name = "go-package-identity" <=> n = 8)
           /\ (name = "go-semantic" <=> n = 9)
    BY <1>1, TurnOf
  <1>2. Contracted \cup {"go-dependency"} \subseteq DOMAIN artifacts' /\ outcome' # "mismatch" /\ tree' = tree
    BY DEF Executed, EnginesWell
  <1>3. EnginesWell'
    BY <1>1, <1>2 DEF EnginesWell
  <1>4. \A other : other # name => artifacts'[other] = artifacts[other]
    BY DEF Executed
  <1> HIDE DEF AnalysisInv
  <1>5. LanguageInv'
    <2>1. CASE name = "language"
      BY <2>1
    <2>2. CASE name # "language"
      <3>1. n + 1 >= 3 => n >= 3
        BY <1>turn, <2>2
      <3>2. n >= 3 => name # "ignore"
        BY <1>turn
      <3> QED
        BY <1>1, <1>4, <2>2, <3>1, <3>2
           DEF AnalysisInv, LanguageInv, VerifyLanguageInventory, GoCandidates, SnapshotFiles
    <2> QED
      BY <2>1, <2>2
  <1>6. SyntaxInv'
    <2>1. CASE name = "golang"
      BY <2>1
    <2>2. CASE name # "golang"
      <3>1. n + 1 >= 8 => n >= 8
        BY <1>turn, <2>2
      <3>2. n >= 8 => name # "ignore"
        BY <1>turn
      <3> QED
        BY <1>1, <1>4, <2>2, <3>1, <3>2, SyntaxStays
           DEF AnalysisInv, SyntaxInv, IdentityInputAgrees, InSnapshot, SnapshotFiles
    <2> QED
      BY <2>1, <2>2
  <1>7. IdentityInv'
    <2>1. CASE name = "go-package-identity"
      BY <2>1
    <2>2. CASE name # "go-package-identity"
      <3>1. n + 1 >= 9 => n >= 9
        BY <1>turn, <2>2
      <3>2. n >= 9 => name \notin {"ignore", "golang"}
        BY <1>turn
      <3>3. Identity' = Identity
        BY <1>4, <2>2 DEF Identity
      <3>4. CASE n >= 9
        BY <1>1, <1>4, <2>2, <3>2, <3>4, IdentityStays DEF AnalysisInv, IdentityInv
      <3>5. CASE ~(n >= 9)
        BY <1>1, <3>1, <3>3, <3>5 DEF AnalysisInv, IdentityInv
      <3> QED
        BY <3>4, <3>5
    <2> QED
      BY <2>1, <2>2
  <1>8. SemanticInv'
    <2>1. CASE name = "go-semantic"
      BY <2>1
    <2>2. CASE name # "go-semantic"
      <3>1. n # 9
        BY <1>turn, <2>2
      <3>2. Semantic' = Semantic
        BY <1>4, <2>2 DEF Semantic
      <3>3. ~(Len(engines) >= 10) /\ ~(Len(engines') >= 10)
        BY <1>1, <3>1
      <3> QED
        BY <3>2, <3>3 DEF AnalysisInv, SemanticInv
    <2> QED
      BY <2>1, <2>2
  <1>9. DependencyInv'
    <2>1. name # "go-dependency"
      <3>1. n + 1 \in 1..10 /\ GoOrder \in Seq(Contracted) /\ Len(GoOrder) = 10
        BY Profiles
      <3>2. name \in Contracted
        BY <1>1, <3>1
      <3> QED
        BY <3>2 DEF Contracted
    <2>2. ~(Len(engines) >= 10)
      BY <1>1
    <2> QED
      BY <1>4, <2>1, <2>2 DEF AnalysisInv, DependencyInv
  <1>10. DirectoryWell(tree)'
    BY <1>2 DEF AnalysisInv, DirectoryWell
  <1> QED
    BY <1>3, <1>5, <1>6, <1>7, <1>8, <1>9, <1>10 DEF AnalysisInv

-----------------------------------------------------------------------------
(* The engines, one by one *)

\* An engine that is not one of those below makes nothing the others rely on.
LEMMA OtherEngines ==
    ASSUME AnalysisInv, NEW name, NEW artifact, NextEngine(name), Executed(name, artifact),
           name \notin {"language", "golang", "go-package-identity", "go-semantic"}
    PROVE  AnalysisInv'
  BY ExecutedInv

\* The languages are counted over the files of the snapshot.
LEMMA DetectLanguagesInv ==
    ASSUME AnalysisInv, DetectLanguages
    PROVE  AnalysisInv'
  <1>1. PICK detected, counts :
          /\ detected = {p \in SnapshotFiles : BaseName(p) \in DOMAIN LanguageOf}
          /\ counts = [l \in {LanguageOf[BaseName(p)] : p \in detected} |->
                         Cardinality({p \in detected : LanguageOf[BaseName(p)] = l})]
    OBVIOUS
  <1>2. PICK artifact : /\ artifact = [counts |-> counts, detected |-> Cardinality(detected),
                                       unknown |-> Cardinality(SnapshotFiles \ detected)]
                        /\ NextEngine("language") /\ Executed("language", artifact)
    BY <1>1 DEF DetectLanguages
  <1>3. artifacts'["language"].counts = counts /\ artifacts'["ignore"] = artifacts["ignore"]
    <2>1. "language" \in DOMAIN artifacts
      BY DEF AnalysisInv, EnginesWell, Contracted
    <2> QED
      BY <1>2, <2>1 DEF Executed
  <1>4. SnapshotFiles' = SnapshotFiles
    BY <1>3 DEF SnapshotFiles
  <1>5. LanguageInv'
    <2> SUFFICES ASSUME "Go" \in DOMAIN counts
                 PROVE  counts["Go"] = Cardinality(GoCandidates')
      BY <1>3 DEF LanguageInv, VerifyLanguageInventory
    <2>1. {p \in detected : LanguageOf[BaseName(p)] = "Go"} = GoCandidates'
      BY <1>1, <1>4 DEF GoCandidates
    <2>2. counts["Go"] = Cardinality({p \in detected : LanguageOf[BaseName(p)] = "Go"})
      BY <1>1
    <2> QED
      BY <2>1, <2>2
  <1> QED
    BY <1>2, <1>5, ExecutedInv

\* How far the engines are when one of the Go engines has its turn.
LEMMA GoTurns ==
    ASSUME AnalysisInv, NEW name, NextGoEngine(name)
    PROVE  /\ Len(engines) \in 0..9 /\ name = GoOrder[Len(engines) + 1]
           /\ "Go" \in DOMAIN artifacts["language"].counts
           /\ (name = "golang" <=> Len(engines) = 7) /\ (name = "go-package-identity" <=> Len(engines) = 8)
           /\ (name = "go-semantic" <=> Len(engines) = 9)
  <1>1. Len(engines) + 1 \in 1..10 /\ name = GoOrder[Len(engines) + 1] /\ Len(engines) \in Nat
    BY Turns, LenProperties DEF AnalysisInv, EnginesWell
  <1>2. PICK n \in 0..9 : n = Len(engines) /\ name = GoOrder[n + 1]
    <2>1. PICK k \in Nat : k = Len(engines)
      BY <1>1
    <2>2. k + 1 \in 1..10 /\ name = GoOrder[k + 1]
      BY <1>1, <2>1
    <2>3. k \in 0..9
      BY <2>2
    <2> QED
      BY <2>1, <2>2, <2>3
  <1>3. /\ (name = "golang" <=> n = 7) /\ (name = "go-package-identity" <=> n = 8)
        /\ (name = "go-semantic" <=> n = 9)
    BY <1>2, TurnOf
  <1>4. "Go" \in DOMAIN artifacts["language"].counts
    BY DEF NextGoEngine
  <1> QED
    BY <1>2, <1>3, <1>4

\* What parsed was read from the directory.
LEMMA ParseGoInv ==
    ASSUME AnalysisInv, ParseGo
    PROVE  AnalysisInv'
  <1>1. NextGoEngine("golang") /\ Len(engines) = 7 /\ "Go" \in DOMAIN artifacts["language"].counts
    BY GoTurns DEF ParseGo
  <1>2. VerifyLanguageInventory
    BY <1>1 DEF AnalysisInv, LanguageInv
  <1>3. PICK outcomes : /\ outcomes = [p \in GoCandidates |-> ProcessFile(p)]
                         /\ Executed("golang", outcomes)
    BY <1>2 DEF ParseGo
  <1>4. artifacts'["golang"] = outcomes /\ artifacts'["ignore"] = artifacts["ignore"]
    <2>1. "golang" \in DOMAIN artifacts
      BY DEF AnalysisInv, EnginesWell, Contracted
    <2> QED
      BY <1>3, <2>1 DEF Executed
  <1>5. IdentityInputAgrees'
    BY <1>3, <1>4 DEF IdentityInputAgrees, InSnapshot, SnapshotFiles, GoCandidates
  <1>6. ASSUME NEW p \in Parsed'
        PROVE  /\ p \in DOMAIN tree /\ p \in Seq(PathNames) /\ p # <<>>
               /\ tree[p].kind = "go" /\ \A i \in tree[p].imports : i.path \in Seq(PathNames)
               /\ Source(p)' = tree[p] /\ PackageOf(p)' = <<Parent(p), tree[p].package>>
    <2>1. p \in GoCandidates /\ outcomes[p] = ProcessFile(p) /\ outcomes[p].status = "parsed"
      BY <1>3, <1>4 DEF Parsed
    <2>2. /\ Readable(p) /\ tree[p].kind \notin {"broken", "large"}
          /\ outcomes[p] = [status |-> "parsed", digest |-> tree[p], package |-> <<Parent(p), tree[p].package>>]
      BY <2>1 DEF ProcessFile
    <2>3. p \in DOMAIN tree /\ tree[p].kind \notin {"dir", "locked", "broken", "large"}
      BY <2>2 DEF Readable
    <2>4. WellFormed(p, tree[p])
      BY <2>3 DEF AnalysisInv, DirectoryWell
    <2>5. BaseName(p) \in DOMAIN LanguageOf /\ LanguageOf[BaseName(p)] = "Go"
      BY <2>1 DEF GoCandidates
    <2>6. /\ p \in Seq(PathNames) /\ p # <<>>
          /\ tree[p].kind = "go" /\ \A i \in tree[p].imports : i.path \in Seq(PathNames)
      BY <2>3, <2>4, <2>5 DEF WellFormed
    <2> QED
      BY <1>4, <2>2, <2>3, <2>6 DEF Source, PackageOf
  <1>7. SyntaxWell'
    <2>1. IsFiniteSet(Parsed')
      <3>1. Parsed' \subseteq DOMAIN tree
        BY <1>6
      <3> QED
        BY <3>1, FS_Subset DEF AnalysisInv, DirectoryWell
    <2>2. \A p \in GoCandidates : outcomes[p].status # "verified"
      BY <1>3 DEF ProcessFile
    <2> QED
      BY <1>3, <1>4, <1>6, <2>1, <2>2 DEF SyntaxWell
  <1> QED
    BY <1>1, <1>3, <1>5, <1>7, ExecutedInv DEF SyntaxInv

\* Every proof is true of the manifests that are read for it.
LEMMA ProveIdentitiesInv ==
    ASSUME AnalysisInv, ProveIdentities
    PROVE  AnalysisInv'
  <1>1. NextGoEngine("go-package-identity") /\ Len(engines) = 8
    BY GoTurns DEF ProveIdentities
  <1>2. IdentityInputAgrees /\ SyntaxWell
    BY <1>1 DEF AnalysisInv, SyntaxInv
  <1>3. PICK read : read = ReadManifests
    OBVIOUS
  <1>4. PICK proofs : proofs = UNION {UNION {ProofsOf(read, pkg, path) : path \in Imports(pkg)} : pkg \in Packages}
    OBVIOUS
  <1>5. PICK facts : facts = [read |-> read, proofs |-> proofs] /\ Executed("go-package-identity", facts)
    BY <1>2, <1>3, <1>4 DEF ProveIdentities
  <1>6. /\ Identity' = facts /\ artifacts'["ignore"] = artifacts["ignore"]
        /\ artifacts'["golang"] = artifacts["golang"]
    <2>1. "go-package-identity" \in DOMAIN artifacts
      BY DEF AnalysisInv, EnginesWell, Contracted
    <2> QED
      BY <1>5, <2>1 DEF Executed, Identity
  <1>7. WellRead(read) /\ DOMAIN read \subseteq SnapshotFiles'
    <2>1. \A m \in DOMAIN read : m \in SnapshotFiles /\ Readable(m) /\ read[m] = tree[m]
      BY <1>3 DEF ReadManifests, ManifestPaths
    <2>2. SnapshotFiles' = SnapshotFiles
      BY <1>6 DEF SnapshotFiles
    <2> QED
      BY <2>1, <2>2 DEF WellRead, Readable, AnalysisInv, DirectoryWell
  <1>8. ASSUME NEW f \in proofs
        PROVE  /\ ProofTrue(read, f)
               /\ f.status = "resolved" =>
                    \E g \in proofs : g.package = f.package /\ g.path = f.path /\ g.context = "single"
    <2>1. PICK pkg \in Packages : \E path \in Imports(pkg) : f \in ProofsOf(read, pkg, path)
      BY <1>4
    <2>2. PICK path \in Imports(pkg) : f \in ProofsOf(read, pkg, path)
      BY <2>1
    <2>3. /\ ProofTrue(read, f) /\ f.package = pkg /\ f.path = path
          /\ f.status = "resolved" =>
               \E g \in ProofsOf(read, pkg, path) : g.context = "single" /\ g.package = pkg /\ g.path = path
      BY <1>2, <1>7, <2>2, ProofsAreTrue
    <2>4. ProofsOf(read, pkg, path) \subseteq proofs
      BY <1>4
    <2> QED
      BY <2>3, <2>4
  <1>9. IdentityWell'
    <2>1. Identity.read' = read /\ Identity.proofs' = proofs
      BY <1>5, <1>6
    <2>2. \A f \in proofs : ProofTrue(read, f)'
      BY <1>6, <1>8, ProofsStay
    <2> QED
      BY <1>7, <1>8, <2>1, <2>2 DEF IdentityWell, ProofsFor
  <1>10. IdentityInv'
    <2>1. Len(engines') = 9
      <3>1. Len(Append(engines, "go-package-identity")) = Len(engines) + 1
        BY <1>1, Turns DEF AnalysisInv, EnginesWell
      <3> QED
        BY <1>1, <1>5, <3>1 DEF Executed
    <2> QED
      BY <1>9, <2>1 DEF IdentityInv
  <1> QED
    BY <1>1, <1>5, <1>10, ExecutedInv

\* What a binding says follows from the proofs for its import.
LEMMA BindImportWell ==
    ASSUME SyntaxWell, IdentityWell, NEW p, NEW i, NEW b, b = BindImport(p, i)
    PROVE  /\ b.file = p /\ b.path = i.path /\ b.alias = i.alias
           /\ Combined(tree, b, ProofsFor(PackageOf(p), i.path))
  <1>1. PICK proofs : proofs = ProofsFor(PackageOf(p), i.path)
    OBVIOUS
  <1>2. \A f \in proofs : ProofTrue(Identity.read, f)
    BY <1>1 DEF ProofsFor, IdentityWell
  <1>3. PICK c : c = CombineProofs(proofs)
    OBVIOUS
  <1>4. Combined(tree, c, proofs)
    BY <1>2, <1>3, CombineWell
  <1>5. PICK name : b = [status |-> c.status, target |-> c.target, stale |-> c.stale,
                         file |-> p, path |-> i.path, alias |-> i.alias, name |-> name]
    BY <1>1, <1>3 DEF BindImport, ProofsFor, Identity
  <1>6. Combined(tree, b, proofs)
    BY <1>4, <1>5 DEF Combined
  <1> QED
    BY <1>1, <1>5, <1>6

\* Semantic facts are of verified files and true proofs.
LEMMA ResolveSemanticsInv ==
    ASSUME AnalysisInv, ResolveSemantics
    PROVE  AnalysisInv'
  <1>1. NextGoEngine("go-semantic") /\ Len(engines) = 9
    BY GoTurns DEF ResolveSemantics
  <1>2. IdentityInputAgrees /\ SyntaxWell /\ IdentityWell
    BY <1>1 DEF AnalysisInv, SyntaxInv, IdentityInv
  <1>3. SemanticInputAgrees
    <2>1. SemanticInput.syntax = artifacts["golang"] /\ SemanticInput.identities = Identity
      BY DEF SemanticInput, Identity
    <2>2. ASSUME NEW f \in Identity.proofs
          PROVE  /\ {f.package, f.target} \subseteq Packages \cup {NoPackage}
                 /\ f.evidence \subseteq SnapshotFiles /\ f.evidence \subseteq DOMAIN Identity.read
      BY <1>2 DEF IdentityWell, ProofTrue, Citable
    <2> QED
      BY <1>2, <2>1, <2>2 DEF SemanticInputAgrees, IdentityInputAgrees, InSnapshot
  <1>4. PICK outcomes : outcomes = [p \in DOMAIN artifacts["golang"] |-> VerifyFile(p)]
    OBVIOUS
  <1>5. PICK texts : texts = [p \in {q \in DOMAIN outcomes : outcomes[q].status = "verified"} |-> outcomes[p].digest]
    OBVIOUS
  <1>6. PICK bindings : bindings = UNION {{BindImport(p, i) : i \in Source(p).imports} : p \in DOMAIN texts}
    OBVIOUS
  <1>7. PICK relations, references :
          /\ relations = UNION {{BindTypeRelation(texts, bindings, p, r) : r \in texts[p].refs} : p \in DOMAIN texts}
          /\ references = UNION {{BindReference(texts, bindings, p, r) : r \in texts[p].refs} : p \in DOMAIN texts}
    OBVIOUS
  <1>8. PICK facts : /\ Executed("go-semantic", facts)
                     /\ facts.files = outcomes /\ facts.bindings = bindings /\ facts.relations = relations
                     /\ facts.references = references /\ facts.seen = tree
    <2>1. Executed("go-semantic", Facts(outcomes, texts, bindings))
      BY <1>3, <1>4, <1>5, <1>6 DEF ResolveSemantics
    <2> QED
      BY <1>7, <2>1 DEF Facts
  <1>9. /\ Semantic' = facts /\ artifacts'["golang"] = artifacts["golang"]
        /\ artifacts'["go-package-identity"] = artifacts["go-package-identity"]
    <2>1. "go-semantic" \in DOMAIN artifacts
      BY DEF AnalysisInv, EnginesWell, Contracted
    <2> QED
      BY <1>8, <2>1 DEF Executed, Semantic
  <1>10. \A p : Verified(p)' <=> outcomes[p].status = "verified"
    BY <1>8, <1>9 DEF Verified
  <1>11. ASSUME NEW p \in DOMAIN outcomes, outcomes[p].status = "verified"
         PROVE  p \in Parsed /\ outcomes[p].digest = Source(p) /\ p \in DOMAIN tree /\ tree[p] = Source(p)
    <2>1. outcomes[p] = VerifyFile(p) /\ p \in DOMAIN artifacts["golang"]
      BY <1>4
    <2>2. PICK status : /\ outcomes[p] = [status |-> status, digest |-> IF status = "verified" THEN tree[p] ELSE NoFile]
                        /\ status = IF p \notin Parsed THEN artifacts["golang"][p].status
                                    ELSE IF ~Readable(p) THEN "failed"
                                    ELSE IF tree[p].kind = "large" THEN "skipped"
                                    ELSE IF tree[p] # Source(p) THEN "stale" ELSE "verified"
      BY <2>1 DEF VerifyFile
    <2>3. status = "verified" /\ outcomes[p].digest = tree[p]
      BY <1>11, <2>2
    <2>4. p \in Parsed
      BY <1>2, <2>1, <2>2, <2>3 DEF SyntaxWell
    <2> QED
      BY <2>2, <2>3, <2>4 DEF Readable
  <1>12. DOMAIN texts = {p \in DOMAIN outcomes : outcomes[p].status = "verified"} /\ \A p \in DOMAIN texts : texts[p] = Source(p)
    <2>1. \A p \in DOMAIN texts : texts[p] = outcomes[p].digest
      BY <1>5
    <2> QED
      BY <1>5, <1>11, <2>1
  <1>13. FilesWell'
    <2>1. DOMAIN outcomes = DOMAIN artifacts["golang"]
      BY <1>4
    <2>2. DirectoryWell(tree)
      BY DEF AnalysisInv
    <2> QED
      BY <1>8, <1>9, <1>10, <1>11, <2>1, <2>2, SyntaxStays DEF FilesWell, DirectoryWell
  <1>14. \A pkg, path : ProofsFor(pkg, path)' = ProofsFor(pkg, path)
    BY <1>9 DEF ProofsFor, Identity
  <1>15. BindingsWell'
    <2>1. ASSUME NEW b \in bindings
          PROVE  /\ b.file \in DOMAIN outcomes /\ outcomes[b.file].status = "verified"
                 /\ \E i \in Source(b.file).imports : i.path = b.path /\ i.alias = b.alias
                 /\ Combined(tree, b, ProofsFor(PackageOf(b.file), b.path))
      <3>1. PICK p \in DOMAIN texts : \E i \in Source(p).imports : b = BindImport(p, i)
        BY <1>6
      <3>2. PICK i \in Source(p).imports : b = BindImport(p, i)
        BY <3>1
      <3>3. /\ b.file = p /\ b.path = i.path /\ b.alias = i.alias
            /\ Combined(tree, b, ProofsFor(PackageOf(p), i.path))
        BY <1>2, <3>2, BindImportWell
      <3> QED
        BY <1>12, <3>3
    <2>2. ASSUME NEW b, NEW proofs PROVE Combined(Semantic.seen, b, proofs)' <=> Combined(tree, b, proofs)
      BY <1>8, <1>9 DEF Combined, FreshIn, Identity
    <2> QED
      BY <1>8, <1>9, <1>10, <1>14, <2>1, <2>2, SyntaxStays DEF BindingsWell
  <1>16. ReferencesWell'
    <2>1. ASSUME NEW r \in references
          PROVE  /\ r.file \in DOMAIN outcomes /\ outcomes[r.file].status = "verified"
                 /\ \E x \in Source(r.file).refs : x.name = r.name
                 /\ \A d \in r.target : /\ d[1] \in DOMAIN outcomes /\ outcomes[d[1]].status = "verified"
                                        /\ r.name \in Source(d[1]).declares
      <3>1. PICK p \in DOMAIN texts : \E x \in texts[p].refs : r = BindReference(texts, bindings, p, x)
        BY <1>7
      <3>2. PICK x \in texts[p].refs : r = BindReference(texts, bindings, p, x)
        BY <3>1
      <3>3. r.file = p /\ r.name = x.name /\ Declared(texts, x.name, r.target)
        BY <3>2, ReferencesDeclared
      <3>4. \A d \in r.target : \E q \in DOMAIN texts : d[1] = q /\ r.name \in texts[q].declares
        BY <3>3 DEF Declared
      <3> QED
        BY <1>12, <3>3, <3>4
    <2> QED
      BY <1>8, <1>9, <1>10, <2>1, SyntaxStays DEF ReferencesWell
  <1>17. RelationsWell'
    <2>1. ASSUME NEW t \in relations, NEW r \in references, t.status = "resolved",
                 <<r.file, r.name, r.qualifier>> = <<t.file, t.name, t.qualifier>>
          PROVE  r.status = "resolved" /\ r.target = t.target
      <3>1. \E p, x : t = BindTypeRelation(texts, bindings, p, x)
        BY <1>7
      <3>2. \E q, y : r = BindReference(texts, bindings, q, y)
        BY <1>7
      <3>3. PICK p, x, q, y : t = BindTypeRelation(texts, bindings, p, x) /\ r = BindReference(texts, bindings, q, y)
        BY <3>1, <3>2
      <3> QED
        BY <2>1, <3>3, TypesAgree
    <2> QED
      BY <1>8, <1>9, <2>1 DEF RelationsWell
  <1>18. SemanticInv'
    <2>1. Len(engines') = 10
      <3>1. Len(Append(engines, "go-semantic")) = Len(engines) + 1
        BY <1>1, Turns DEF AnalysisInv, EnginesWell
      <3> QED
        BY <1>1, <1>8, <3>1 DEF Executed
    <2> QED
      BY <1>13, <1>15, <1>16, <1>17, <2>1 DEF SemanticInv, SemanticWell
  <1> QED
    BY <1>1, <1>8, <1>18, ExecutedInv

\* What an import of a file is bound to, and by which proofs: a refusal would
\* need a binding that they do not carry.
LEMMA ContextsResolved ==
    ASSUME SyntaxWell, IdentityWell, SemanticWell, NEW p \in Parsed, NEW i \in Source(p).imports,
           NEW r, r = ResolveContext(p, i)
    PROVE  /\ r.resolution # "refused"
           /\ r.resolution = "local" =>
                /\ Verified(p) /\ r.target \in Packages
                /\ \A q \in FilesOf(r.target) : q \in DOMAIN Semantic.files => Verified(q)
                /\ \E f \in ProofsFor(PackageOf(p), i.path) :
                     /\ f.context = "single" /\ f.status = "resolved" /\ f.target = r.target
                     /\ FreshIn(Semantic.seen, f)
  <1> USE DEF Boundary
  <1>1. CASE Semantic.files[p].status = "stale" \/ BindingsFor(p, i) = {}
    BY <1>1 DEF ResolveContext
  <1>2. CASE ~(Semantic.files[p].status = "stale" \/ BindingsFor(p, i) = {})
    <2>1. PICK b \in BindingsFor(p, i) : b = CHOOSE c \in BindingsFor(p, i) : TRUE
      BY <1>2
    <2>2. PICK proofs : proofs = ProofsFor(PackageOf(p), i.path)
      OBVIOUS
    <2>3. b \in Semantic.bindings /\ b.file = p /\ b.path = i.path
      BY DEF BindingsFor
    <2>4. Verified(p) /\ Combined(Semantic.seen, b, proofs)
      BY <2>2, <2>3 DEF SemanticWell, BindingsWell
    <2>5. CASE b.stale
      BY <1>2, <2>1, <2>5 DEF ResolveContext
    <2>6. CASE ~b.stale
      <3>1. r = ResolveBound(p, b, proofs)
        BY <1>2, <2>1, <2>2, <2>6 DEF ResolveContext
      <3>2. CASE b.status = "resolved"
        <4>1. proofs # {} /\ \A f \in proofs : f.status = "resolved" /\ f.target = b.target /\ FreshIn(Semantic.seen, f)
          BY <2>4, <3>2 DEF Combined
        <4>2. PICK f \in proofs : f \in Identity.proofs /\ f.package = PackageOf(p) /\ f.path = i.path
          BY <2>2, <4>1 DEF ProofsFor
        <4>3. b.target \in Packages
          BY <4>1, <4>2 DEF IdentityWell, ProofTrue
        <4>4. b.target # NoPackage
          BY <4>3, PackagesWell
        <4>5. PICK g \in proofs : g.context = "single"
          BY <2>2, <4>1, <4>2 DEF IdentityWell
        <4>6. CASE Unsure(b.target) # {}
          BY <3>1, <3>2, <2>4, <4>1, <4>4, <4>6 DEF ResolveBound
        <4>7. CASE Unsure(b.target) = {}
          <5>1. r = [resolution |-> "local", target |-> b.target]
            BY <3>1, <3>2, <2>4, <4>1, <4>4, <4>7 DEF ResolveBound
          <5>2. \A q \in FilesOf(b.target) : Verified(q)
            BY <4>7 DEF Unsure
          <5> QED
            BY <2>2, <2>4, <4>1, <4>3, <4>5, <5>1, <5>2
        <4> QED
          BY <4>6, <4>7
      <3>3. CASE b.status # "resolved"
        <4>1. /\ b.target = NoPackage /\ b.status \in {"unresolved", "ambiguous", "external"}
              /\ b.status = "external" => proofs # {} /\ \A f \in proofs : f.status = "external"
          BY <2>4, <3>3 DEF Combined
        <4>2. r = [resolution |-> b.status, target |-> NoPackage]
          BY <3>1, <3>3, <4>1 DEF ResolveBound
        <4> QED
          BY <4>1, <4>2
      <3> QED
        BY <3>2, <3>3
    <2> QED
      BY <2>5, <2>6
  <1> QED
    BY <1>1, <1>2

\* The three artifacts agree, and so there is something to translate.
LEMMA DependenciesAgree ==
    ASSUME IdentityInputAgrees, SyntaxWell, IdentityWell, SemanticWell
    PROVE  /\ SyntaxAgrees /\ ProofsAgree /\ SemanticsAgree
           /\ \A e \in Translated : e.resolution # "refused"
  <1>1. SyntaxAgrees
    BY DEF SyntaxAgrees, IdentityInputAgrees
  <1>2. ProofsAgree
    BY DEF ProofsAgree, IdentityWell, ProofTrue, Citable
  <1>3. SemanticsAgree
    <2> USE DEF SemanticWell
    <2>1. DOMAIN Semantic.files \subseteq DOMAIN artifacts["golang"]
      BY DEF FilesWell
    <2>2. \A p \in DOMAIN Semantic.files : Verified(p) => p \in Parsed /\ Semantic.files[p].digest = Source(p)
      BY DEF FilesWell
    <2>3. \A b \in Semantic.bindings : b.file \in Parsed /\ \E i \in Source(b.file).imports : i.path = b.path /\ i.alias = b.alias
      BY <2>2 DEF BindingsWell
    <2>4. \A r \in Semantic.references : r.file \in Parsed /\ \A d \in r.target : d[1] \in Parsed
      BY <2>2 DEF ReferencesWell
    <2> QED
      BY <2>1, <2>2, <2>3, <2>4 DEF SemanticsAgree
  <1>4. ASSUME NEW e \in Translated PROVE e.resolution # "refused"
    <2>1. CASE e \in ReferenceEdges
      BY <2>1 DEF ReferenceEdges
    <2>2. CASE e \notin ReferenceEdges
      <3>1. PICK p \in Parsed : \E i \in Source(p).imports : e \in ImportEdges(p, i)
        BY <2>2 DEF Translated
      <3>2. PICK i \in Source(p).imports : e \in ImportEdges(p, i)
        BY <3>1
      <3>3. PICK r : r = ResolveContext(p, i)
        OBVIOUS
      <3>4. r.resolution # "refused"
        BY <3>3, ContextsResolved
      <3>5. e.resolution \in {r.resolution, "local"}
        BY <3>2, <3>3 DEF ImportEdges
      <3> QED
        BY <3>4, <3>5
    <2> QED
      BY <2>1, <2>2
  <1> QED
    BY <1>1, <1>2, <1>3, <1>4

\* The dependency engine refuses nothing, and adds its artifact alone.
LEMMA AnalyzeDependenciesInv ==
    ASSUME AnalysisInv, AnalyzeDependencies
    PROVE  AnalysisInv'
  <1>1. Len(engines) >= 10
    BY DEF AnalyzeDependencies, AnalysisInv, SemanticInv
  <1>2. Len(engines) >= 9 /\ Len(engines) >= 8
    <2>1. Len(engines) \in Nat
      BY LenProperties DEF AnalysisInv, EnginesWell
    <2> QED
      BY <1>1, <2>1
  <1>3. IdentityInputAgrees /\ SyntaxWell /\ IdentityWell /\ SemanticWell
    BY <1>1, <1>2 DEF AnalysisInv, SyntaxInv, IdentityInv, SemanticInv
  <1>4. /\ SyntaxAgrees /\ ProofsAgree /\ SemanticsAgree /\ \A e \in Translated : e.resolution # "refused"
    BY <1>3, DependenciesAgree
  <1>5. /\ artifacts' = [artifacts EXCEPT !["go-dependency"] = [edges |-> Translated, contained |-> Contained]]
        /\ UNCHANGED <<outcome, tree, engines>>
    BY <1>4 DEF AnalyzeDependencies
  <1>6. /\ DOMAIN artifacts' = DOMAIN artifacts
        /\ \A name \in Contracted : artifacts'[name] = artifacts[name]
        /\ artifacts'["go-dependency"].edges = Translated
    BY <1>5 DEF AnalysisInv, EnginesWell, Contracted
  <1>7. Translated' = Translated
    BY <1>6, SemanticStays DEF Contracted
  <1>8. DependencyInv'
    BY <1>1, <1>5, <1>6, <1>7 DEF DependencyInv
  <1>9. DirectoryWell(tree)' /\ outcome' # "mismatch"
    BY <1>5 DEF AnalysisInv, DirectoryWell, EnginesWell
  <1> QED
    BY <1>5, <1>6, <1>8, <1>9, KeptInv

\* An editor leaves files that are what their names say.
LEMMA EditWell ==
    ASSUME DirectoryWell(tree), Edit
    PROVE  DirectoryWell(tree)'
  <1>1. PICK e \in Edits :
          /\ e[2] = NoFile => tree' = [p \in {q \in DOMAIN tree : ~IsPrefix(e[1], q)} |-> tree[p]]
          /\ e[2] # NoFile => tree' = [p \in DOMAIN tree \cup {e[1]} |-> IF p = e[1] THEN e[2] ELSE tree[p]]
    BY DEF Edit
  <1>2. CASE e[2] = NoFile
    <2>1. DOMAIN tree' \subseteq DOMAIN tree /\ \A p \in DOMAIN tree' : tree'[p] = tree[p]
      BY <1>1, <1>2
    <2> QED
      BY <2>1, FS_Subset DEF DirectoryWell
  <1>3. CASE e[2] # NoFile
    <2>1. DOMAIN tree' = DOMAIN tree \cup {e[1]}
      BY <1>1, <1>3
    <2>2. IsFiniteSet(DOMAIN tree')
      BY <2>1, FS_AddElement DEF DirectoryWell
    <2>3. WellFormed(e[1], e[2])
      BY <1>3, DirectoryAssumption
    <2>4. \A p \in DOMAIN tree' : WellFormed(p, tree'[p])
      BY <1>1, <1>3, <2>1, <2>3 DEF DirectoryWell
    <2> QED
      BY <2>2, <2>4 DEF DirectoryWell
  <1> QED
    BY <1>2, <1>3

\* Before the first engine nothing is in the store.
LEMMA AnalysisInitInv == SessionInit => AnalysisInv
  <1> SUFFICES ASSUME SessionInit PROVE AnalysisInv
    OBVIOUS
  <1>1. /\ tree \in Trees /\ engines = <<>> /\ outcome = "running"
        /\ artifacts = [n \in Range(GoOrder) \cup {"go-dependency"} |-> NoResult]
    BY DEF SessionInit, RIEInit
  <1>2. DirectoryWell(tree)
    BY <1>1, DirectoryAssumption DEF DirectoryWell
  <1>3. Contracted \subseteq Range(GoOrder)
    <2>1. DOMAIN GoOrder = 1..10
      BY Profiles
    <2> QED
      BY <2>1, Positions DEF Contracted, Range
  <1>4. EnginesWell
    BY <1>1, <1>3 DEF EnginesWell
  <1>5. Len(engines) = 0
    BY <1>1
  <1>6. Identity = NoResult /\ Semantic = NoResult /\ artifacts["go-dependency"] = NoResult
    BY <1>1, <1>3 DEF Identity, Semantic, Contracted
  <1> QED
    BY <1>2, <1>4, <1>5, <1>6
       DEF AnalysisInv, LanguageInv, SyntaxInv, IdentityInv, SemanticInv, DependencyInv

\* Every step of a session, an engine's, an editor's or its caller's, keeps it.
LEMMA AnalysisNextInv == AnalysisInv /\ [SessionNext]_vars => AnalysisInv'
  <1> SUFFICES ASSUME AnalysisInv, [SessionNext]_vars
               PROVE  AnalysisInv'
    OBVIOUS
  <1>1. ASSUME UNCHANGED <<engines, artifacts>>, outcome' # "mismatch", DirectoryWell(tree)'
        PROVE  AnalysisInv'
    <2>1. DependencyInv'
      <3>1. Translated' = Translated
        BY <1>1, SemanticStays
      <3> QED
        BY <1>1, <3>1 DEF AnalysisInv, DependencyInv
    <2> QED
      BY <1>1, <2>1, KeptInv
  <1>2. ASSUME UNCHANGED <<tree, engines, artifacts>>, outcome' # "mismatch"
        PROVE  AnalysisInv'
    BY <1>1, <1>2 DEF AnalysisInv, DirectoryWell
  <1>3. outcome # "mismatch"
    BY DEF AnalysisInv, EnginesWell
  <1>4. CASE RunEngine
    <2>1. CASE DetectLanguages
      BY <2>1, DetectLanguagesInv
    <2>2. CASE ParseGo
      BY <2>2, ParseGoInv
    <2>3. CASE ProveIdentities
      BY <2>3, ProveIdentitiesInv
    <2>4. CASE ResolveSemantics
      BY <2>4, ResolveSemanticsInv
    <2>5. CASE PipelineFails \/ GoFails
      BY <1>2, <2>5 DEF PipelineFails, GoFails
    <2>6. CASE Discover \/ Ignore \/ DetectFrameworks \/ DetectBuild \/ Synthesize \/ Summarize
      <3>1. \E name \in {"discovery", "ignore", "framework", "build-package", "repository-metadata",
                         "repository-intelligence-summary"} :
              NextEngine(name) /\ \E artifact : Executed(name, artifact)
        BY <2>6, Zenon DEF Discover, Ignore, DetectFrameworks, DetectBuild, Synthesize, Summarize
      <3> QED
        BY <3>1, OtherEngines
    <2> QED
      BY <1>4, <2>1, <2>2, <2>3, <2>4, <2>5, <2>6 DEF RunEngine
  <1>5. CASE Prepare \/ BeginAnalysis \/ EnginesFailed \/ Conclude \/ Close \/ \E name \in Range(GoOrder) : Materialize(name)
    BY <1>2, <1>3, <1>5 DEF Prepare, BeginAnalysis, EnginesFailed, Conclude, Close, Materialize, rieVars
  <1>6. CASE Edit
    BY <1>1, <1>3, <1>6, EditWell DEF Edit, AnalysisInv
  <1>7. CASE EndContext
    BY <1>2, <1>3, <1>7 DEF EndContext
  <1>8. CASE AnalyzeDependencies
    BY <1>8, AnalyzeDependenciesInv
  <1>9. CASE UNCHANGED vars
    BY <1>2, <1>3, <1>9 DEF vars, rieVars
  <1> QED
    BY <1>4, <1>5, <1>6, <1>7, <1>8, <1>9 DEF SessionNext

\* At every moment of an analysis, whatever is edited while it runs, what each
\* engine has left behind follows from what the engines before it left, and from
\* what it read.
THEOREM AlwaysAnalysisInv == SessionSpec => []AnalysisInv
  BY AnalysisInitInv, AnalysisNextInv, PTL DEF SessionSpec

\* Whatever is edited while they run, no engine refuses what the engines before
\* it produced, and types and references are resolved alike.
THEOREM EnginesAlwaysAgree == SessionSpec => []EnginesAgree
  <1>1. AnalysisInv => EnginesAgree
    <2> SUFFICES ASSUME AnalysisInv PROVE EnginesAgree
      OBVIOUS
    <2>1. outcome # "mismatch"
      BY DEF AnalysisInv, EnginesWell
    <2>2. Semantic # NoResult => RelationsWell
      BY DEF AnalysisInv, SemanticInv, SemanticWell
    <2> QED
      BY <2>1, <2>2 DEF EnginesAgree, RelationsWell
  <1> QED
    BY <1>1, AlwaysAnalysisInv, PTL

\* A proof of what an import path names is one Go would accept, of the manifests
\* that were read, and inside one module every package that has the path counts.
THEOREM ProofsAlwaysExact == SessionSpec => []ProofsExact
  <1>1. AnalysisInv => ProofsExact
    <2> SUFFICES ASSUME AnalysisInv, Identity # NoResult, NEW f \in Identity.proofs
                 PROVE  /\ f.status = "resolved" => Justified(Identity.read, f.package, f.path, f.target)
                        /\ f.context = "single" =>
                             LET named == {pkg \in Packages :
                                             /\ Importable(pkg) /\ NearestModule(Identity.read, pkg[1]) = f.root
                                             /\ CanonicalPath(Identity.read, pkg) = f.path}
                             IN /\ Cardinality(named) = 1 => f.status = "resolved" /\ f.target \in named
                                /\ Cardinality(named) > 1 => f.status = "ambiguous"
      BY DEF ProofsExact
    <2>1. ProofTrue(Identity.read, f)
      BY DEF AnalysisInv, IdentityInv, IdentityWell
    <2> QED
      BY <2>1 DEF ProofTrue, Named
  <1> QED
    BY <1>1, AlwaysAnalysisInv, PTL

\* The manifests of now that the proofs could still rely on.
ReadNow(dir) ==
    [m \in {q \in DOMAIN Identity.read \cap DOMAIN dir :
              /\ dir[q].kind = Identity.read[q].kind
              /\ BaseName(q) = "go.mod" => Identity.read[q].module # <<>>} |-> dir[m]]

\* They are some of those that were read.
LEMMA FewerNow ==
    ASSUME WellRead(Identity.read), NEW dir, DirectoryWell(dir)
    PROVE  Fewer(Identity.read, ReadNow(dir))
  <1>1. PICK now : now = ReadNow(dir)
    OBVIOUS
  <1>2. \A m \in DOMAIN now : /\ m \in DOMAIN Identity.read /\ m \in DOMAIN dir /\ now[m] = dir[m]
                              /\ dir[m].kind = Identity.read[m].kind
                              /\ BaseName(m) = "go.mod" => Identity.read[m].module # <<>>
    BY <1>1 DEF ReadNow
  <1>3. WellRead(now)
    BY <1>2 DEF WellRead, DirectoryWell
  <1>4. Modules(now) \subseteq Modules(Identity.read)
    BY <1>2 DEF Modules
  <1> QED
    BY <1>1, <1>3, <1>4 DEF Fewer

\* What a single module's proof says is still so, if its manifests are as they were.
LEMMA ProofStillTrue ==
    ASSUME SyntaxWell, IdentityWell, NEW dir, DirectoryWell(dir), NEW f \in Identity.proofs,
           f.context = "single", f.status = "resolved", FreshIn(dir, f)
    PROVE  /\ Justified(ReadNow(dir), f.package, f.path, f.target)
           /\ NearestModule(ReadNow(dir), f.package[1]) = OwnerOf(f.package)
           /\ NearestModule(ReadNow(dir), f.target[1]) = OwnerOf(f.target)
  <1>1. PICK read, now : read = Identity.read /\ now = ReadNow(dir)
    OBVIOUS
  <1>2. Fewer(read, now)
    BY <1>1, FewerNow DEF IdentityWell
  <1>3. ProofTrue(read, f)
    BY <1>1 DEF IdentityWell
  <1>4. Lasting(read, f) /\ f.package \in Packages
    BY <1>3 DEF ProofTrue
  <1>5. ASSUME NEW e \in f.evidence PROVE e \in DOMAIN now /\ now[e] = read[e]
    <2>1. e \in DOMAIN read /\ (BaseName(e) = "go.mod" => read[e].module # <<>>)
      BY <1>3 DEF ProofTrue, Citable
    <2>2. e \in DOMAIN dir /\ dir[e] = read[e]
      BY <1>1 DEF FreshIn
    <2> QED
      BY <1>1, <2>1, <2>2 DEF ReadNow
  <1>6. /\ Justified(now, f.package, f.path, f.target)
        /\ NearestModule(read, f.package[1]) \in Modules(now)
        /\ NearestModule(now, f.target[1]) = NearestModule(read, f.target[1])
    BY <1>2, <1>4, <1>5 DEF Lasting
  <1>7. NearestModule(now, f.package[1]) = NearestModule(read, f.package[1])
    <2>1. PICK home \in Seq(PathNames) : home = f.package[1]
      BY <1>4, PackagesWell
    <2> QED
      BY <1>2, <1>6, <2>1, NearestAmongFewer DEF Fewer
  <1> QED
    BY <1>1, <1>6, <1>7 DEF OwnerOf

\* What a local edge says of the directory as the semantic engine saw it.
LEMMA EdgesAreTrue ==
    ASSUME SyntaxWell, IdentityWell, SemanticWell, NEW e \in Translated, e.resolution = "local",
           NEW dir, dir = Semantic.seen, NEW now, now = ReadNow(dir)
    PROVE  LET Go(p) == p \in DOMAIN dir /\ dir[p].kind = "go"
               Holds(pkg) == {p \in FilesOf(pkg) : Go(p) /\ dir[p].package = pkg[2]}
           IN /\ e.graph = "package" =>
                   /\ Holds(e.to) = FilesOf(e.to)
                   /\ \E p \in Holds(e.from) : \E i \in dir[p].imports : Justified(now, e.from, i.path, e.to)
              /\ e.graph = "module" =>
                   \E p, q \in Parsed : \E i \in (IF Go(p) THEN dir[p].imports ELSE {}) :
                     /\ NearestModule(now, Parent(p)) = e.from
                     /\ NearestModule(now, Parent(q)) = e.to
                     /\ Justified(now, PackageOf(p), i.path, PackageOf(q))
              /\ e.graph = "reference" =>
                   /\ Go(e.from) /\ Go(e.to)
                   /\ \E r \in dir[e.from].refs : r.name \in dir[e.to].declares
  <1> DEFINE Go(p) == p \in DOMAIN dir /\ dir[p].kind = "go"
             Holds(pkg) == {p \in FilesOf(pkg) : Go(p) /\ dir[p].package = pkg[2]}
  <1>1. ASSUME NEW p \in DOMAIN Semantic.files, Verified(p)
        PROVE  p \in Parsed /\ Go(p) /\ dir[p] = Source(p)
    BY <1>1 DEF SemanticWell, FilesWell, SyntaxWell
  <1>2. CASE e \in ReferenceEdges
    <2>1. PICK r \in Semantic.references : \E d \in r.target :
            /\ Verified(r.file) /\ Verified(d[1])
            /\ e = [graph |-> "reference", from |-> r.file, to |-> d[1], resolution |-> "local"]
      BY <1>2 DEF ReferenceEdges
    <2>2. PICK d \in r.target :
            e = [graph |-> "reference", from |-> r.file, to |-> d[1], resolution |-> "local"]
      BY <2>1
    <2>3. /\ r.file \in DOMAIN Semantic.files /\ Verified(r.file) /\ \E x \in Source(r.file).refs : x.name = r.name
          /\ d[1] \in DOMAIN Semantic.files /\ Verified(d[1]) /\ r.name \in Source(d[1]).declares
      BY DEF SemanticWell, ReferencesWell
    <2>4. Go(r.file) /\ dir[r.file] = Source(r.file) /\ Go(d[1]) /\ dir[d[1]] = Source(d[1])
      BY <1>1, <2>3
    <2> QED
      BY <2>2, <2>3, <2>4
  <1>3. CASE e \notin ReferenceEdges
    <2>1. PICK p \in Parsed : \E i \in Source(p).imports : e \in ImportEdges(p, i)
      BY <1>3 DEF Translated
    <2>2. PICK i \in Source(p).imports : e \in ImportEdges(p, i)
      BY <2>1
    <2>3. PICK r : r = ResolveContext(p, i)
      OBVIOUS
    <2>4. CASE r.resolution # "local"
      <3>1. e.graph \in {"package", "file"} /\ e.resolution = r.resolution
        BY <2>2, <2>3, <2>4 DEF ImportEdges
      <3> QED
        BY <2>4, <3>1
    <2>5. CASE r.resolution = "local"
      <3>1. /\ Verified(p) /\ r.target \in Packages
            /\ \A q \in FilesOf(r.target) : q \in DOMAIN Semantic.files => Verified(q)
        BY <2>3, <2>5, ContextsResolved
      <3>2. PICK f \in ProofsFor(PackageOf(p), i.path) :
              f.context = "single" /\ f.status = "resolved" /\ f.target = r.target /\ FreshIn(dir, f)
        BY <2>3, <2>5, ContextsResolved
      <3>3. f \in Identity.proofs /\ f.package = PackageOf(p) /\ f.path = i.path
        BY DEF ProofsFor
      <3>4. /\ Justified(now, PackageOf(p), i.path, r.target)
            /\ NearestModule(now, PackageOf(p)[1]) = OwnerOf(PackageOf(p))
            /\ NearestModule(now, r.target[1]) = OwnerOf(r.target)
        BY <3>2, <3>3, ProofStillTrue DEF SemanticWell, FilesWell
      <3>5. \A q \in Parsed : q \in DOMAIN Semantic.files
        BY DEF SemanticWell, FilesWell, Parsed
      <3>6. Go(p) /\ dir[p] = Source(p)
        BY <1>1, <3>1, <3>5
      <3>7. ASSUME NEW q \in FilesOf(r.target) PROVE Go(q) /\ dir[q].package = r.target[2] /\ q \in Parsed
        <4>1. q \in Parsed /\ Verified(q)
          BY <3>1, <3>5 DEF FilesOf
        <4>2. dir[q] = Source(q) /\ Go(q)
          BY <1>1, <3>5, <4>1
        <4> QED
          BY <3>1, <4>1, <4>2, PackagesWell
      <3>8. Holds(r.target) = FilesOf(r.target)
        BY <3>7
      <3>9. PackageOf(p) = <<Parent(p), Source(p).package>>
        BY DEF SyntaxWell
      <3>10. p \in Holds(PackageOf(p))
        BY <3>6, <3>9 DEF FilesOf
      <3>11. PICK q \in FilesOf(r.target) : q \in Parsed /\ PackageOf(q) = r.target /\ Parent(q) = r.target[1]
        BY <3>1, PackagesWell DEF FilesOf
      <3>12. \/ e = [graph |-> "package", from |-> PackageOf(p), to |-> r.target, resolution |-> "local"]
             \/ e = [graph |-> "file", from |-> p, to |-> r.target, resolution |-> "local"]
             \/ e = [graph |-> "module", from |-> OwnerOf(PackageOf(p)), to |-> OwnerOf(r.target),
                     resolution |-> "local"]
        BY <2>2, <2>3, <2>5 DEF ImportEdges
      <3>13. CASE e = [graph |-> "package", from |-> PackageOf(p), to |-> r.target, resolution |-> "local"]
        BY <3>4, <3>6, <3>8, <3>10, <3>13
      <3>14. CASE e = [graph |-> "file", from |-> p, to |-> r.target, resolution |-> "local"]
        BY <3>14
      <3>15. CASE e = [graph |-> "module", from |-> OwnerOf(PackageOf(p)), to |-> OwnerOf(r.target),
                       resolution |-> "local"]
        <4>1. NearestModule(now, Parent(p)) = e.from /\ NearestModule(now, Parent(q)) = e.to
          BY <3>4, <3>9, <3>11, <3>15
        <4>2. Justified(now, PackageOf(p), i.path, PackageOf(q))
          BY <3>4, <3>11
        <4>3. i \in (IF Go(p) THEN dir[p].imports ELSE {})
          BY <3>6
        <4> QED
          BY <3>11, <3>15, <4>1, <4>2, <4>3
      <3> QED
        BY <3>12, <3>13, <3>14, <3>15
    <2> QED
      BY <2>4, <2>5
  <1> QED
    BY <1>2, <1>3

\* A local edge of the dependency graph was true of the directory when the facts
\* it is derived from were, although its sources and manifests were read before,
\* one after the other, and edited in between.
THEOREM EdgesAlwaysTrue == SessionSpec => []EdgesTrue
  <1>1. AnalysisInv => EdgesTrue
    <2> SUFFICES ASSUME AnalysisInv, artifacts["go-dependency"] # NoResult PROVE EdgesTrue
      BY DEF EdgesTrue
    <2>1. Len(engines) >= 10 /\ artifacts["go-dependency"].edges = Translated
      BY DEF AnalysisInv, DependencyInv
    <2>2. Len(engines) >= 9 /\ Len(engines) >= 8
      <3>1. Len(engines) \in Nat
        BY LenProperties DEF AnalysisInv, EnginesWell
      <3> QED
        BY <2>1, <3>1
    <2>3. SyntaxWell /\ IdentityWell /\ SemanticWell
      BY <2>1, <2>2 DEF AnalysisInv, SyntaxInv, IdentityInv, SemanticInv
    <2>4. PICK dir, now : dir = Semantic.seen /\ now = ReadNow(dir)
      OBVIOUS
    <2> QED
      BY <2>1, <2>3, <2>4, EdgesAreTrue DEF EdgesTrue, ReadNow
  <1> QED
    BY <1>1, AlwaysAnalysisInv, PTL

-----------------------------------------------------------------------------
(* The snapshot *)

\* A pattern matches a path as git says: where it is, when it is anchored, by
\* the last name otherwise.
Admits(rule, path) ==
    IF rule.anchored THEN Segments(rule.pattern, path) ELSE rule.pattern[1] \in {"*", Last(path)}

\* What one rule excludes: the components of a path, judged one by one.
ExcludedAt(r, q, p) ==
    /\ IsStrictPrefix(r.base, q)
    /\ r.rule.directory => q # p
    /\ Admits(r.rule, SubSeq(q, Len(r.base) + 1, Len(q)))

ExcludedBy(r, p) == \E q \in Ancestors(p) \cup {p} : ExcludedAt(r, q, p)

LEMMA MatchesAdmits ==
    ASSUME NEW rule \in IgnoreRules, NEW path \in Seq(PathNames), path # <<>>
    PROVE  Matches(rule, path) <=> Admits(rule, path)
  <1>1. /\ rule.anchored \in BOOLEAN /\ rule.pattern \in Seq(PathNames \cup {"*"})
        /\ Len(rule.pattern) = 1 \/ rule.anchored
    BY DEF IgnoreRules
  <1>2. CASE rule.anchored
    BY <1>2 DEF Matches, Admits
  <1>3. CASE ~rule.anchored
    <2>1. PICK name : name = Last(path)
      OBVIOUS
    <2>2. PICK target : target = <<name>>
      OBVIOUS
    <2>3. Len(target) = 1 /\ target[1] = name /\ target # <<>>
      BY <2>2
    <2>4. Len(rule.pattern) = 1
      BY <1>1, <1>3
    <2>5. Segments(rule.pattern, target) <=> rule.pattern[1] \in {"*", name}
      BY <2>3, <2>4 DEF Segments
    <2> QED
      BY <1>3, <2>1, <2>2, <2>5 DEF Matches, Admits
  <1> QED
    BY <1>1, <1>2, <1>3

\* The components of a path below a rule's folder are the rule's targets.
ComponentOf(base, p, t, k, m) ==
    /\ SubSeq(p, 1, m) # p
    /\ IsStrictPrefix(base, SubSeq(p, 1, m)) <=> k < m
    /\ k < m => /\ SubSeq(SubSeq(p, 1, m), k + 1, m) = SubSeq(t, 1, m - k)
                /\ Len(SubSeq(p, 1, m)) = m
                /\ SubSeq(t, 1, m - k) \in Seq(PathNames) /\ SubSeq(t, 1, m - k) # <<>>

ComponentsOf(base, p, t, k, n) ==
    /\ k < n /\ t \in Seq(PathNames) /\ Len(t) = n - k /\ t # <<>>
    /\ \A m \in 1..(n - 1) : ComponentOf(base, p, t, k, m)

LEMMA PathsBelow ==
    ASSUME NEW base \in Seq(PathNames), NEW p \in Seq(PathNames), IsPrefix(base, p), base # p,
           NEW k \in Nat, NEW n \in Nat, k = Len(base), n = Len(p), NEW t, t = SubSeq(p, k + 1, n)
    PROVE  ComponentsOf(base, p, t, k, n)
  <1>1. k <= n /\ \A i \in 1..k : base[i] = p[i]
    BY PrefixNames
  <1>2. k < n
    <2> SUFFICES ASSUME k = n PROVE FALSE
      BY <1>1
    <2> QED
      BY <1>1, SeqEqual
  <1>3. t \in Seq(PathNames) /\ Len(t) = n - k /\ \A i \in 1..(n - k) : t[i] = p[k + i]
    BY <1>2
  <1>4. t # <<>>
    <2>1. n - k # 0
      BY <1>2
    <2> QED
      BY <1>3, <2>1, EmptySeq
  <1>5. ASSUME NEW m \in 1..(n - 1)
        PROVE  ComponentOf(base, p, t, k, m)
    <2>1. PICK q : q = SubSeq(p, 1, m)
      OBVIOUS
    <2>2. q \in Seq(PathNames) /\ Len(q) = m /\ \A i \in 1..m : q[i] = p[i]
      BY <2>1
    <2>3. q # p
      BY <2>2
    <2>4. IsStrictPrefix(base, q) <=> k < m
      <3>1. ASSUME k < m PROVE IsPrefix(base, q) /\ base # q
        <4>1. \A i \in 1..k : base[i] = q[i]
          BY <1>1, <2>2, <3>1
        <4>2. IsPrefix(base, q)
          <5>1. Len(base) <= Len(q) /\ \A i \in 1..Len(base) : base[i] = q[i]
            BY <2>2, <3>1, <4>1
          <5> QED
            BY <2>2, <5>1, PrefixNames
        <4>3. base # q
          BY <2>2, <3>1
        <4> QED
          BY <4>2, <4>3
      <3>2. ASSUME IsPrefix(base, q), base # q PROVE k < m
        <4>1. k <= m /\ \A i \in 1..k : base[i] = q[i]
          <5>1. q \in Seq(PathNames)
            BY <2>2
          <5>2. Len(base) <= Len(q) /\ \A i \in 1..Len(base) : base[i] = q[i]
            BY <3>2, <5>1, PrefixNames
          <5> QED
            BY <2>2, <5>2
        <4>2. k # m
          BY <2>2, <3>2, <4>1, SeqEqual
        <4> QED
          BY <4>1, <4>2
      <3> QED
        BY <3>1, <3>2 DEF IsStrictPrefix
    <2>5. ASSUME k < m
          PROVE  /\ SubSeq(q, k + 1, m) = SubSeq(t, 1, m - k)
                 /\ SubSeq(t, 1, m - k) \in Seq(PathNames) /\ SubSeq(t, 1, m - k) # <<>>
      <3>1. PICK rest, first : rest = SubSeq(q, k + 1, m) /\ first = SubSeq(t, 1, m - k)
        OBVIOUS
      <3>2. rest \in Seq(PathNames) /\ Len(rest) = m - k /\ \A i \in 1..(m - k) : rest[i] = q[k + i]
        BY <2>2, <2>5, <3>1
      <3>3. first \in Seq(PathNames) /\ Len(first) = m - k /\ \A i \in 1..(m - k) : first[i] = t[i]
        <4>1. PICK d \in Nat : d = m - k /\ d <= n - k
          <5>1. m \in Nat /\ m <= n - 1 /\ k < m
            BY <2>5
          <5>2. m - k \in Nat /\ m - k <= n - k
            BY <5>1
          <5> QED
            BY <5>2
        <4>2. d \in 0..Len(t)
          BY <1>3, <4>1
        <4>3. first = SubSeq(t, 1, d)
          BY <3>1, <4>1
        <4>4. first \in Seq(PathNames) /\ Len(first) = d /\ \A i \in 1..d : first[i] = t[i]
          BY <1>3, <4>2, <4>3
        <4> QED
          BY <4>1, <4>4
      <3>4. ASSUME NEW i \in 1..(m - k) PROVE rest[i] = first[i]
        <4>1. PICK j \in 1..m : j = k + i
          BY <2>5
        <4>2. i \in 1..(n - k)
          BY <2>5
        <4> QED
          BY <1>3, <2>2, <3>2, <3>3, <4>1, <4>2
      <3>5. rest = first
        BY <2>5, <3>2, <3>3, <3>4, SeqEqual
      <3>6. first # <<>>
        <4>1. m - k # 0
          BY <2>5
        <4> QED
          BY <3>3, <4>1, EmptySeq
      <3> QED
        BY <3>1, <3>3, <3>5, <3>6
    <2> QED
      BY <2>1, <2>2, <2>3, <2>4, <2>5 DEF ComponentOf
  <1> QED
    BY <1>2, <1>3, <1>4, <1>5 DEF ComponentsOf

\* The code matches the parents of a target by hand; that is what git does with
\* the components of the path.
LEMMA RuleExcludes ==
    ASSUME NEW r, r.base \in Seq(PathNames), r.rule \in IgnoreRules,
           NEW p \in Seq(PathNames), IsPrefix(r.base, p), r.base # p
    PROVE  RuleMatches(r.rule, SubSeq(p, Len(r.base) + 1, Len(p)), FALSE) <=> ExcludedBy(r, p)
  <1>1. PICK k \in Nat, n \in Nat : k = Len(r.base) /\ n = Len(p)
    BY LenProperties
  <1>2. PICK t : t = SubSeq(p, k + 1, n)
    OBVIOUS
  <1>3. PICK rule \in IgnoreRules : rule = r.rule
    OBVIOUS
  <1>4. /\ k < n /\ t \in Seq(PathNames) /\ Len(t) = n - k /\ t # <<>>
        /\ \A m \in 1..(n - 1) : ComponentOf(r.base, p, t, k, m)
    <2>1. PICK base \in Seq(PathNames) : base = r.base /\ IsPrefix(base, p) /\ base # p /\ k = Len(base)
      BY <1>1
    <2>2. ComponentsOf(base, p, t, k, n)
      BY <1>1, <1>2, <2>1, PathsBelow, Zenon
    <2> QED
      BY <2>1, <2>2 DEF ComponentsOf
  <1>5. ExcludedAt(r, p, p) <=> ~rule.directory /\ Admits(rule, t)
    BY <1>1, <1>2, <1>3 DEF ExcludedAt, IsStrictPrefix
  <1>6. ASSUME NEW m \in 1..(n - 1)
        PROVE  ExcludedAt(r, SubSeq(p, 1, m), p) <=> k < m /\ Matches(rule, SubSeq(t, 1, m - k))
    <2>1. PICK q : q = SubSeq(p, 1, m)
      OBVIOUS
    <2>2. CASE k < m
      <3>1. PICK parent \in Seq(PathNames) : parent = SubSeq(t, 1, m - k) /\ parent # <<>>
        BY <1>4, <2>2 DEF ComponentOf
      <3>2. /\ q # p /\ IsStrictPrefix(r.base, q)
            /\ SubSeq(q, Len(r.base) + 1, Len(q)) = parent
        BY <1>1, <1>4, <2>1, <2>2, <3>1 DEF ComponentOf
      <3>3. ExcludedAt(r, q, p) <=> Admits(rule, parent)
        BY <1>3, <3>2 DEF ExcludedAt
      <3>4. Matches(rule, parent) <=> Admits(rule, parent)
        BY <3>1, MatchesAdmits
      <3> QED
        BY <2>1, <2>2, <3>1, <3>3, <3>4
    <2>3. CASE ~(k < m)
      BY <1>4, <2>3 DEF ExcludedAt, ComponentOf
    <2> QED
      BY <2>2, <2>3
  <1>7. Matches(rule, t) <=> Admits(rule, t)
    BY <1>4, MatchesAdmits
  <1>8. ASSUME RuleMatches(rule, t, FALSE) PROVE ExcludedBy(r, p)
    <2>1. CASE Matches(rule, t) /\ (rule.directory => FALSE)
      BY <1>5, <1>7, <2>1 DEF ExcludedBy
    <2>2. CASE \E parent \in Ancestors(t) : Matches(rule, parent)
      <3>1. PICK j \in 1..(n - k - 1) : Matches(rule, SubSeq(t, 1, j))
        BY <1>4, <2>2 DEF Ancestors
      <3>2. PICK m \in 1..(n - 1) : m = j + k
        BY <1>4
      <3>3. k < m /\ m - k = j
        BY <3>2
      <3>4. ExcludedAt(r, SubSeq(p, 1, m), p)
        BY <1>6, <3>1, <3>3
      <3>5. SubSeq(p, 1, m) \in Ancestors(p)
        BY <1>1 DEF Ancestors
      <3> QED
        BY <3>4, <3>5 DEF ExcludedBy
    <2> QED
      BY <1>8, <2>1, <2>2 DEF RuleMatches
  <1>9. ASSUME ExcludedBy(r, p) PROVE RuleMatches(rule, t, FALSE)
    <2>1. PICK q \in Ancestors(p) \cup {p} : ExcludedAt(r, q, p)
      BY <1>9 DEF ExcludedBy
    <2>2. CASE q = p
      BY <1>5, <1>7, <2>1, <2>2 DEF RuleMatches
    <2>3. CASE q \in Ancestors(p)
      <3>1. PICK m \in 1..(n - 1) : q = SubSeq(p, 1, m)
        BY <1>1, <2>3 DEF Ancestors
      <3>2. k < m /\ Matches(rule, SubSeq(t, 1, m - k))
        BY <1>6, <2>1, <3>1
      <3>3. m - k \in 1..(Len(t) - 1)
        BY <1>4, <3>2
      <3>4. SubSeq(t, 1, m - k) \in Ancestors(t)
        BY <3>3 DEF Ancestors
      <3> QED
        BY <3>2, <3>4 DEF RuleMatches
    <2> QED
      BY <2>1, <2>2, <2>3
  <1> QED
    BY <1>1, <1>2, <1>3, <1>8, <1>9

\* A rule that is loaded is a line of the ignore file in its folder.
LEMMA LoadedRules ==
    ASSUME DirectoryWell(tree), NEW walked, NEW r \in LoadRules(walked)
    PROVE  /\ r.base \in Seq(PathNames) /\ r.rule \in IgnoreRules /\ r.line \in Nat
           /\ Append(r.base, ".gitignore") \in walked /\ ".gitignore" \in PathNames
           /\ tree[Append(r.base, ".gitignore")].rules \in Seq(IgnoreRules)
           /\ r.line <= Len(tree[Append(r.base, ".gitignore")].rules)
  <1>1. PICK file \in IgnoreFiles(walked) :
          r \in {[base |-> Parent(file), line |-> i, rule |-> tree[file].rules[i]] :
                   i \in DOMAIN tree[file].rules}
    BY DEF LoadRules
  <1>2. PICK i \in DOMAIN tree[file].rules :
          r = [base |-> Parent(file), line |-> i, rule |-> tree[file].rules[i]]
    BY <1>1
  <1>3. /\ file \in walked /\ BaseName(file) = ".gitignore" /\ file \in DOMAIN tree
        /\ tree[file].kind \notin {"dir", "locked"}
    BY DEF IgnoreFiles, Readable
  <1>4. file \in Seq(PathNames) /\ file # <<>> /\ tree[file].rules \in Seq(IgnoreRules)
    BY <1>3 DEF DirectoryWell, WellFormed
  <1>5. Parent(file) \in Seq(PathNames) /\ ".gitignore" \in PathNames /\ file = Append(Parent(file), ".gitignore")
    BY <1>3, <1>4, PathParts
  <1>6. i \in Nat /\ i <= Len(tree[file].rules) /\ tree[file].rules[i] \in IgnoreRules
    BY <1>4
  <1> QED
    BY <1>2, <1>3, <1>4, <1>5, <1>6

\* Of the rules that apply to a path one is the last: those of its deepest
\* folder that has any are the lines of one file.
LEMMA LastApplies ==
    ASSUME DirectoryWell(tree), NEW walked, NEW hits \in SUBSET LoadRules(walked), hits # {},
           NEW p \in Seq(PathNames), \A r \in hits : IsPrefix(r.base, p)
    PROVE  \E r \in hits : \A s \in hits : ~Before(r, s)
  <1>1. PICK bases : bases = {r.base : r \in hits}
    OBVIOUS
  <1>2. bases # {} /\ \A b \in bases : b \in Seq(PathNames) /\ IsPrefix(b, p)
    BY <1>1, LoadedRules
  <1>3. PICK deepest \in bases : \A b \in bases : Len(b) <= Len(deepest)
    BY <1>2, LongestPrefix
  <1>4. PICK lines : lines = {r.line : r \in {s \in hits : s.base = deepest}}
    OBVIOUS
  <1>5. PICK top : top = Len(tree[Append(deepest, ".gitignore")].rules)
    OBVIOUS
  <1>6. PICK q \in hits : q.base = deepest
    BY <1>1
  <1>7. top \in Nat
    BY <1>5, <1>6, LoadedRules, LenProperties
  <1>8. \A r \in hits : r.base = deepest => r.line \in Nat /\ r.line <= top
    BY <1>5, LoadedRules
  <1>9. lines \in SUBSET Nat /\ lines # {} /\ \A n \in lines : n <= top
    BY <1>4, <1>6, <1>8
  <1>10. PICK last \in lines : \A n \in lines : n <= last
    BY <1>7, <1>9, GreatestBelow
  <1>11. PICK r \in hits : r.base = deepest /\ r.line = last
    BY <1>4
  <1>12. ASSUME NEW s \in hits PROVE ~Before(r, s)
    <2>1. s.base \in bases /\ s.base \in Seq(PathNames) /\ deepest \in Seq(PathNames)
      BY <1>1, <1>2
    <2>2. Len(s.base) \in Nat /\ Len(deepest) \in Nat /\ Len(s.base) <= Len(deepest)
      BY <1>3, <2>1, LenProperties
    <2>3. ASSUME Len(s.base) = Len(deepest) PROVE s.line \in Nat /\ s.line <= r.line
      <3>1. s.base = deepest
        BY <1>2, <2>1, <2>3, PrefixesOfOneLength
      <3> QED
        BY <1>4, <1>8, <1>10, <1>11, <3>1
    <2>4. r.line \in Nat
      BY <1>9, <1>11
    <2> QED
      BY <1>11, <2>2, <2>3, <2>4 DEF Before
  <1> QED
    BY <1>12

\* With plain rules, the last one that applies is like any other: what they
\* ignore is what one of them excludes.
LEMMA PlainRulesExclude ==
    ASSUME DirectoryWell(tree), NEW walked, NEW rules, rules = LoadRules(walked),
           \A r \in rules : ~r.rule.negated, NEW p \in Seq(PathNames), \A r \in rules : r.base # p
    PROVE  Ignored(rules, p, FALSE) <=> Excluded(rules, p)
  <1>1. PICK hits :
          hits = {r \in rules :
                    /\ IsPrefix(r.base, p)
                    /\ RuleMatches(r.rule, SubSeq(p, Len(r.base) + 1, Len(p)), FALSE)}
    OBVIOUS
  <1>2. hits \in SUBSET LoadRules(walked) /\ \A r \in hits : IsPrefix(r.base, p)
    BY <1>1
  <1>3. hits # {} => (CHOOSE r \in hits : \A s \in hits : ~Before(r, s)) \in hits
    <2> SUFFICES ASSUME hits # {}
                 PROVE  (CHOOSE r \in hits : \A s \in hits : ~Before(r, s)) \in hits
      OBVIOUS
    <2>1. \E r \in hits : \A s \in hits : ~Before(r, s)
      BY <1>2, LastApplies
    <2> QED
      BY <2>1, Zenon
  <1>4. Ignored(rules, p, FALSE) <=> hits # {}
    BY <1>1, <1>2, <1>3 DEF Ignored
  <1>5. ASSUME NEW r \in rules PROVE r \in hits <=> ExcludedBy(r, p)
    <2>1. r.base \in Seq(PathNames) /\ r.rule \in IgnoreRules /\ r.base # p
      BY LoadedRules
    <2>2. CASE IsPrefix(r.base, p)
      <3>1. RuleMatches(r.rule, SubSeq(p, Len(r.base) + 1, Len(p)), FALSE) <=> ExcludedBy(r, p)
        BY <2>1, <2>2, RuleExcludes
      <3> QED
        BY <1>1, <2>2, <3>1
    <2>3. CASE ~IsPrefix(r.base, p)
      <3>1. ASSUME ExcludedBy(r, p) PROVE FALSE
        <4>1. PICK q \in Ancestors(p) \cup {p} : IsPrefix(r.base, q)
          BY <3>1 DEF ExcludedBy, ExcludedAt, IsStrictPrefix
        <4>2. PICK n \in 1..(Len(p) - 1) : q = SubSeq(p, 1, n)
          BY <2>3, <4>1 DEF Ancestors
        <4>3. q \in Seq(PathNames) /\ IsStrictPrefix(q, p)
          BY <4>2, AncestorBelow
        <4> QED
          BY <2>1, <2>3, <4>1, <4>3, PrefixOfPrefix
      <3> QED
        BY <1>1, <2>3, <3>1
    <2> QED
      BY <2>2, <2>3
  <1>6. Excluded(rules, p) <=> \E r \in rules : ExcludedBy(r, p)
    BY DEF Excluded, ExcludedBy, ExcludedAt, Admits
  <1> QED
    BY <1>1, <1>4, <1>5, <1>6

\* What discovery recorded was a tree: what holds an entry is a folder it
\* recorded, too.
EntriesWell ==
    \A p \in artifacts["discovery"].entries :
      p \in Seq(PathNames) /\ p # <<>> /\ Ancestors(p) \subseteq artifacts["discovery"].folders

DiscoveryInv == TreeShaped(tree) /\ (engines # <<>> => EntriesWell)

\* An editor leaves a tree.
LEMMA EditShaped ==
    ASSUME DirectoryWell(tree), TreeShaped(tree), Edit
    PROVE  TreeShaped(tree')
  <1>1. PICK e \in Edits :
          /\ e[2] = NoFile => tree' = [p \in {q \in DOMAIN tree : ~IsPrefix(e[1], q)} |-> tree[p]]
          /\ e[2] = NoFile => e[1] \in DOMAIN tree
          /\ e[2] # NoFile =>
               /\ tree' = [p \in DOMAIN tree \cup {e[1]} |-> IF p = e[1] THEN e[2] ELSE tree[p]]
               /\ Parent(e[1]) = <<>> \/ (Parent(e[1]) \in DOMAIN tree /\ IsFolder(tree, Parent(e[1])))
               /\ e[2].kind \in {"dir", "locked"} \/ ~ \E p \in DOMAIN tree : IsStrictPrefix(e[1], p)
    BY DEF Edit
  <1>2. PICK file, content : file = e[1] /\ content = e[2]
    OBVIOUS
  <1>3. \A p \in DOMAIN tree : p \in Seq(PathNames) /\ p # <<>>
    BY DEF DirectoryWell, WellFormed
  <1>4. CASE content = NoFile
    <2>1. /\ DOMAIN tree' = {q \in DOMAIN tree : ~IsPrefix(file, q)}
          /\ \A p \in DOMAIN tree' : tree'[p] = tree[p]
          /\ file \in Seq(PathNames)
      BY <1>1, <1>2, <1>3, <1>4
    <2>2. ASSUME NEW p \in DOMAIN tree', NEW q \in Ancestors(p)
          PROVE  q \in DOMAIN tree' /\ tree'[q].kind \in {"dir", "locked"}
      <3>1. p \in DOMAIN tree /\ ~IsPrefix(file, p) /\ p \in Seq(PathNames)
        BY <1>3, <2>1
      <3>2. q \in DOMAIN tree /\ tree[q].kind \in {"dir", "locked"} /\ q \in Seq(PathNames)
        BY <1>3, <2>2, <3>1 DEF TreeShaped
      <3>3. PICK n \in 1..(Len(p) - 1) : q = SubSeq(p, 1, n)
        BY <2>2 DEF Ancestors
      <3>4. ~IsPrefix(file, q)
        <4>1. IsStrictPrefix(q, p)
          BY <3>1, <3>3, AncestorBelow
        <4> QED
          BY <2>1, <3>1, <3>2, <4>1, PrefixOfPrefix
      <3> QED
        BY <2>1, <3>2, <3>4
    <2> QED
      BY <2>2 DEF TreeShaped
  <1>5. CASE content # NoFile
    <2>1. /\ DOMAIN tree' = DOMAIN tree \cup {file} /\ tree'[file] = content
          /\ \A p \in DOMAIN tree : p # file => tree'[p] = tree[p]
      BY <1>1, <1>2, <1>5
    <2>2. file \in Seq(PathNames) /\ file # <<>>
      BY <1>2, <1>5, DirectoryAssumption DEF WellFormed
    <2>3. ASSUME NEW p \in DOMAIN tree, NEW q \in Ancestors(p)
          PROVE  q \in DOMAIN tree' /\ tree'[q].kind \in {"dir", "locked"}
      <3>1. q \in DOMAIN tree /\ tree[q].kind \in {"dir", "locked"}
        BY <2>3 DEF TreeShaped
      <3>2. CASE q = file
        <4>1. IsStrictPrefix(file, p)
          <5>1. PICK n \in 1..(Len(p) - 1) : q = SubSeq(p, 1, n)
            BY <2>3 DEF Ancestors
          <5> QED
            BY <1>3, <3>2, <5>1, AncestorBelow
        <4> QED
          BY <1>1, <1>2, <1>5, <2>1, <3>2, <4>1
      <3>3. CASE q # file
        BY <2>1, <3>1, <3>3
      <3> QED
        BY <3>2, <3>3
    <2>4. ASSUME NEW q \in Ancestors(file)
          PROVE  q \in DOMAIN tree /\ tree[q].kind \in {"dir", "locked"} /\ q # file
      <3>1. PICK n \in 1..(Len(file) - 1) : q = SubSeq(file, 1, n)
        BY <2>4 DEF Ancestors
      <3>2. PICK folder : folder = Parent(file) /\ folder = SubSeq(file, 1, Len(file) - 1)
        BY DEF Parent
      <3>3. PICK k \in Nat : k = Len(file) - 1 /\ n <= k
        BY <2>2, <3>1, LenProperties
      <3>4. folder \in Seq(PathNames) /\ Len(folder) = k /\ \A i \in 1..k : folder[i] = file[i]
        BY <2>2, <3>2, <3>3
      <3>5. folder # <<>>
        BY <3>1, <3>3, <3>4, EmptySeq
      <3>6. folder \in DOMAIN tree /\ tree[folder].kind = "dir"
        BY <1>1, <1>2, <1>5, <3>2, <3>5 DEF IsFolder
      <3>7. q \in Seq(PathNames) /\ Len(q) = n /\ \A i \in 1..n : q[i] = file[i]
        BY <2>2, <3>1
      <3>8. q # file
        BY <3>3, <3>7
      <3>9. CASE n = k
        <4>1. q = folder
          BY <3>2, <3>1, <3>3, <3>9
        <4> QED
          BY <3>6, <3>8, <4>1
      <3>10. CASE n < k
        <4>1. q = SubSeq(folder, 1, n)
          <5>1. PICK first : first = SubSeq(folder, 1, n)
            OBVIOUS
          <5>2. first \in Seq(PathNames) /\ Len(first) = n /\ \A i \in 1..n : first[i] = folder[i]
            BY <3>1, <3>4, <3>10, <5>1
          <5>3. \A i \in 1..n : first[i] = q[i]
            BY <3>3, <3>4, <3>7, <5>2
          <5> QED
            BY <3>7, <5>1, <5>2, <5>3, SeqEqual
        <4>2. n \in 1..(Len(folder) - 1)
          BY <3>1, <3>3, <3>4, <3>10
        <4>3. q \in Ancestors(folder)
          BY <4>1, <4>2 DEF Ancestors
        <4> QED
          BY <3>6, <3>8, <4>3 DEF TreeShaped
      <3> QED
        BY <3>3, <3>9, <3>10
    <2>5. ASSUME NEW p \in DOMAIN tree', NEW q \in Ancestors(p)
          PROVE  q \in DOMAIN tree' /\ tree'[q].kind \in {"dir", "locked"}
      <3>1. CASE p \in DOMAIN tree
        BY <2>3, <2>5, <3>1
      <3>2. CASE p = file
        BY <2>1, <2>4, <2>5, <3>2
      <3> QED
        BY <2>1, <3>1, <3>2
    <2> QED
      BY <2>5 DEF TreeShaped
  <1> QED
    BY <1>4, <1>5

\* What the walk records is a tree: it enters every folder but .git.
LEMMA DiscoverWell ==
    ASSUME AnalysisInv, TreeShaped(tree), Discover
    PROVE  EntriesWell'
  <1>1. PICK artifact :
          /\ artifact = [entries |-> Walked, folders |-> {p \in Walked : IsFolder(tree, p)},
                         git |-> \E p \in DOMAIN tree : BaseName(p) = ".git"]
          /\ Executed("discovery", artifact)
    BY DEF Discover
  <1>2. artifacts'["discovery"] = artifact
    <2>1. "discovery" \in DOMAIN artifacts
      BY DEF AnalysisInv, EnginesWell, Contracted
    <2> QED
      BY <1>1, <2>1 DEF Executed
  <1>3. artifact.entries = Walked /\ artifact.folders = {p \in Walked : IsFolder(tree, p)}
    BY <1>1
  <1>4. ASSUME NEW p \in Walked
        PROVE  p \in Seq(PathNames) /\ p # <<>> /\ \A q \in Ancestors(p) : q \in Walked /\ IsFolder(tree, q)
    <2>1. p \in DOMAIN tree /\ \A i \in DOMAIN p : p[i] # ".git"
      BY DEF Walked
    <2>2. p \in Seq(PathNames) /\ p # <<>>
      BY <2>1 DEF AnalysisInv, DirectoryWell, WellFormed
    <2>3. ASSUME NEW q \in Ancestors(p) PROVE q \in Walked /\ IsFolder(tree, q)
      <3>1. q \in DOMAIN tree /\ tree[q].kind \in {"dir", "locked"}
        BY <2>1 DEF TreeShaped
      <3>2. PICK n \in 1..(Len(p) - 1) : q = SubSeq(p, 1, n)
        BY DEF Ancestors
      <3>3. IsStrictPrefix(q, p)
        BY <2>2, <3>2, AncestorBelow
      <3>4. tree[q].kind # "locked"
        BY <2>1, <3>1, <3>3 DEF Discover
      <3>5. q \in Seq(PathNames) /\ Len(q) = n /\ \A i \in 1..n : q[i] = p[i]
        BY <2>2, <3>2
      <3>6. \A i \in DOMAIN q : q[i] # ".git"
        BY <2>1, <2>2, <3>5
      <3> QED
        BY <3>1, <3>4, <3>6 DEF Walked, IsFolder
    <2> QED
      BY <2>2, <2>3
  <1> QED
    BY <1>2, <1>3, <1>4 DEF EntriesWell

\* What a step does to the engines: one of them has its turn, or they stay.
LEMMA SessionSteps ==
    ASSUME AnalysisInv, [SessionNext]_vars
    PROVE  \/ Discover
           \/ Ignore
           \/ \E name, artifact : /\ name \notin {"discovery", "ignore"}
                                  /\ NextEngine(name) \/ NextGoEngine(name)
                                  /\ Executed(name, artifact)
           \/ Edit
           \/ UNCHANGED <<tree, engines>> /\ artifacts'["discovery"] = artifacts["discovery"]
  <1>1. CASE RunEngine
    <2>1. CASE DetectLanguages \/ DetectFrameworks \/ DetectBuild \/ Synthesize \/ Summarize
      <3>1. \E name \in {"language", "framework", "build-package", "repository-metadata",
                         "repository-intelligence-summary"} :
              NextEngine(name) /\ \E artifact : Executed(name, artifact)
        BY <2>1, Zenon DEF DetectLanguages, DetectFrameworks, DetectBuild, Synthesize, Summarize
      <3> QED
        BY <3>1
    <2>2. CASE ParseGo
      BY <2>2 DEF ParseGo
    <2>3. CASE ProveIdentities
      BY <2>3 DEF ProveIdentities
    <2>4. CASE ResolveSemantics
      BY <2>4 DEF ResolveSemantics
    <2>5. CASE PipelineFails \/ GoFails
      BY <2>5 DEF PipelineFails, GoFails
    <2> QED
      BY <1>1, <2>1, <2>2, <2>3, <2>4, <2>5 DEF RunEngine
  <1>2. CASE Prepare \/ BeginAnalysis \/ EnginesFailed \/ Conclude \/ Close \/ \E name \in Range(GoOrder) : Materialize(name)
    BY <1>2 DEF Prepare, BeginAnalysis, EnginesFailed, Conclude, Close, Materialize, rieVars
  <1>3. CASE EndContext
    BY <1>3 DEF EndContext
  <1>4. CASE AnalyzeDependencies
    <2>1. "discovery" \in DOMAIN artifacts
      BY DEF AnalysisInv, EnginesWell, Contracted
    <2> QED
      BY <1>4, <2>1 DEF AnalyzeDependencies
  <1>5. CASE UNCHANGED vars
    BY <1>5 DEF vars, rieVars
  <1> QED
    BY <1>1, <1>2, <1>3, <1>4, <1>5 DEF SessionNext

\* At every moment the directory is a tree, and so is what discovery recorded.
LEMMA DiscoveryNextInv ==
    AnalysisInv /\ DiscoveryInv /\ [SessionNext]_vars => DiscoveryInv'
  <1> SUFFICES ASSUME AnalysisInv, DiscoveryInv, [SessionNext]_vars
               PROVE  DiscoveryInv'
    OBVIOUS
  <1>1. CASE Discover
    <2>1. tree' = tree
      BY <1>1 DEF Discover, Executed
    <2> QED
      BY <1>1, <2>1, DiscoverWell DEF DiscoveryInv
  <1>2. ASSUME NEW name, NEW artifact, name # "discovery", NextEngine(name) \/ NextGoEngine(name),
               Executed(name, artifact)
        PROVE  DiscoveryInv'
    <2>1. engines # <<>>
      <3> SUFFICES ASSUME engines = <<>> PROVE FALSE
        OBVIOUS
      <3>1. engines \in Seq(Contracted)
        BY DEF AnalysisInv, EnginesWell
      <3>2. name = GoOrder[Len(engines) + 1]
        BY <1>2, <3>1, Turns
      <3>3. Len(engines) = 0
        OBVIOUS
      <3> QED
        BY <1>2, <3>2, <3>3, Positions
    <2>2. tree' = tree /\ artifacts'["discovery"] = artifacts["discovery"]
      <3>1. "discovery" \in DOMAIN artifacts
        BY DEF AnalysisInv, EnginesWell, Contracted
      <3> QED
        BY <1>2, <3>1 DEF Executed
    <2> QED
      BY <2>1, <2>2 DEF DiscoveryInv, EntriesWell
  <1>3. CASE Ignore
    <2>1. NextEngine("ignore") /\ \E artifact : Executed("ignore", artifact)
      BY <1>3, Zenon DEF Ignore
    <2> QED
      BY <1>2, <2>1
  <1>4. CASE Edit
    <2>1. TreeShaped(tree)'
      BY <1>4, EditShaped DEF AnalysisInv, DiscoveryInv
    <2> QED
      BY <1>4, <2>1 DEF Edit, DiscoveryInv, EntriesWell
  <1>5. CASE UNCHANGED <<tree, engines>> /\ artifacts'["discovery"] = artifacts["discovery"]
    BY <1>5 DEF DiscoveryInv, EntriesWell
  <1> QED
    BY <1>1, <1>2, <1>3, <1>4, <1>5, SessionSteps

\* Only the ignore engine appends its name.
LEMMA IgnoreStep ==
    ASSUME AnalysisInv, [SessionNext]_vars, engines' = Append(engines, "ignore")
    PROVE  Ignore
  <1>1. engines \in Seq(Contracted)
    BY DEF AnalysisInv, EnginesWell
  <1>2. PICK n \in Nat : n = Len(engines)
    BY <1>1, LenProperties
  <1>3. Len(engines') = n + 1 /\ engines'[n + 1] = "ignore"
    BY <1>1, <1>2
  <1>4. ASSUME NEW name, NEW artifact, Executed(name, artifact) PROVE name = "ignore"
    <2>1. engines' = Append(engines, name)
      BY <1>4 DEF Executed
    <2> QED
      BY <1>1, <1>2, <1>3, <2>1
  <1>5. ~Discover
    <2> SUFFICES ASSUME Discover PROVE FALSE
      OBVIOUS
    <2>1. \E artifact : Executed("discovery", artifact)
      BY Zenon DEF Discover
    <2> QED
      BY <1>4, <2>1
  <1>6. engines' # engines
    BY <1>2, <1>3
  <1>7. ~Edit
    BY <1>6 DEF Edit
  <1> QED
    BY <1>4, <1>5, <1>6, <1>7, SessionSteps

\* With plain rules the snapshot holds the files that no rule excludes.
LEMMA SnapshotExact ==
    ASSUME AnalysisInv, DiscoveryInv, Ignore,
           NEW walked, walked = artifacts["discovery"].entries \ artifacts["discovery"].folders,
           NEW rules, rules = LoadRules(walked), \A r \in rules : ~r.rule.negated
    PROVE  artifacts'["ignore"].entries \cap walked = {p \in walked : ~Excluded(rules, p)}
  <1>1. EntriesWell
    <2>1. engines # <<>>
      <3> SUFFICES ASSUME engines = <<>> PROVE FALSE
        OBVIOUS
      <3>1. engines \in Seq(Contracted)
        BY DEF AnalysisInv, EnginesWell
      <3>2. "ignore" = GoOrder[Len(engines) + 1]
        BY <3>1, Turns DEF Ignore
      <3>3. Len(engines) = 0
        OBVIOUS
      <3> QED
        BY <3>2, <3>3, Positions
    <2> QED
      BY <2>1 DEF DiscoveryInv
  <1>2. PICK found, kept, artifact :
          /\ found = artifacts["discovery"]
          /\ kept = {p \in found.entries : ~Ignored(rules, p, p \in found.folders)}
          /\ artifact = [entries |-> kept, files |-> Cardinality(kept \ found.folders),
                         isDir |-> found.folders \cap kept, plain |-> \A r \in rules : ~r.rule.negated]
          /\ Executed("ignore", artifact)
    BY DEF Ignore
  <1>3. artifacts'["ignore"].entries = kept
    <2>1. "ignore" \in DOMAIN artifacts
      BY DEF AnalysisInv, EnginesWell, Contracted
    <2>2. artifacts'["ignore"] = artifact
      BY <1>2, <2>1 DEF Executed
    <2> QED
      BY <1>2, <2>2
  <1>4. ASSUME NEW p \in walked, NEW r \in rules PROVE r.base # p
    <2> SUFFICES ASSUME r.base = p PROVE FALSE
      OBVIOUS
    <2>1. PICK file : file = Append(p, ".gitignore") /\ file \in walked /\ ".gitignore" \in PathNames
      BY LoadedRules DEF AnalysisInv
    <2>2. p \in Seq(PathNames) /\ p # <<>> /\ p \notin artifacts["discovery"].folders
      BY <1>1 DEF EntriesWell
    <2>3. file \in Seq(PathNames) /\ Len(file) = Len(p) + 1 /\ Parent(file) = p
      BY <2>1, <2>2, FolderAndName, AppendProperties
    <2>4. Len(p) \in Nat /\ Len(p) # 0
      BY <2>2, EmptySeq
    <2>5. p \in Ancestors(file)
      <3>1. PICK k \in Nat : k = Len(file) - 1 /\ k \in 1..(Len(file) - 1)
        BY <2>3, <2>4
      <3>2. p = SubSeq(file, 1, k)
        BY <2>3, <3>1 DEF Parent
      <3> QED
        BY <3>1, <3>2 DEF Ancestors
    <2>6. Ancestors(file) \subseteq artifacts["discovery"].folders
      BY <1>1, <2>1 DEF EntriesWell
    <2> QED
      BY <2>2, <2>5, <2>6
  <1>5. ASSUME NEW p \in walked PROVE p \in kept <=> ~Excluded(rules, p)
    <2>1. p \in found.entries /\ ~(p \in found.folders) /\ p \in Seq(PathNames)
      BY <1>1, <1>2 DEF EntriesWell
    <2>2. Ignored(rules, p, FALSE) <=> Excluded(rules, p)
      BY <1>4, <2>1, PlainRulesExclude DEF AnalysisInv
    <2>3. (p \in found.folders) = FALSE
      BY <2>1
    <2>4. p \in kept <=> ~Ignored(rules, p, p \in found.folders)
      BY <1>2, <2>1
    <2> QED
      BY <2>2, <2>3, <2>4
  <1> QED
    BY <1>3, <1>5

LEMMA DiscoveryInitInv == SessionInit => DiscoveryInv
  BY DirectoryAssumption DEF SessionInit, RIEInit, DiscoveryInv

\* With plain rules the snapshot holds exactly the files that no ignore file
\* above them excludes, whatever the directory, the rules and the edits.
THEOREM AlwaysIgnoreExact == SessionSpec => IgnoreExact
  <1>1. SessionSpec => []DiscoveryInv
    BY DiscoveryInitInv, DiscoveryNextInv, AlwaysAnalysisInv, PTL DEF SessionSpec
  <1>2. AnalysisInv /\ DiscoveryInv /\ [SessionNext]_vars =>
          [engines' = Append(engines, "ignore") =>
             LET found == artifacts["discovery"]
                 walked == found.entries \ found.folders
                 rules == LoadRules(walked)
             IN (\A r \in rules : ~r.rule.negated) =>
                  artifacts'["ignore"].entries \cap walked = {p \in walked : ~Excluded(rules, p)}]_vars
    <2> SUFFICES ASSUME AnalysisInv, DiscoveryInv, [SessionNext]_vars,
                        engines' = Append(engines, "ignore"),
                        NEW walked, walked = artifacts["discovery"].entries \ artifacts["discovery"].folders,
                        NEW rules, rules = LoadRules(walked), \A r \in rules : ~r.rule.negated
                 PROVE  artifacts'["ignore"].entries \cap walked = {p \in walked : ~Excluded(rules, p)}
      OBVIOUS
    <2>1. Ignore
      BY IgnoreStep
    <2> QED
      BY <2>1, SnapshotExact
  <1> QED
    BY <1>1, <1>2, AlwaysAnalysisInv, PTL DEF SessionSpec, IgnoreExact

-----------------------------------------------------------------------------
(* Interfaces: the invariant of a resolution, and that its answers are true *)

\* What is evaluated depends on what the package holds and on which of its files
\* were read, and not on what becomes of the directory.
LEMMA SatisfactionStays ==
    ASSUME package' = package, files' = files
    PROVE  /\ Read' = Read /\ Satisfaction' = Satisfaction
           /\ OtherErrors(Files)' = OtherErrors(Files) /\ Embeds(Files)' = Embeds(Files)
           /\ \A pointer : /\ Implements(Files, pointer)' = Implements(Files, pointer)
                           /\ Missing(Files, pointer)' = Missing(Files, pointer)
  <1>1. /\ \A fs, name : Declaring(fs, name)' = Declaring(fs, name)
        /\ \A fs, m : OwnMethods(fs, m)' = OwnMethods(fs, m)
    BY DEF Declaring, OwnMethods
  <1>2. \A fs : Embeds(fs)' = Embeds(fs)
    BY <1>1 DEF Embeds
  <1>3. \A fs, pointer, m : Signatures(fs, pointer, m)' = Signatures(fs, pointer, m)
    BY <1>1, <1>2 DEF Signatures
  <1>4. \A fs, pointer : Missing(fs, pointer)' = Missing(fs, pointer)
    BY <1>3 DEF Missing
  <1>5. \A fs, pointer : Implements(fs, pointer)' = Implements(fs, pointer)
    BY <1>4 DEF Implements
  <1>6. \A f : Refers(f)' = Refers(f)
    BY DEF Refers
  <1>7. \A fs : OtherErrors(fs)' = OtherErrors(fs)
    BY <1>1, <1>6 DEF OtherErrors
  <1>8. \A fs : CannotUse(fs)' = CannotUse(fs)
    BY <1>5 DEF CannotUse
  <1>9. Read' = Read
    BY DEF Read
  <1>10. \A name : Exact(name)' = Exact(name)
    BY <1>1, <1>9 DEF Exact
  <1>11. \A form : Uses(form)' = Uses(form)
    BY <1>9 DEF Uses
  <1>12. InterfaceCandidates' = InterfaceCandidates
    BY <1>1, <1>9, <1>10, <1>11
       DEF InterfaceCandidates, VarCandidates, TypedCandidates, EmbeddedCandidates
  <1>13. MergedCandidates' = MergedCandidates
    BY <1>12 DEF MergedCandidates
  <1>14. CandidateOnly' = CandidateOnly
    BY <1>7, <1>8, <1>9, <1>13 DEF CandidateOnly
  <1>15. \A c : EvaluateCandidate(c)' = EvaluateCandidate(c)
    BY <1>4, <1>5, <1>9, <1>14 DEF EvaluateCandidate
  <1>16. PackageLimited' = PackageLimited
    BY <1>9 DEF PackageLimited
  <1>17. Satisfaction' = Satisfaction
    BY <1>13, <1>15, <1>16 DEF Satisfaction
  <1> QED
    BY <1>2, <1>4, <1>5, <1>7, <1>9, <1>17

\* There is one candidate for T and one for *T, so there are two answers at most.
LEMMA SatisfactionFinite ==
    ASSUME package \in TypedPackages
    PROVE  Cardinality(Satisfaction) \in Nat
  <1> DEFINE Answer(pointer) == EvaluateCandidate(Candidate(0, 0, pointer))
  <1>1. \A c \in InterfaceCandidates : c.pointer \in BOOLEAN
    <2>1. ASSUME NEW f \in Files, NEW u \in package[f].uses PROVE u.pointer \in BOOLEAN
      <3>1. package[f] \in Contents
        BY InterfacesAssumption
      <3> QED
        BY <3>1 DEF Contents
    <2>2. Read \subseteq Files
      BY DEF Read
    <2>3. \A form : \A c \in Uses(form) : c.pointer \in BOOLEAN
      BY <2>1, <2>2 DEF Uses, Candidate
    <2>4. \A c \in EmbeddedCandidates : c.pointer \in BOOLEAN
      <3> SUFFICES ASSUME NEW c \in EmbeddedCandidates PROVE c.pointer \in BOOLEAN
        OBVIOUS
      <3>1. PICK f : c = Candidate(f, 0, FALSE)
        BY DEF EmbeddedCandidates
      <3> QED
        BY <3>1 DEF Candidate
    <2> QED
      BY <2>3, <2>4 DEF InterfaceCandidates, VarCandidates, TypedCandidates
  <1>2. \A c \in MergedCandidates : EvaluateCandidate(c) = Answer(c.pointer)
    BY DEF EvaluateCandidate, Candidate
  <1>3. Satisfaction \subseteq {Answer(TRUE)} \cup {Answer(FALSE)}
    <2> SUFFICES ASSUME NEW c \in MergedCandidates
                 PROVE  EvaluateCandidate(c) \in {Answer(TRUE)} \cup {Answer(FALSE)}
      BY DEF Satisfaction
    <2>1. c.pointer \in BOOLEAN
      BY <1>1 DEF MergedCandidates
    <2>2. CASE c.pointer = TRUE
      BY <1>2, <2>2
    <2>3. CASE c.pointer = FALSE
      BY <1>2, <2>3
    <2> QED
      BY <2>1, <2>2, <2>3
  <1>4. PICK S : S = {Answer(TRUE)} \cup {Answer(FALSE)}
    OBVIOUS
  <1>5. IsFiniteSet(S)
    BY <1>4, FS_Singleton, FS_Union
  <1> QED
    BY <1>3, <1>4, <1>5, FS_Subset, FS_CardinalityType

\* A type that has a method in some files has it in all, unless the method that
\* counts was that of an embedded interface.
LEMMA ImplementsByOwn ==
    ASSUME NEW fs \in SUBSET Files, NEW pointer, Implements(fs, pointer), ~Embeds(Files)
    PROVE  Implements(Files, pointer)
  <1>1. ~Embeds(fs)
    BY DEF Embeds, Declaring
  <1>2. ASSUME NEW m \in Methods PROVE "required" \in Signatures(Files, pointer, m)
    <2>1. "required" \in Signatures(fs, pointer, m)
      BY DEF Implements, Missing
    <2>2. PICK d \in OwnMethods(fs, m) : (pointer \/ ~d.pointer) /\ d.signature = "required"
      BY <1>1, <2>1 DEF Signatures
    <2>3. d \in OwnMethods(Files, m)
      BY DEF OwnMethods
    <2> QED
      BY <2>2, <2>3 DEF Signatures
  <1> QED
    BY <1>2 DEF Implements, Missing

\* Where a T is used as a named interface and does not implement it, the place is
\* that of a candidate or a candidate comes before it.
LEMMA UnmatchedComesLater ==
    ASSUME package \in TypedPackages, NEW f \in Read, NEW u \in package[f].uses, u.form # "anonymous",
           Exact("T"), Exact("I"), \A c \in MergedCandidates : ~(c.file = f /\ c.at = u.at)
    PROVE  \E g \in Files : g < f \/ package[g].embeds \/ \E v \in package[g].uses : g = f /\ v.at < u.at
  <1>1. /\ Read \subseteq Files /\ f \in Files /\ Files \subseteq Nat
        /\ \A g \in Files : package[g] \in Contents
    BY InterfacesAssumption DEF Read
  <1>2. PICK c : c = Candidate(f, u.at, u.pointer)
    OBVIOUS
  <1>3. c \in InterfaceCandidates /\ c.file = f /\ c.at = u.at /\ c.pointer = u.pointer
    <2>1. u.form \in {"var", "typed"}
      BY <1>1 DEF Contents, Forms
    <2>2. c \in Uses(u.form)
      BY <1>2 DEF Uses
    <2> QED
      BY <1>2, <2>1, <2>2 DEF InterfaceCandidates, VarCandidates, TypedCandidates, Candidate
  <1>4. c \notin MergedCandidates
    BY <1>3
  <1>5. PICK d \in InterfaceCandidates : ~(f < d.file \/ (f = d.file /\ u.at <= d.at))
    BY <1>3, <1>4 DEF MergedCandidates
  <1>6. CASE d \in EmbeddedCandidates
    BY <1>1, <1>6 DEF EmbeddedCandidates, Declaring, Candidate
  <1>7. CASE d \notin EmbeddedCandidates
    <2>1. PICK g \in Read : \E v \in package[g].uses : d = Candidate(g, v.at, v.pointer)
      BY <1>7 DEF InterfaceCandidates, VarCandidates, TypedCandidates, Uses
    <2>2. PICK v \in package[g].uses : d = Candidate(g, v.at, v.pointer)
      BY <2>1
    <2>3. d.file = g /\ d.at = v.at /\ g \in Nat /\ f \in Nat
      BY <1>1, <2>2 DEF Candidate
    <2>4. v.at \in Int /\ u.at \in Int
      BY <1>1 DEF Contents
    <2> QED
      BY <1>1, <1>5, <2>3, <2>4
  <1> QED
    BY <1>6, <1>7

\* What is said of an answer, of the package as it was recorded.
AnswerTrue(answer) ==
    /\ answer.status = "proven" /\ (Embeds(Files) => Read = Files) => Implements(Files, answer.pointer)
    /\ Read = Files =>
         /\ answer.status = "disproven" => answer.missing = Missing(Files, answer.pointer)
                                           /\ answer.missing # {}
         /\ answer.status # "unknown" => ~OtherErrors(Files)
                 /\ answer.pointerRequired = (~Implements(Files, FALSE) /\ Implements(Files, TRUE))
         /\ answer.status = "unknown" =>
              OtherErrors(Files) \/ \E f \in Files : \E u \in package[f].uses :
                /\ ~Implements(Files, u.pointer)
                /\ \/ u.form = "anonymous"
                   \/ \E g \in Files : g < f \/ package[g].embeds \/ \E v \in package[g].uses : g = f /\ v.at < u.at

\* It is so of every candidate that is evaluated, whatever was read.
LEMMA AnswersTrue ==
    ASSUME package \in TypedPackages
    PROVE  \A answer \in Satisfaction : AnswerTrue(answer)
  <1> SUFFICES ASSUME NEW c \in MergedCandidates PROVE AnswerTrue(EvaluateCandidate(c))
    BY DEF Satisfaction
  <1>1. PICK answer : answer = EvaluateCandidate(c)
    OBVIOUS
  <1>2. /\ answer.pointer = c.pointer
        /\ CandidateOnly <=> answer.status # "unknown"
        /\ CandidateOnly =>
             /\ answer.status = "proven" <=> Implements(Read, c.pointer)
             /\ answer.missing = Missing(Read, c.pointer)
             /\ answer.pointerRequired = (~Implements(Read, FALSE) /\ Implements(Read, TRUE))
    BY <1>1 DEF EvaluateCandidate
  <1>3. Exact("T") /\ Exact("I")
    BY DEF MergedCandidates, InterfaceCandidates
  <1>4. ASSUME answer.status = "proven", Embeds(Files) => Read = Files
        PROVE  Implements(Files, answer.pointer)
    <2>1. Implements(Read, c.pointer) /\ Read \in SUBSET Files
      BY <1>2, <1>4 DEF Read
    <2> QED
      BY <1>2, <1>4, <2>1, ImplementsByOwn
  <1>5. ASSUME Read = Files, answer.status = "unknown", ~OtherErrors(Files)
        PROVE  \E f \in Files : \E u \in package[f].uses :
                 /\ ~Implements(Files, u.pointer)
                 /\ \/ u.form = "anonymous"
                    \/ \E g \in Files : g < f \/ package[g].embeds \/ \E v \in package[g].uses : g = f /\ v.at < u.at
    <2>1. PICK error \in CannotUse(Read) : \A d \in MergedCandidates : ~(d.file = error.file /\ d.at = error.at)
      BY <1>2, <1>5 DEF CandidateOnly
    <2>2. PICK f \in Read : \E u \in package[f].uses :
            ~Implements(Read, u.pointer) /\ error = [file |-> f, at |-> u.at]
      BY DEF CannotUse
    <2>3. PICK u \in package[f].uses : ~Implements(Read, u.pointer) /\ error = [file |-> f, at |-> u.at]
      BY <2>2
    <2>4. \A d \in MergedCandidates : ~(d.file = f /\ d.at = u.at)
      BY <2>1, <2>3
    <2>5. u.form # "anonymous" =>
            \E g \in Files : g < f \/ package[g].embeds \/ \E v \in package[g].uses : g = f /\ v.at < u.at
      BY <1>3, <2>4, UnmatchedComesLater
    <2> QED
      BY <1>5, <2>3, <2>5
  <1>6. ASSUME Read = Files, answer.status = "disproven"
        PROVE  answer.missing = Missing(Files, answer.pointer) /\ answer.missing # {}
    BY <1>2, <1>6 DEF Implements
  <1>7. ASSUME Read = Files, answer.status # "unknown"
        PROVE  /\ ~OtherErrors(Files)
               /\ answer.pointerRequired = (~Implements(Files, FALSE) /\ Implements(Files, TRUE))
    BY <1>2, <1>7 DEF CandidateOnly
  <1> QED
    BY <1>1, <1>4, <1>5, <1>6, <1>7 DEF AnswerTrue

\* What is kept of the relationships found, and what is counted as omitted.
Counted(kept, found, checked, omitted) ==
    LET total == kept.imports + kept.receivers + kept.relations + kept.references + kept.satisfaction
    IN  /\ total <= MaxRelationships
        /\ total + omitted = found.imports + found.receivers + found.relations + found.references + checked

\* Two amounts that are taken from a budget one after the other take what their
\* sum would take, and what is not taken is the excess.
LEMMA SpentInOrder ==
    ASSUME NEW x \in Nat, NEW M \in Nat
    PROVE  /\ Least(x, M) \in Nat /\ M - Least(x, M) \in Nat /\ Least(x, M) <= M
           /\ Least(x, M) + Excess(x, M) = x
           /\ \A y \in Nat : /\ Least(y, M - Least(x, M)) \in Nat
                             /\ Least(x, M) + Least(y, M - Least(x, M)) = Least(x + y, M)
  BY DEF Least, Excess

\* The budget is spent kind after kind: the cuts add up.
LEMMA CutsAddUp ==
    ASSUME NEW found \in [Kinds -> Nat], NEW satisfied \in Nat
    PROVE  Counted(Kept(found, satisfied), found, satisfied, Omitted(found, satisfied))
  <1>1. MaxRelationships \in Nat
    BY InterfacesAssumption
  <1>2. PICK M \in Nat, i \in Nat, r \in Nat, t \in Nat, f \in Nat :
          /\ M = MaxRelationships /\ i = found.imports /\ r = found.receivers
          /\ t = found.relations /\ f = found.references
    BY <1>1 DEF Kinds
  <1>3. PICK collected \in Nat, limit \in Nat, bound \in Nat, checked \in Nat :
          /\ collected = CollectedReferences(found) /\ limit = ReferenceLimit(found)
          /\ bound = BoundReferences(found) /\ checked = Least(satisfied, M)
    BY <1>2 DEF CollectedReferences, ReferenceLimit, BoundReferences, Least, Excess
  <1>4. /\ collected + Excess(f, M) = f /\ bound + Excess(collected, limit) = collected
        /\ checked + (satisfied - checked) = satisfied
    BY <1>2, <1>3 DEF CollectedReferences, BoundReferences, Least, Excess
  <1>5. PICK a, b, c, d, e :
          /\ a = Least(i, M) /\ b = Least(r, M - a) /\ c = Least(t, M - a - b)
          /\ d = Least(bound, M - a - b - c) /\ e = Least(checked, M - a - b - c - d)
    OBVIOUS
  <1>6. /\ a \in Nat /\ b \in Nat /\ c \in Nat /\ d \in Nat /\ e \in Nat
         /\ a + b + c + d + e = Least(i + r + t + bound + checked, M)
    <2>1. a \in Nat
      BY <1>5, SpentInOrder
    <2>2. b \in Nat /\ a + b = Least(i + r, M) /\ i + r \in Nat
      BY <1>5, <2>1, SpentInOrder
    <2>3. c \in Nat /\ a + b + c = Least(i + r + t, M) /\ i + r + t \in Nat
      <3>1. PICK x \in Nat, y \in Nat : x = i + r /\ y = a + b
        BY <2>1, <2>2
      <3>2. M - y = M - a - b
        BY <2>1, <2>2, <3>1
      <3> QED
        BY <1>5, <2>2, <3>1, <3>2, SpentInOrder
    <2>4. d \in Nat /\ a + b + c + d = Least(i + r + t + bound, M) /\ i + r + t + bound \in Nat
      <3>1. PICK x \in Nat, y \in Nat : x = i + r + t /\ y = a + b + c
        BY <2>1, <2>2, <2>3
      <3>2. M - y = M - a - b - c
        BY <2>1, <2>2, <2>3, <3>1
      <3> QED
        BY <1>5, <2>3, <3>1, <3>2, SpentInOrder
    <2>5. e \in Nat /\ a + b + c + d + e = Least(i + r + t + bound + checked, M)
      <3>1. PICK x \in Nat, y \in Nat : x = i + r + t + bound /\ y = a + b + c + d
        BY <2>1, <2>2, <2>3, <2>4
      <3>2. M - y = M - a - b - c - d
        BY <2>1, <2>2, <2>3, <2>4, <3>1
      <3> QED
        BY <1>5, <2>4, <3>1, <3>2, SpentInOrder
    <2> QED
      BY <2>1, <2>2, <2>3, <2>4, <2>5
  <1>7. Kept(found, satisfied) =
          [imports |-> a, receivers |-> b, relations |-> c, references |-> d, satisfaction |-> e]
    BY <1>2, <1>3, <1>5 DEF Kept
  <1>8. Omitted(found, satisfied) =
          Excess(f, M) + Excess(collected, limit) + (satisfied - checked)
          + Excess(i + r + t + bound + checked, M)
    BY <1>2, <1>3 DEF Omitted
  <1>9. a + b + c + d + e + Excess(i + r + t + bound + checked, M) = i + r + t + bound + checked
        /\ a + b + c + d + e <= M
    <2>1. i + r + t + bound + checked \in Nat
      OBVIOUS
    <2> QED
      BY <1>6, <2>1, SpentInOrder
  <1>10. /\ Excess(f, M) \in Nat /\ Excess(collected, limit) \in Nat
        /\ Excess(i + r + t + bound + checked, M) \in Nat
    BY <1>2, <1>3 DEF Excess
  <1> QED
    BY <1>2, <1>3, <1>4, <1>6, <1>7, <1>8, <1>9, <1>10 DEF Counted

\* The invariant of a resolution: its answers are among those evaluated.
InterfacesInv ==
    /\ package \in TypedPackages
    /\ Answered =>
         /\ inventory.satisfaction \subseteq Satisfaction
         /\ Counted(inventory.kept, inventory.found, inventory.checked, inventory.omitted)

LEMMA InterfacesInitInv == InterfacesInit => InterfacesInv
  BY DEF InterfacesInit, InterfacesInv, Answered

LEMMA InterfacesNextInv == InterfacesInv /\ [InterfacesNext]_interfaceVars => InterfacesInv'
  <1> SUFFICES ASSUME InterfacesInv, [InterfacesNext]_interfaceVars PROVE InterfacesInv'
    OBVIOUS
  <1>1. package' = package
    BY DEF InterfacesNext, Evaluate, Cancel, VerifySource, Disturb, interfaceVars
  <1>2. CASE Evaluate
    <2>1. UNCHANGED <<package, files>>
      BY <1>2 DEF Evaluate
    <2>2. PICK found \in [Kinds -> 0..MaxFound], satisfaction \in SUBSET Satisfaction :
            inventory' = [phase |-> "resolved", satisfaction |-> satisfaction, found |-> found,
                          kept |-> Kept(found, Cardinality(Satisfaction)), checked |-> Cardinality(Satisfaction),
                          omitted |-> Omitted(found, Cardinality(Satisfaction))]
      BY <1>2 DEF Evaluate, kSubset
    <2>3. found \in [Kinds -> Nat] /\ Cardinality(Satisfaction) \in Nat
      BY SatisfactionFinite, InterfacesAssumption DEF InterfacesInv
    <2>4. Counted(inventory'.kept, inventory'.found, inventory'.checked, inventory'.omitted)
      BY <2>2, <2>3, CutsAddUp
    <2>5. inventory'.satisfaction \subseteq Satisfaction'
      BY <2>1, <2>2, SatisfactionStays
    <2> QED
      BY <1>1, <2>4, <2>5 DEF InterfacesInv, Counted
  <1>3. CASE Cancel \/ \E f \in Files : VerifySource(f) \/ Disturb(f)
    <2>1. ~Answered'
      BY <1>3 DEF Cancel, VerifySource, Disturb, Resolving, Answered
    <2> QED
      BY <1>1, <2>1 DEF InterfacesInv
  <1>4. CASE UNCHANGED interfaceVars
    BY <1>4, SatisfactionStays DEF InterfacesInv, interfaceVars, Answered, Counted
  <1> QED
    BY <1>2, <1>3, <1>4 DEF InterfacesNext

\* However many files a package has and whatever becomes of them while they are
\* read: what is said of a type and an interface is true of the package as it was
\* recorded, and what the limits cut off is counted.
THEOREM InventoryAlwaysTrue == InterfacesSpec => []InventoryTrue
  <1>1. InterfacesInv => InventoryTrue
    <2> SUFFICES ASSUME InterfacesInv PROVE InventoryTrue
      OBVIOUS
    <2>1. SatisfactionExact
      BY AnswersTrue DEF InterfacesInv, SatisfactionExact, AnswerTrue
    <2>2. OmissionsCounted
      BY DEF InterfacesInv, OmissionsCounted, Counted
    <2> QED
      BY <2>1, <2>2 DEF InventoryTrue
  <1> QED
    BY <1>1, InterfacesInitInv, InterfacesNextInv, PTL DEF InterfacesSpec
=============================================================================

------------------------------ MODULE SourceReader ------------------------------
(***************************************************************************)
(* How the Go engines (backend/lie/golang and its packageidentity and      *)
(* semantic) read a file of the snapshot while the directory is in use.    *)
(* A reader is made for the paths it may read: each directory is resolved, *)
(* opened and listed, three lookups that may find three things.  A read    *)
(* looks at what was listed then, opens through what was opened then, and  *)
(* takes, piece by piece, one byte more than it may to know that a file is *)
(* too large.                                                              *)
(*                                                                         *)
(* There is one path to read, a file in a directory.  A content is the     *)
(* sequence of its bytes.                                                  *)
(***************************************************************************)
EXTENDS Integers, SequencesExt, FiniteSetsExt

CONSTANTS
    Engines,          \* those that read
    Directories,      \* that the path may lead to, one after the other
    Texts,            \* contents
    MaxFileSize,      \* Config.MaxSourceFileSize, Config.MaxManifestSize
    MaxDisturbances   \* bound: changes made while one file is read

ASSUME ReaderAssumption ==
    /\ Engines \subseteq {"golang", "go-package-identity", "go-semantic"}
    /\ IsFiniteSet(Directories) /\ {"none", "nothing", "outside"} \cap Directories = {}
    /\ Texts \subseteq Seq(0..255)
    /\ MaxFileSize \in Nat /\ MaxDisturbances \in Nat

VARIABLES
    place,      \* what the directory's path leads to: one of Directories, "nothing", "outside"
    held,    \* what each of them holds under the file's name
    reader,     \* the engine's reader and its one read
    disturbed,  \* changes made
    history     \* <<place, entry>> pairs there were since the reader was made

readerVars == <<place, held, reader, disturbed, history>>

File(text) == [kind |-> "file", text |-> text]
Link(target) == [kind |-> target, text |-> <<>>]   \* to another folder, outside, to nothing
Absent == [kind |-> "absent", text |-> <<>>]
Special == [kind |-> "special", text |-> <<>>]     \* no regular file
Denied == [kind |-> "denied", text |-> <<>>]
Links == {Link(target) : target \in {"elsewhere", "outside", "dangling"}}
Entries == {File(text) : text \in Texts} \cup Links \cup {Absent, Special, Denied}

NoDirectory == "none"
Places == Directories \cup {"nothing", "outside"}

\* What a lookup of the directory, and of the file in it, finds now.
Found(where) == [place |-> where, entry |-> IF where \in Directories THEN held[where] ELSE Absent]

ReaderInit ==
    /\ place \in Places /\ held \in [Directories -> Entries]
    /\ \E engine \in Engines :
         reader = [engine |-> engine, step |-> "resolving", directory |-> NoDirectory, error |-> "none",
                   link |-> FALSE, text |-> <<>>, named |-> FALSE, data |-> <<>>, torn |-> FALSE,
                   answer |-> "none"]
    /\ disturbed = 0
    /\ history = {Found(where) : where \in Directories \cup {place}}

-----------------------------------------------------------------------------
(* Making the reader *)

Reader(next) == reader' = next /\ UNCHANGED <<place, held, disturbed, history>>
Fail(error) == Reader([reader EXCEPT !.step = "ready", !.error = error])

ResolveDirectory ==
    /\ reader.step = "resolving"
    /\ CASE place = "nothing" -> Fail("not exist")
         [] place = "outside" -> Fail("outside root")
         [] OTHER -> Reader([reader EXCEPT !.step = "opening"])

\* The repository's own handle does not leave it.
OpenDirectory ==
    /\ reader.step = "opening"
    /\ CASE place = "nothing" -> Fail("not exist")
         [] place = "outside" -> Fail("escapes")
         [] OTHER -> Reader([reader EXCEPT !.step = "listing", !.directory = place])

\* Listed by the path that was resolved, not through the handle.
ListDirectory ==
    /\ reader.step = "listing"
    /\ IF place = "nothing" THEN Fail("not exist")
       ELSE Reader([reader EXCEPT !.step = "ready", !.link = Found(place).entry \in Links])

-----------------------------------------------------------------------------
(* Reading *)

\* What each engine makes of an error of the directory, of a link that cannot
\* be followed and of an open that fails.
GolangError(error) ==
    CASE error \in {"outside root", "denied", "link outside"} -> "outside root"
      [] error \in {"not exist", "dangling"} -> "missing"
      [] OTHER -> "unreadable"
ManifestError(error) ==
    CASE error \in {"outside root", "link outside", "dangling"} -> "outside root"
      [] error = "not exist" -> "missing"
      [] OTHER -> "unreadable"
SemanticError(error) ==
    CASE error \in {"outside root", "link outside", "dangling"} -> "outside root"
      [] error = "not exist" -> "missing"
      [] OTHER -> "unreadable"
ErrorOf(engine, error) ==
    CASE engine = "golang" -> GolangError(error)
      [] engine = "go-package-identity" -> ManifestError(error)
      [] engine = "go-semantic" -> SemanticError(error)

Answering(error) ==
    Reader([reader EXCEPT !.step = "answered", !.answer = ErrorOf(reader.engine, error)])

\* A name that was a link is resolved again, by its path.
FollowLink ==
    /\ reader.step = "ready"
    /\ LET entry == Found(place).entry
           leaves == reader.link /\ (place = "outside" \/ entry = Link("outside"))
           broken == reader.link /\ entry \in {Absent, Link("dangling")}
       IN  IF reader.error # "none" THEN Answering(reader.error)
           ELSE \/ leaves /\ Answering("link outside")
                \/ broken /\ Answering("dangling")
                \/ ~leaves /\ ~broken /\ Reader([reader EXCEPT !.step = "checked"])

\* The directory's handle follows no link out of that directory.
OpenFile ==
    /\ reader.step = "checked"
    /\ LET entry == held[reader.directory]
       IN  CASE entry \in {Absent, Link("dangling")} -> Answering("not exist")
             [] entry \in {Link("elsewhere"), Link("outside")} -> Answering("escapes")
             [] entry = Denied -> Answering("denied")
             [] entry = Special -> Answering("not regular")
             [] OTHER -> Reader([reader EXCEPT !.step = "opened", !.text = entry.text, !.named = TRUE])

\* Where the file ends, as it is now, for a reader that takes no more than its limit.
WrongEnd(text) == Min({Len(text), MaxFileSize})
End(text) == Min({Len(text), MaxFileSize + 1})

\* One of the calls of io.ReadAll: any part of what follows, of the file as it is now.
ReadPiece ==
    /\ reader.step = "opened"
    /\ \E last \in (Len(reader.data) + 1)..End(reader.text) :
         Reader([reader EXCEPT !.data = @ \o SubSeq(reader.text, Len(reader.data) + 1, last)])

\* The call that finds the end.
ReadEnd ==
    /\ reader.step = "opened" /\ Len(reader.data) >= End(reader.text)
    /\ Reader([reader EXCEPT !.step = "answered",
                  !.answer = IF Len(reader.data) > MaxFileSize THEN "oversized" ELSE "data"])

-----------------------------------------------------------------------------
(* The directory's other users *)

Disturbing ==
    /\ reader.step # "answered" /\ disturbed < MaxDisturbances
    /\ disturbed' = disturbed + 1

MoveDirectory ==
    /\ Disturbing
    /\ \E where \in Places \ {place} : place' = where /\ history' = history \cup {Found(where)}
    /\ UNCHANGED <<held, reader>>

\* Another file under the name leaves one that is open as it is.
ReplaceFile(d) ==
    /\ Disturbing
    /\ \E entry \in Entries \ {held[d]} :
         /\ held' = [held EXCEPT ![d] = entry]
         /\ history' = history \cup {[place |-> d, entry |-> entry]}
    /\ reader' = IF reader.directory = d THEN [reader EXCEPT !.named = FALSE] ELSE reader
    /\ UNCHANGED place

\* One that is open is read on as it is then; what was read of it stays.
OverwriteFile(d) ==
    /\ Disturbing
    /\ held[d].kind = "file"
    /\ \E text \in Texts \ {held[d].text} :
         /\ held' = [held EXCEPT ![d].text = text]
         /\ history' = history \cup {[place |-> d, entry |-> File(text)]}
         /\ reader' = IF reader.directory = d /\ reader.named
                      THEN [reader EXCEPT !.text = text, !.torn = (reader.data # <<>>)] ELSE reader
    /\ UNCHANGED place

ReaderNext ==
    \/ ResolveDirectory \/ OpenDirectory \/ ListDirectory
    \/ FollowLink \/ OpenFile \/ ReadPiece \/ ReadEnd
    \/ MoveDirectory \/ \E d \in Directories : ReplaceFile(d) \/ OverwriteFile(d)

ReaderSpec == ReaderInit /\ [][ReaderNext]_readerVars

-----------------------------------------------------------------------------
(* Properties *)

\* What an undisturbed path is answered with.
Expected ==
    LET entry == Found(place).entry
    IN  CASE place = "outside" \/ entry.kind = "outside" -> {"outside root"}
          [] place = "nothing" \/ (place \in Directories /\ entry.kind = "absent") -> {"missing"}
          [] entry.kind = "dangling" -> {"missing", "outside root"}
          [] entry.kind = "denied" -> {"unreadable", "outside root"}
          [] entry.kind = "file" -> {IF Len(entry.text) > MaxFileSize THEN "oversized" ELSE "data"}
          [] OTHER -> {"unreadable"}

\* The directory that was opened had this file under the name at some moment.
Was(text) == [place |-> reader.directory, entry |-> File(text)] \in history

\* What is read is within the limit and whole: a file of the directory the path
\* led to since the reader was made, whatever is moved or replaced under it.  A
\* file that is overwritten in place after a part of it was read may be answered
\* as a mix that was never there, but every byte was in it at its place.  It is
\* refused as too large only if it was; and as anything else only if it was no
\* file in a directory at some moment.
ReadsTrue ==
    reader.step = "answered" =>
      /\ reader.answer = "data" =>
           /\ Len(reader.data) <= MaxFileSize
           /\ \A i \in DOMAIN reader.data :
                \E text \in Texts : Was(text) /\ i \in DOMAIN text /\ text[i] = reader.data[i]
           /\ ~reader.torn => Was(reader.data)
      /\ reader.answer = "oversized" => \E seen \in history : Len(seen.entry.text) > MaxFileSize
      /\ (\A seen \in history : seen.entry.kind = "file") => reader.answer \in {"data", "oversized"}
      /\ disturbed = 0 => reader.answer \in Expected
=============================================================================

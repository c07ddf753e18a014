--------------------------------- MODULE Log ---------------------------------
(***************************************************************************)
(* The log of memmalloc (build with -DLOG): every call of mem_malloc and   *)
(* mem_free ends by appending a line to a file.  The first caller names    *)
(* the file after the time in the buffer log_file_path, which every thread *)
(* reads and writes without a lock, one byte after the other.  A name is   *)
(* taken in three pieces: the directory, the date and hour, the seconds.   *)
(***************************************************************************)
EXTENDS Integers, Sequences

CONSTANTS
  Threads,
  Stamps,     \* what time() may return
  CALLS       \* bound: calls of a thread

Directory   == <<"directory">>
FileName(s) == Directory \o <<<<"hour", s>>, <<"second", s>>>>

VARIABLES
  log_file_path,   \* the pieces in the buffer up to the terminating zero
  files,           \* the lines in the files, as <<path, line>>
  clock,
  calls,           \* calls begun
  pc, timep, written,
  crashed

vars == <<log_file_path, files, clock, calls, pc, timep, written, crashed>>

Init ==
  /\ log_file_path = <<>> /\ files = {} /\ clock \in Stamps
  /\ calls = [t \in Threads |-> 0]
  /\ pc = [t \in Threads |-> "idle"]
  /\ timep = [t \in Threads |-> 0]
  /\ written = [t \in Threads |-> 0]
  /\ crashed = FALSE

Goto(t, label) == pc' = [pc EXCEPT ![t] = label]

\* The caller's line, which addr_2_line and snprintf make of its own data.
Line(t) == <<t, calls[t]>>

OutputLogInfo(t) ==
  /\ pc[t] = "idle" /\ calls[t] < CALLS
  /\ calls' = [calls EXCEPT ![t] = @ + 1]
  /\ Goto(t, "test")
  /\ UNCHANGED <<log_file_path, files, clock, timep, written, crashed>>

\* log_file_path[0] == 0
Test(t) ==
  /\ pc[t] = "test"
  /\ Goto(t, IF log_file_path = <<>> THEN "time" ELSE "write")
  /\ UNCHANGED <<log_file_path, files, clock, calls, timep, written, crashed>>

Time(t) ==
  /\ pc[t] = "time"
  /\ \E s \in Stamps : s >= clock /\ clock' = s /\ timep' = [timep EXCEPT ![t] = s]
  /\ written' = [written EXCEPT ![t] = 0]
  /\ Goto(t, "strftime")
  /\ UNCHANGED <<log_file_path, files, calls, crashed>>

\* The next piece of the name; another thread's name may be there already.  With
\* the last piece create_file opens and closes the file, as the write does again.
Strftime(t) ==
  LET i == written[t] + 1
      name == FileName(timep[t])
  IN  /\ pc[t] = "strftime"
      /\ log_file_path' = IF i > Len(log_file_path) THEN Append(log_file_path, name[i])
                          ELSE [log_file_path EXCEPT ![i] = name[i]]
      /\ written' = [written EXCEPT ![t] = i]
      /\ Goto(t, IF i = Len(name) THEN "write" ELSE "strftime")
      /\ UNCHANGED <<files, clock, calls, timep, crashed>>

\* w_file: a directory cannot be opened for writing, and fclose is called with
\* the null pointer.  Any longer part of a name is a file, which fopen creates.
WriteFile(t) ==
  /\ pc[t] = "write"
  /\ IF log_file_path = Directory
     THEN crashed' = TRUE /\ UNCHANGED <<files, pc>>
     ELSE /\ files' = files \cup {<<log_file_path, Line(t)>>}
          /\ Goto(t, "idle")
          /\ UNCHANGED crashed
  /\ UNCHANGED <<log_file_path, clock, calls, timep, written>>

Next ==
  /\ ~crashed
  /\ \E t \in Threads : OutputLogInfo(t) \/ Test(t) \/ Time(t) \/ Strftime(t) \/ WriteFile(t)

Spec == Init /\ [][Next]_vars

-----------------------------------------------------------------------------
\* The calls of t that are over: those it returned from, and all of them when
\* the process has died.
Over(t) == {n \in 1 .. calls[t] : n < calls[t] \/ pc[t] = "idle" \/ crashed}

\* Every allocation and every free is on record (doc/TEST.md:86,
\* multi_thread_logs_test: "whether the information of every allocation and
\* free can be recorded", with ten threads).
Recorded ==
  \A t \in Threads : \A n \in Over(t) : \E f \in files : f[2] = <<t, n>>

=============================================================================

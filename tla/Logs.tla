-------------------------------- MODULE Logs --------------------------------
(***************************************************************************)
(* The log file, and its upload to the network manager:                    *)
(* wtsl_log_manager.c, wtsl_client_upload.c, and the renaming of the file  *)
(* by the REST handlers that change the name of the node or the date.      *)
(*                                                                         *)
(* Every thread writes lines, under log_mutex; one thread watches the size *)
(* of the file and uploads it, closing it first without the mutex, and     *)
(* starts it anew whatever the result; a handler renames it.  The file is  *)
(* named after the node and the date.                                      *)
(***************************************************************************)
EXTENDS Naturals, FiniteSets

CONSTANTS
    LogWriters,     \* threads that log
    LogNames,       \* names of log files: of a node on a date
    MaxFileLines,   \* max_file_size, in lines
    MaxLines        \* bound: lines that are logged

ASSUME LogsAssumption ==
    /\ "NULL" \notin LogNames
    /\ MaxFileLines \in Nat \ {0} /\ MaxLines \in Nat

VARIABLES
    logHandle,      \* the file log_file is open on, or "NULL"
    logPath,        \* log_file_path
    today,          \* what generate_file_name returns now
    disk,           \* the lines of each file; the files that there are
    logMode,        \* current_mode
    writer,         \* of each thread: where it is, and whether the file it is
                    \* about to write to has been closed
    logMutex,       \* the thread that holds log_mutex, or "free"
    uploader,       \* the upload thread: where it is, what it has read from which
                    \* file (NULL once a handler renames one), its success
    renaming,       \* the name a handler has given the file and not yet noted
    serverAnswers,  \* the network manager answers
    received,       \* lines the network manager has received
    lineCount,      \* lines logged so far: a line is its number
    unreported      \* (history) lines removed by an upload that reported success
                    \* and that the network manager does not have

logVars == <<logHandle, logPath, today, disk, logMode, writer, logMutex, uploader,
             renaming, serverAnswers, received, lineCount, unreported>>

NoFile == "NULL"

Exists(name) == name \in DOMAIN disk

LinesOf(name) == IF Exists(name) THEN disk[name] ELSE {}

With(files, name, lines) ==
    [n \in DOMAIN files \cup {name} |-> IF n = name THEN lines ELSE files[n]]

Without(files, name) == [n \in DOMAIN files \ {name} |-> files[n]]

(***************************************************************************)
(* Logging                                                                 *)
(***************************************************************************)
wtsl_logger_should_log(mode, level) ==
    mode = "ALL" \/ (mode = "PRODUCT" /\ level \in {"WARN", "ERROR", "FATAL"})

\* The name of the node and the date make the name of the file.
generate_file_name == today

\* The first word of the file that names a mode, or ALL without one; a file that
\* cannot be read changes nothing.
parse_config_file(mode) == {mode, "ALL", "PRODUCT"}

\* Once in a while, when the file is newer.
need_config_reload == BOOLEAN

\* A line of its own tells of the new mode.
wtsl_logger_reload_config == logMode' \in parse_config_file(logMode)

\* A call first reads the configuration again when it has changed.
wtsl_logger_log(w) ==
    /\ writer[w].at = "idle"
    /\ lineCount < MaxLines
    /\ \E level \in {"INFO", "ERROR"}, reload \in need_config_reload :
          /\ reload \/ wtsl_logger_should_log(logMode, level)
          /\ IF reload THEN wtsl_logger_reload_config ELSE UNCHANGED logMode
    /\ writer' = [writer EXCEPT ![w] = [at |-> "lock", closed |-> FALSE]]
    /\ UNCHANGED <<logHandle, logPath, today, disk, logMutex, uploader, renaming,
                   serverAnswers, received, lineCount, unreported>>

\* Under the mutex; without a file the line goes to the console alone.
TestLogFile(w) ==
    /\ writer[w].at = "lock"
    /\ logMutex = "free"
    /\ IF logHandle = NoFile
       THEN /\ writer' = [writer EXCEPT ![w].at = "idle"]
            /\ UNCHANGED logMutex
       ELSE /\ writer' = [writer EXCEPT ![w].at = "write"]
            /\ logMutex' = w
    /\ UNCHANGED <<logHandle, logPath, today, disk, logMode, uploader, renaming,
                   serverAnswers, received, lineCount, unreported>>

\* fprintf, fflush and the unlock.  On a file that has been closed meanwhile the
\* outcome is undefined: here the line is lost, or the program ends (LogRestart).
WriteLine(w) ==
    /\ writer[w].at = "write"
    /\ lineCount < MaxLines
    /\ writer' = [writer EXCEPT ![w] = [at |-> "idle", closed |-> FALSE]]
    /\ logMutex' = "free"
    /\ IF writer[w].closed THEN UNCHANGED <<disk, lineCount>>
       ELSE /\ disk' = With(disk, logHandle, LinesOf(logHandle) \cup {lineCount + 1})
            /\ lineCount' = lineCount + 1
    /\ UNCHANGED <<logHandle, logPath, today, logMode, uploader, renaming,
                   serverAnswers, received, unreported>>

(***************************************************************************)
(* Upload                                                                  *)
(***************************************************************************)
Resting == [at |-> "wait", lines |-> {}, name |-> NoFile, ok |-> FALSE]

\* upload_thread_func wakes every second; nobody sets trigger_upload.
need_upload_and_clear ==
    /\ uploader.at = "wait"
    /\ logHandle # NoFile
    /\ Cardinality(LinesOf(logPath)) >= MaxFileLines
    /\ uploader' = [uploader EXCEPT !.at = "close"]
    /\ UNCHANGED <<logHandle, logPath, today, disk, logMode, writer, logMutex,
                   renaming, serverAnswers, received, lineCount, unreported>>

\* Variants with a defect, here and below: named after it.
KeepsOpen_CloseLogFile ==
    /\ uploader.at = "close"
    /\ uploader' = [uploader EXCEPT !.at = "read"]
    /\ UNCHANGED <<logHandle, logPath, today, disk, logMode, writer, logMutex,
                   renaming, serverAnswers, received, lineCount, unreported>>

\* upload_and_clear_logs: without log_mutex.
CloseLogFile ==
    /\ uploader.at = "close"
    /\ logHandle' = NoFile
    /\ writer' = [w \in LogWriters |->
                     IF writer[w].at = "write" THEN [writer[w] EXCEPT !.closed = TRUE]
                     ELSE writer[w]]
    /\ uploader' = [uploader EXCEPT !.at = "read"]
    /\ UNCHANGED <<logPath, today, disk, logMode, logMutex, renaming, serverAnswers,
                   received, lineCount, unreported>>

\* A file that is empty, or no longer there under that name, is a failure.
read_log_file_content ==
    /\ uploader.at = "read"
    /\ uploader' = IF LinesOf(logPath) = {}
                   THEN [uploader EXCEPT !.at = "reopen"]
                   ELSE [uploader EXCEPT !.at = "connect", !.lines = LinesOf(logPath),
                                         !.name = logPath]
    /\ UNCHANGED <<logHandle, logPath, today, disk, logMode, writer, logMutex,
                   renaming, serverAnswers, received, lineCount, unreported>>

NoTimeout_wait_for_ack == IF serverAnswers THEN {TRUE} ELSE {}

\* The answer of the network manager, or none, or another, within ten seconds.
wait_for_ack == {FALSE} \cup (IF serverAnswers THEN {TRUE} ELSE {})

create_tcp_connection == {FALSE, serverAnswers}

\* A frame is made of data that is not empty, and sent unless the connection breaks.
build_log_upload_frame(data_length) == data_length > 0

send_frame_data(frame) == {FALSE, frame}

prepare_file_info == [name |-> uploader.name, file_size |-> Cardinality(uploader.lines)]

build_file_info_frame == build_log_upload_frame(Cardinality(DOMAIN prepare_file_info))

build_log_data_frame == build_log_upload_frame(prepare_file_info.file_size)

\* UPLOAD_RETRY_COUNT is 1: the first failure is the last.
Connect ==
    /\ uploader.at = "connect"
    /\ \E ok \in create_tcp_connection :
          uploader' = [uploader EXCEPT !.at = IF ok THEN "info" ELSE "reopen"]
    /\ UNCHANGED <<logHandle, logPath, today, disk, logMode, writer, logMutex,
                   renaming, serverAnswers, received, lineCount, unreported>>

\* The frame with the name and the size, and its acknowledgement.
SendFileInfo ==
    /\ uploader.at = "info"
    /\ \E sent \in send_frame_data(build_file_info_frame), ack \in wait_for_ack :
          uploader' = [uploader EXCEPT !.at = IF sent /\ ack THEN "data" ELSE "reopen"]
    /\ UNCHANGED <<logHandle, logPath, today, disk, logMode, writer, logMutex,
                   renaming, serverAnswers, received, lineCount, unreported>>

\* The frame with the lines.  What arrives may not be acknowledged.
SendLogData ==
    /\ uploader.at = "data"
    /\ \E sent \in send_frame_data(build_log_data_frame), ack \in wait_for_ack :
          /\ received' = IF sent THEN received \cup uploader.lines ELSE received
          /\ uploader' = [uploader EXCEPT !.at = "reopen", !.ok = sent /\ ack]
    /\ UNCHANGED <<logHandle, logPath, today, disk, logMode, writer, logMutex,
                   renaming, serverAnswers, lineCount, unreported>>

tcp_upload_logs == read_log_file_content \/ Connect \/ SendFileInfo \/ SendLogData

\* The file of today's name is emptied, or made; when that fails log_file stays
\* NULL, and need_upload_and_clear will not try again.
ReopenLogFile ==
    /\ uploader.at = "reopen"
    /\ logPath' = generate_file_name
    /\ \/ /\ logHandle' = NoFile
          /\ UNCHANGED <<disk, unreported>>
          /\ uploader' = [Resting EXCEPT !.at = "given up"]
       \/ /\ logHandle' = today
          /\ disk' = With(disk, today, {})
          /\ unreported' = IF uploader.ok /\ uploader.name = today
                           THEN unreported \cup (LinesOf(today) \ received)
                           ELSE unreported
          /\ uploader' = Resting
    /\ UNCHANGED <<today, logMode, writer, logMutex, renaming, serverAnswers,
                   received, lineCount>>

upload_and_clear_logs ==
    \/ CloseLogFile
    \/ tcp_upload_logs
    \/ ReopenLogFile

upload_thread_func == need_upload_and_clear \/ upload_and_clear_logs

(***************************************************************************)
(* The name of the file                                                    *)
(***************************************************************************)
\* wtsl_core_set_node_basicinfo and wtsl_core_do_time_sync: the file gets the
\* name that fits the new name of the node or the new date, in place of a file
\* that had it; an open file stays open.  Then the path is noted.
RenameLogFile ==
    /\ renaming = NoFile
    /\ \E name \in LogNames :
          /\ today' = name
          /\ IF Exists(logPath)
             THEN /\ disk' = With(Without(disk, logPath), name, LinesOf(logPath))
                  /\ logHandle' = IF logHandle = logPath THEN name ELSE logHandle
                  /\ renaming' = name
             ELSE UNCHANGED <<disk, logHandle, renaming>>
    /\ uploader' = [uploader EXCEPT !.name = NoFile]
    /\ UNCHANGED <<logPath, logMode, writer, logMutex, serverAnswers,
                   received, lineCount, unreported>>

NoteLogPath ==
    /\ renaming # NoFile
    /\ logPath' = renaming
    /\ renaming' = NoFile
    /\ UNCHANGED <<logHandle, today, disk, logMode, writer, logMutex, uploader,
                   serverAnswers, received, lineCount, unreported>>

Midnight ==
    /\ \E name \in LogNames \ {today} : today' = name
    /\ UNCHANGED <<logHandle, logPath, disk, logMode, writer, logMutex, uploader,
                   renaming, serverAnswers, received, lineCount, unreported>>

ServerChanges ==
    /\ serverAnswers' = ~serverAnswers
    /\ UNCHANGED <<logHandle, logPath, today, disk, logMode, writer, logMutex,
                   uploader, renaming, received, lineCount, unreported>>

(***************************************************************************)
(* Start                                                                   *)
(***************************************************************************)
Waiting == [w \in LogWriters |-> [at |-> "idle", closed |-> FALSE]]

LogInit ==
    /\ today \in LogNames
    /\ logPath = today
    /\ logHandle = today
    /\ disk = [n \in {today} |-> {}]
    /\ logMode \in {"ALL", "PRODUCT"}
    /\ writer = Waiting
    /\ logMutex = "free"
    /\ uploader = Resting
    /\ renaming = NoFile
    /\ serverAnswers \in BOOLEAN
    /\ received = {}
    /\ lineCount = 0
    /\ unreported = {}

\* Appends to the file that there is.
open_log_file(name) ==
    /\ logHandle' = name
    /\ disk' = With(disk, name, LinesOf(name))

\* If the file cannot be opened the program goes on without a mode, without the
\* upload thread and with no file until it is started again.
wtsl_logger_init ==
    /\ logPath' = generate_file_name
    /\ \/ /\ open_log_file(generate_file_name)
          /\ logMode' \in parse_config_file("ALL")
          /\ uploader' = Resting
       \/ /\ logHandle' = NoFile
          /\ logMode' = "UNKNOWN"
          /\ uploader' = [Resting EXCEPT !.at = "given up"]
          /\ UNCHANGED disk
    /\ writer' = Waiting
    /\ logMutex' = "free"
    /\ renaming' = NoFile
    /\ UNCHANGED <<today, serverAnswers, received, lineCount, unreported>>

\* The program ends, for whatever reason, and is started again.
LogRestart == wtsl_logger_init

LogNext ==
    \/ \E w \in LogWriters : wtsl_logger_log(w) \/ TestLogFile(w) \/ WriteLine(w)
    \/ upload_thread_func
    \/ RenameLogFile \/ NoteLogPath \/ Midnight
    \/ ServerChanges
    \/ LogRestart

LogSpec == LogInit /\ [][LogNext]_logVars

\* The upload thread goes on: every wait of it has a timeout.
LogFairness == WF_logVars(upload_and_clear_logs)

(***************************************************************************)
(* Properties                                                              *)
(***************************************************************************)
LogTypeOK ==
    /\ logHandle \in LogNames \cup {NoFile}
    /\ logPath \in LogNames /\ today \in LogNames
    /\ DOMAIN disk \subseteq LogNames
    /\ \A n \in DOMAIN disk : disk[n] \subseteq 1..lineCount
    /\ logMode \in {"ALL", "PRODUCT", "UNKNOWN"}
    /\ \A w \in LogWriters : writer[w].at \in {"idle", "lock", "write"}
    /\ logMutex \in LogWriters \cup {"free"}
    /\ uploader.at \in {"wait", "close", "read", "connect", "info", "data", "reopen",
                        "given up"}
    /\ received \subseteq 1..lineCount
    /\ lineCount \in 0..MaxLines

\* When an upload reports success and empties the file it uploaded, every line it
\* removes has arrived at the network manager: whatever was logged and whenever the
\* date changed between the reading of the file and its being emptied, although the
\* writers share no lock with the upload.  (A handler that renames a log file to
\* the name of the one being uploaded does lose lines: those uploads are left out.)
NothingRemovedUnsent == unreported = {}

\* An upload that has closed the log file opens it again, whether or not the
\* network manager answers, unless the file cannot be made.
LoggingResumes ==
    uploader.at = "read" ~> logHandle # NoFile \/ uploader.at = "given up"
=============================================================================

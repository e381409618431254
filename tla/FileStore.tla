------------------------------ MODULE FileStore ------------------------------
(***************************************************************************)
(* pnacl_fileio_api.hpp: the encrypted file per user, and the fileio_api   *)
(* objects that write and read it.  Each object has a thread of its own,   *)
(* which works off what was posted to it, and an encrypter made from a     *)
(* password.  An object lives from a login to the next one: its destructor *)
(* destroys the encrypter first and then waits for the thread.             *)
(*                                                                         *)
(* Callbacks run on the thread; what they do is the caller's and is        *)
(* conjoined in ChatInstance.  The pepper file system is external and may  *)
(* refuse any call.                                                        *)
(***************************************************************************)
EXTENDS Naturals, Sequences

CONSTANTS
    Users, Passwords,
    EmptyPassword,    \* with it Themis refuses to seal and to unseal
    Stores,           \* where fileio_api objects live; two are enough (see MainIdle)
    NoStore, NoFile,
    Torn,             \* what a file opened for writing holds until it is written
    NoContent         \* the outcome of a load that failed

ASSUME StoresOK ==
    /\ EmptyPassword \in Passwords
    /\ NoStore \notin Stores
    /\ \E s, t \in Stores : s # t

VARIABLES
    files,      \* files[u]: [password, content] as sealed, Torn or NoFile
    loop,       \* loop[s]: "none", "running", or "quitting" while the destructor waits
    password,   \* of the encrypter_
    ready,      \* file_system_ready_
    tasks,      \* what was posted to file_thread_; the head is what it works on
    at,         \* where in the head task the thread is
    target,     \* the store_ that on_open read, to post its load to
    loaded      \* what the load read

threadVars == <<loop, password, ready, tasks, at, target, loaded>>

(* A posted task.  A save carries its copy of the data, a load the login   *)
(* that waits for it.                                                      *)
Task(op, u, content, login) == [op |-> op, user |-> u, content |-> content, login |-> login]

FileStoreInit ==
    /\ files = [u \in Users |-> NoFile]
    /\ loop = [s \in Stores |-> "none"]
    /\ password = [s \in Stores |-> EmptyPassword]
    /\ ready = [s \in Stores |-> FALSE]
    /\ tasks = [s \in Stores |-> << >>]
    /\ at = [s \in Stores |-> "idle"]
    /\ target = [s \in Stores |-> NoStore]
    /\ loaded = [s \in Stores |-> NoContent]

(* The module is gone, and all its threads with it.                        *)
ThreadsDown ==
    /\ loop' = [s \in Stores |-> "none"]
    /\ password' = [s \in Stores |-> EmptyPassword]
    /\ ready' = [s \in Stores |-> FALSE]
    /\ tasks' = [s \in Stores |-> << >>]
    /\ at' = [s \in Stores |-> "idle"]
    /\ target' = [s \in Stores |-> NoStore]
    /\ loaded' = [s \in Stores |-> NoContent]
    /\ UNCHANGED files

-----------------------------------------------------------------------------
(* The constructor: the thread is started and opens the file system.       *)
StartStore(s, u, p) ==
    /\ loop[s] = "none"
    /\ loop' = [loop EXCEPT ![s] = "running"]
    /\ password' = [password EXCEPT ![s] = p]
    /\ tasks' = [tasks EXCEPT ![s] = <<Task("open", u, NoContent, s)>>]
    /\ UNCHANGED <<files, ready, at, target, loaded>>

(* save; PostWork takes no more work once the loop was told to quit.       *)
PostTask(s, task) ==
    tasks' = IF loop[s] = "running" THEN [tasks EXCEPT ![s] = Append(@, task)] ELSE tasks

(* The destructor: encrypter_ is gone, then file_thread_ is joined.        *)
QuitStore(s) == loop' = [loop EXCEPT ![s] = "quitting"]

JoinStore(s) ==
    /\ loop[s] = "quitting"
    /\ tasks[s] = << >>
    /\ loop' = [loop EXCEPT ![s] = "none"]
    /\ password' = [password EXCEPT ![s] = EmptyPassword]
    /\ ready' = [ready EXCEPT ![s] = FALSE]
    /\ UNCHANGED <<files, tasks, at, target, loaded>>

-----------------------------------------------------------------------------
Works(s, op, place) ==
    /\ tasks[s] # << >>
    /\ Head(tasks[s]).op = op
    /\ at[s] = place

Proceeds(s, place) == at' = [at EXCEPT ![s] = place]

EndTask(s) ==
    /\ tasks' = [tasks EXCEPT ![s] = Tail(@)]
    /\ Proceeds(s, "idle")

(* open_file_system_, up to its callback.                                  *)
OpenFileSystem(s) ==
    /\ Works(s, "open", "idle")
    /\ ready' = [ready EXCEPT ![s] = TRUE]
    /\ Proceeds(s, "opened")
    /\ UNCHANGED <<files, loop, password, tasks, target, loaded>>

OpenFails(s) ==
    /\ Works(s, "open", "idle")
    /\ EndTask(s)
    /\ UNCHANGED <<files, loop, password, ready, target, loaded>>

(* on_open's store_->load, first half: which object store_ leads to.       *)
ReadsTarget(s, t) ==
    /\ Works(s, "open", "opened")
    /\ target' = [target EXCEPT ![s] = t]
    /\ Proceeds(s, "posting")
    /\ UNCHANGED <<files, loop, password, ready, tasks, loaded>>

(* The second half.                                                        *)
PostsLoad(s) ==
    LET t == target[s]
        load == Task("load", Head(tasks[s]).user, NoContent, s)
        rest == [tasks EXCEPT ![s] = Tail(@)]
    IN  /\ Works(s, "open", "posting")
        /\ tasks' = IF loop[t] = "running" THEN [rest EXCEPT ![t] = Append(@, load)] ELSE rest
        /\ Proceeds(s, "idle")
        /\ target' = [target EXCEPT ![s] = NoStore]
        /\ UNCHANGED <<files, loop, password, ready, loaded>>

-----------------------------------------------------------------------------
(* A destroyed encrypter may still work, as long as nobody reuses its      *)
(* memory, or fail.                                                        *)
CanSeal(s) == password[s] # EmptyPassword

(* load_: what may be read is the content, if this store's password opens  *)
(* it; any call may fail, and then there is no content.  Without a file    *)
(* system on_error is called twice in a row, to the effect of once.        *)
Readings(s, u) ==
    {NoContent} \cup
    IF ready[s] /\ CanSeal(s) /\ files[u] \notin {NoFile, Torn} /\ files[u].password = password[s]
    THEN {files[u].content} ELSE {}

LoadFile(s) ==
    /\ Works(s, "load", "idle")
    /\ \E content \in Readings(s, Head(tasks[s]).user) :
           loaded' = [loaded EXCEPT ![s] = content]
    /\ Proceeds(s, "loaded")
    /\ UNCHANGED <<files, loop, password, ready, tasks, target>>

(* on_load or on_error runs, and the task is over.                         *)
EndLoad(s) ==
    /\ Works(s, "load", "loaded")
    /\ EndTask(s)
    /\ loaded' = [loaded EXCEPT ![s] = NoContent]
    /\ UNCHANGED <<files, loop, password, ready, target>>

(* save_: opening the file truncates it.                                   *)
TruncateFile(s) ==
    /\ Works(s, "save", "idle")
    /\ ready[s]
    /\ files' = [files EXCEPT ![Head(tasks[s]).user] = Torn]
    /\ Proceeds(s, "truncated")
    /\ UNCHANGED <<loop, password, ready, tasks, target, loaded>>

(* It cannot be opened; without a file system it never can.                *)
SaveNotOpened(s) ==
    /\ Works(s, "save", "idle")
    /\ EndTask(s)
    /\ UNCHANGED <<files, loop, password, ready, target, loaded>>

(* Write and Flush; that a Flush failed shows in the report only.          *)
WriteFile(s) ==
    LET task == Head(tasks[s])
    IN  /\ Works(s, "save", "truncated")
        /\ CanSeal(s)
        /\ files' = [files EXCEPT ![task.user] =
                         [password |-> password[s], content |-> task.content]]
        /\ EndTask(s)
        /\ UNCHANGED <<loop, password, ready, target, loaded>>

(* Write fails, or there is nothing to write since encrypt threw (save_    *)
(* goes on and reports success as well).                                   *)
LeaveTorn(s) ==
    /\ Works(s, "save", "truncated")
    /\ EndTask(s)
    /\ UNCHANGED <<files, loop, password, ready, target, loaded>>
=============================================================================

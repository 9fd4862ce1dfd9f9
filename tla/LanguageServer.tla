--------------------------- MODULE LanguageServer ---------------------------
(***************************************************************************)
(* LSPServer (interfaces/lsp/server.py) over TCP: a thread per client, all  *)
(* with one table of documents and one is_running.  A thread changes or     *)
(* reads the table under the lock and publishes diagnostics after it.  What *)
(* editors send is not in the code: an editor opens a document before it    *)
(* changes, saves or closes it, and its messages arrive in order.  A text   *)
(* is a number; diagnostics are known by the text they were computed from.  *)
(***************************************************************************)
EXTENDS Naturals, Sequences

CONSTANTS Editors, Uris,
          MaxTexts,    \* bound: how many texts are typed
          MaxPending,  \* bound: messages on their way
          MaxUnpublished  \* bound: publications that fail

ASSUME LanguageServerAssumption ==
    MaxTexts \in Nat /\ MaxPending \in Nat /\ MaxUnpublished \in Nat

VARIABLES documents,  \* the texts; Gone where there is no entry
          isRunning,  \* is_running
          client,     \* each thread: whether it waits for a message, publishes, or is over
          pipe,       \* messages of each client not yet read
          buffer,     \* what each editor has in its window; Gone where nothing is open
          shown,      \* the text the diagnostics it shows are about
          last,       \* what the last publication was made from: message, table, or failed
          users,      \* history: the editors that ever opened a document
          texts, unpublished

lspVars == <<documents, isRunning, client, pipe, buffer, shown, last, users, texts, unpublished>>

Gone == 0       \* no entry
OnDisk == 0     \* analyze_document reads the file where it is given no text
Texts == 1..MaxTexts
Kinds == {"didOpen", "didChange", "didSave", "didClose", "applyFix", "exit"}
Waiting == [at |-> "read"]

LspInit == /\ documents = [u \in Uris |-> Gone]
           /\ isRunning = TRUE
           /\ client = [c \in Editors |-> Waiting]
           /\ pipe = [c \in Editors |-> <<>>]
           /\ buffer = [c \in Editors |-> [u \in Uris |-> Gone]]
           /\ shown = [c \in Editors |-> [u \in Uris |-> Gone]]
           /\ last = [c \in Editors |-> [u \in Uris |-> "message"]]
           /\ users = [u \in Uris |-> {}]
           /\ texts = 0 /\ unpublished = 0

-----------------------------------------------------------------------------
(* The editors.                                                             *)
Send(c, m) == Len(pipe[c]) < MaxPending /\ pipe' = [pipe EXCEPT ![c] = Append(@, m)]
Message(kind, u, t) == [kind |-> kind, uri |-> u, text |-> t]
EditorStays == UNCHANGED <<documents, isRunning, client, shown, last, unpublished>>

Type(c, u) == /\ texts < MaxTexts /\ texts' = texts + 1
              /\ Send(c, Message(IF buffer[c][u] = Gone THEN "didOpen" ELSE "didChange", u, texts + 1))
              /\ buffer' = [buffer EXCEPT ![c][u] = texts + 1]
              /\ users' = [users EXCEPT ![u] = @ \union {c}]
              /\ EditorStays

(* A save with the text or, as older clients do, without it.                *)
Ask(c, u) == /\ buffer[c][u] # Gone
             /\ \E m \in {Message("didSave", u, buffer[c][u]), Message("didSave", u, Gone),
                          Message("applyFix", u, Gone)} : Send(c, m)
             /\ UNCHANGED <<buffer, users, texts>> /\ EditorStays

Close(c, u) == /\ buffer[c][u] # Gone
               /\ Send(c, Message("didClose", u, Gone))
               /\ buffer' = [buffer EXCEPT ![c][u] = Gone]
               /\ UNCHANGED <<users, texts>> /\ EditorStays

Quit(c) == /\ \E u \in Uris : Send(c, Message("exit", u, Gone))
           /\ UNCHANGED <<buffer, users, texts>> /\ EditorStays

-----------------------------------------------------------------------------
(* The threads.                                                             *)
Publishing(c, m, text, from) ==
    client' = [client EXCEPT ![c] = [at |-> "publish", uri |-> m.uri, text |-> text, from |-> from]]

(* _handle_tcp_client looks at is_running before it waits for a message, so *)
(* a thread that waits handles one more.                                    *)
Loop(c) == client' = [client EXCEPT ![c] = IF isRunning' THEN Waiting ELSE [at |-> "over"]]

ReadMessage(c) == client[c].at = "read" /\ pipe[c] # <<>> /\ pipe' = [pipe EXCEPT ![c] = Tail(@)]
ThreadStays == UNCHANGED <<buffer, shown, last, users, texts, unpublished>>

(* didOpen and didChange; what is published is the message's text.          *)
Edit(c) == LET m == Head(pipe[c]) IN
    /\ ReadMessage(c) /\ m.kind \in {"didOpen", "didChange"}
    /\ documents' = [documents EXCEPT ![m.uri] = m.text]
    /\ Publishing(c, m, m.text, "message")
    /\ UNCHANGED isRunning /\ ThreadStays

(* didSave and applyFix; the latter answers "applied" and changes nothing.  *)
Refresh(c) == LET m == Head(pipe[c]) IN
    /\ ReadMessage(c) /\ m.kind \in {"didSave", "applyFix"}
    /\ IF m.text # Gone THEN Publishing(c, m, m.text, "message")
                        ELSE Publishing(c, m, documents[m.uri], "table")
    /\ UNCHANGED <<documents, isRunning>> /\ ThreadStays

(* Closing takes the document away from every client that has it.           *)
Forget(c) == LET m == Head(pipe[c]) IN
    /\ ReadMessage(c) /\ m.kind = "didClose"
    /\ documents' = [documents EXCEPT ![m.uri] = Gone]
    /\ UNCHANGED isRunning /\ Loop(c) /\ ThreadStays

Exit(c) == /\ ReadMessage(c) /\ Head(pipe[c]).kind = "exit"
           /\ isRunning' = FALSE /\ Loop(c)
           /\ UNCHANGED documents /\ ThreadStays

(* Mutant: the table is read after the lock was released.                   *)
PublishShared(c) ==
    /\ client[c].at = "publish"
    /\ LET p == client[c] IN
          /\ shown' = [shown EXCEPT ![c][p.uri] = documents[p.uri]]
          /\ last' = [last EXCEPT ![c][p.uri] = p.from]
    /\ UNCHANGED isRunning /\ Loop(c)
    /\ UNCHANGED <<documents, pipe, buffer, users, texts, unpublished>>

(* An analysis or a write that raises is logged and passed over.            *)
PublishDiagnostics(c) ==
    /\ client[c].at = "publish"
    /\ LET p == client[c] IN
       \/ /\ shown' = [shown EXCEPT ![c][p.uri] = p.text]
          /\ last' = [last EXCEPT ![c][p.uri] = p.from]
          /\ UNCHANGED unpublished
       \/ /\ unpublished < MaxUnpublished /\ unpublished' = unpublished + 1
          /\ last' = [last EXCEPT ![c][p.uri] = "failed"]
          /\ UNCHANGED shown
    /\ UNCHANGED isRunning /\ Loop(c)
    /\ UNCHANGED <<documents, pipe, buffer, users, texts>>

LspNext == \E c \in Editors :
    \/ \E u \in Uris : Type(c, u) \/ Ask(c, u) \/ Close(c, u)
    \/ Quit(c) \/ Edit(c) \/ Refresh(c) \/ Forget(c) \/ Exit(c) \/ PublishDiagnostics(c)
LspSpec == LspInit /\ [][LspNext]_lspVars

-----------------------------------------------------------------------------
LspTypeOK ==
    /\ documents \in [Uris -> Texts \union {Gone}]
    /\ isRunning \in BOOLEAN
    /\ client \in [Editors -> {Waiting, [at |-> "over"]} \union
                       [at : {"publish"}, uri : Uris, text : Texts \union {OnDisk}, from : {"message", "table"}]]
    /\ \A c \in Editors : \A k \in 1..Len(pipe[c]) :
           pipe[c][k] \in [kind : Kinds, uri : Uris, text : Texts \union {Gone}]
    /\ buffer \in [Editors -> [Uris -> Texts \union {Gone}]]
    /\ shown \in [Editors -> [Uris -> Texts \union {Gone}]]
    /\ last \in [Editors -> [Uris -> {"message", "table", "failed"}]]
    /\ users \in [Uris -> SUBSET Editors]
    /\ texts \in Nat /\ unpublished \in Nat

Quiet(c) == client[c] = Waiting /\ pipe[c] = <<>>

(* When its messages are handled, an editor shows diagnostics of the text   *)
(* in its window, unless the publication failed, or the server took the     *)
(* text from the table and another editor has used the document too.        *)
ShowsItsText == \A c \in Editors : \A u \in Uris :
    buffer[c][u] # Gone /\ Quiet(c) =>
        \/ shown[c][u] = buffer[c][u]
        \/ last[c][u] = "failed"
        \/ last[c][u] = "table" /\ users[u] # {c}
=============================================================================

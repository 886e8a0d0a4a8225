----------------------------- MODULE Directory -----------------------------
(***************************************************************************)
(* Requests for files and directories, and the download of a directory:    *)
(* archive_reply spawns a task that walks the directory and writes a       *)
(* compressed archive into the body of the response through a channel      *)
(* (src/directory_listing_download.rs), while entries come and go and the  *)
(* client reads, stalls or leaves.  A behaviour is one exchange.           *)
(*                                                                         *)
(* The channel is hyper's Body::channel: one chunk, a flag the body clears *)
(* when it is dropped ("want"), and a waker for each.  The body drops the  *)
(* flag first and its end of the channel second.                           *)
(***************************************************************************)
EXTENDS StaticPath

CONSTANTS Trees,        \* file systems to start with
          Requests,     \* what the client asks for
          OptionSets,   \* settings of the server
          Volatile,     \* paths that may come and go during a download
          MaxChanges    \* bound: entries added or removed during downloads

ASSUME DirectoryAssumption ==
    /\ \A t \in Trees : t \subseteq Paths /\ FileSystem(t)
    /\ OptionSets \subseteq Options /\ Volatile \subseteq Paths \ {Root}
    /\ Requests \subseteq [segments : Seq(STRING), slash : BOOLEAN, method : STRING,
                           download : BOOLEAN, gz : BOOLEAN]
    /\ MaxChanges \in Nat

VARIABLES tree,       \* the paths that exist
          opts,       \* the settings of the server
          changes,    \* ghost: number of changes
          stable,     \* ghost: the paths that exist since the download began
          client,     \* what the client is doing
          request,    \* its request
          reply,      \* the answer
          pc,         \* where the archive task is
          mode,       \* is it walking, finishing or giving up?
          frames,     \* its stack: for every directory the entries not yet visited
          entry,      \* the entry it works on
          buf,        \* what the encoder holds back
          slot,       \* the chunk in the channel, {} if there is none
          wantWaker,  \* is the task to be woken when the body is dropped,
          dataWaker,  \* ... when the chunk is taken?
          woken,      \* has it been woken since it last began to poll?
          received    \* what the client has received of the archive

task == <<pc, mode, frames, entry, buf>>
channel == <<slot, wantWaker, dataWaker, woken>>
vars == <<tree, opts, changes, stable, client, request, reply, task, channel, received>>

Entry(p, dir, link) == [path |-> p, dir |-> dir, link |-> link]

NoRequest == [segments |-> <<>>, slash |-> TRUE, method |-> "GET", download |-> FALSE, gz |-> FALSE]
NoEntry == Entry(Root, FALSE, FALSE)

\* An entry of the archive, and the checksum that ends it.
Item(p, kind) == [path |-> p, kind |-> kind]
Trailer == Item(<<>>, "trailer")

Init ==
    /\ tree \in Trees /\ opts \in OptionSets
    /\ changes = 0 /\ stable = {}
    /\ client = "idle" /\ request = NoRequest /\ reply = Error(0)
    /\ pc = "none" /\ mode = "walking" /\ frames = <<>> /\ entry = NoEntry /\ buf = {}
    /\ slot = {} /\ wantWaker = FALSE /\ dataWaker = FALSE /\ woken = FALSE
    /\ received = {}

Follow == ~opts.disableSymlinks

-----------------------------------------------------------------------------
\* static_files::handle; for a download archive_reply spawns the task, unless
\* the request is a HEAD.
Request(r) ==
    /\ client = "idle"
    /\ request' = r
    /\ reply' = Handle(tree, opts, r)
    /\ IF reply'.kind = "archive" /\ r.method # "HEAD"
       THEN /\ client' = "reading" /\ pc' = "walk"
            /\ frames' = <<{Entry(reply'.path, TRUE, FALSE)}>>
            /\ stable' = tree
       ELSE client' = "replied" /\ UNCHANGED <<pc, frames, stable>>
    /\ UNCHANGED <<tree, opts, changes, mode, entry, buf, channel, received>>

\* Entries come and go while a download is under way.
Change ==
    /\ client = "reading" /\ pc # "over" /\ changes < MaxChanges
    /\ changes' = changes + 1
    /\ \E p \in Volatile :
         tree' \in {t \in {tree \cup {p}, tree \ {p}} : t # tree /\ FileSystem(t)}
    /\ stable' = stable \cap tree'
    /\ UNCHANGED <<opts, client, request, reply, task, channel, received>>

-----------------------------------------------------------------------------
(* The walk: async fn archive.                                             *)

Walking == UNCHANGED <<tree, opts, changes, stable, client, request, reply, channel, received>>

\* An error ends the walk.  The builder finishes the archive as it is dropped
\* and may write what is left of it, but nothing adds the trailer.
GiveUp ==
    /\ mode' = "failing"
    /\ pc' \in IF mode = "failing" THEN {"over"} ELSE {"write", "over"}

\* stack.pop(); a link is looked through when links are followed.
Pop ==
    /\ pc = "walk" /\ frames # <<>>
    /\ \E e \in Last(frames) :
         /\ entry' = e
         /\ frames' = IF Last(frames) = {e} THEN Front(frames)
                      ELSE Append(Front(frames), Last(frames) \ {e})
         /\ pc' = IF e.dir \/ (e.link /\ Follow /\ IsDir(tree, e.path)) THEN "read" ELSE "file"
    /\ Walking /\ UNCHANGED <<mode, buf>>

\* Dotfiles are left out when they are ignored.
Admitted(name) == ~(opts.ignoreHidden /\ IsHiddenName(name))

\* The entries of a directory, each with its type.
EntriesOf(dir) ==
    {Entry(p, Lstat(tree, p) = "dir", Lstat(tree, p) = "link") :
        p \in {Append(dir, Last(q)) : q \in {c \in Children(tree, Real(tree, dir)) :
                                                  Admitted(Last(c))}}}

\* Mutant: a directory that cannot be read ends the loop, not the function.
ReadDirBreaks ==
    /\ pc = "read"
    /\ IF IsDir(tree, entry.path)
       THEN /\ frames' = IF EntriesOf(entry.path) = {} THEN frames
                         ELSE Append(frames, EntriesOf(entry.path))
            /\ pc' = "dir"
       ELSE frames' = <<>> /\ pc' = "walk"
    /\ Walking /\ UNCHANGED <<mode, entry, buf>>

\* fs::read_dir; its entries come in any order.
ReadDir ==
    /\ pc = "read"
    /\ IF IsDir(tree, entry.path)
       THEN /\ frames' = IF EntriesOf(entry.path) = {} THEN frames
                         ELSE Append(frames, EntriesOf(entry.path))
            /\ pc' = "dir" /\ UNCHANGED mode
       ELSE GiveUp /\ UNCHANGED frames
    /\ Walking /\ UNCHANGED <<entry, buf>>

\* The kind of thing an entry is stored as, Missing if it is gone by now.
StoredAs ==
    IF Follow \/ pc = "dir"
    THEN IF Exists(tree, entry.path) THEN Kind[Real(tree, entry.path)] ELSE Missing
    ELSE Lstat(tree, entry.path)

\* append_dir and append_path_with_name put the entry into the encoder, which
\* writes now or later.
AppendEntry ==
    /\ pc \in {"dir", "file"}
    /\ IF StoredAs # Missing
       THEN /\ buf' = buf \cup {Item(entry.path, StoredAs)}
            /\ pc' \in {"walk", "write"} /\ UNCHANGED mode
       ELSE GiveUp /\ UNCHANGED buf
    /\ Walking /\ UNCHANGED <<frames, entry>>

\* finish and shutdown: the rest of the archive and the trailer.
Finish ==
    /\ pc = "walk" /\ frames = <<>>
    /\ buf' = buf \cup {Trailer}
    /\ mode' = "finishing" /\ pc' = "write"
    /\ Walking /\ UNCHANGED <<frames, entry>>

-----------------------------------------------------------------------------
(* ChannelBuffer::poll_write                                               *)

WantClosed == client \in {"leaving", "gone"}
RxClosed   == client = "gone"

\* Mutant: a task that has to wait is not woken when the body is dropped.
PollReadyForgetsWant ==
    /\ pc = "write"
    /\ IF WantClosed \/ RxClosed THEN GiveUp /\ UNCHANGED dataWaker
       ELSE /\ pc' = IF slot = {} THEN "send" ELSE "asleep"
            /\ dataWaker' = (slot # {})
            /\ UNCHANGED mode
    /\ UNCHANGED <<tree, opts, changes, stable, client, request, reply, frames, entry, buf,
                   slot, wantWaker, woken, received>>

\* poll_ready registers the task for the flag, then looks at it, then waits for
\* room in the channel.
PollReady ==
    /\ pc = "write"
    /\ wantWaker' = TRUE
    /\ IF WantClosed \/ RxClosed THEN GiveUp /\ UNCHANGED dataWaker
       ELSE /\ pc' = IF slot = {} THEN "send" ELSE "asleep"
            /\ dataWaker' = (slot # {})
            /\ UNCHANGED mode
    /\ UNCHANGED <<tree, opts, changes, stable, client, request, reply, frames, entry, buf,
                   slot, woken, received>>

\* try_send_data; when it fails the task waits for what poll_ready registered.
TrySend ==
    /\ pc = "send"
    /\ IF RxClosed THEN pc' = "asleep" /\ UNCHANGED <<slot, buf>>
       ELSE /\ slot' = buf /\ buf' = {}
            /\ pc' = IF mode = "walking" THEN "walk" ELSE "over"
    /\ UNCHANGED <<tree, opts, changes, stable, client, request, reply, mode, frames, entry,
                   wantWaker, dataWaker, woken, received>>

\* The executor polls a task that was woken.
Resume ==
    /\ pc = "asleep" /\ woken
    /\ pc' = "write" /\ woken' = FALSE
    /\ UNCHANGED <<tree, opts, changes, stable, client, request, reply, mode, frames, entry, buf,
                   slot, wantWaker, dataWaker, received>>

-----------------------------------------------------------------------------
(* The body of the response, on the side of the connection.                *)

\* The chunk is sent on to the client.
Take ==
    /\ client = "reading" /\ slot # {}
    /\ received' = received \cup slot
    /\ slot' = {}
    /\ woken' = (woken \/ dataWaker) /\ dataWaker' = FALSE
    /\ UNCHANGED <<tree, opts, changes, stable, client, request, reply, task, wantWaker>>

\* The sender is gone and the channel empty: an orderly end of the body.
EndOfBody ==
    /\ client = "reading" /\ slot = {} /\ pc = "over"
    /\ client' = "ended"
    /\ UNCHANGED <<tree, opts, changes, stable, request, reply, task, channel, received>>

\* The connection is closed and the body dropped, the flag first.
DropWant ==
    /\ client = "reading"
    /\ client' = "leaving"
    /\ woken' = (woken \/ wantWaker) /\ wantWaker' = FALSE
    /\ UNCHANGED <<tree, opts, changes, stable, request, reply, task, slot, dataWaker, received>>

DropRx ==
    /\ client = "leaving"
    /\ client' = "gone"
    /\ woken' = (woken \/ dataWaker) /\ dataWaker' = FALSE /\ slot' = {}
    /\ UNCHANGED <<tree, opts, changes, stable, request, reply, task, wantWaker, received>>

Task == Pop \/ ReadDir \/ AppendEntry \/ Finish \/ PollReady \/ TrySend \/ Resume

Next == \/ \E r \in Requests : Request(r)
        \/ Change \/ Task \/ Take \/ EndOfBody \/ DropWant \/ DropRx

Spec == Init /\ [][Next]_vars

\* The executor runs the task and the drop of a body runs to its end.  Nothing
\* makes a client read.
FairSpec == Spec /\ WF_vars(Task) /\ WF_vars(DropRx)

-----------------------------------------------------------------------------
\* The request a browser makes for a link on the page of a request.
Browse(r, href, slash) ==
    [r EXCEPT !.segments = (IF r.slash \/ r.segments = <<>> THEN r.segments
                            ELSE Front(r.segments)) \o href,
              !.slash = slash, !.gz = FALSE]

\* A listing and the server agree: the links of a listing lead to entries that
\* are served, and an entry it leaves out (hidden, a link that may not be
\* followed or leads nowhere or outside) is refused when asked for by name,
\* unless its name with .html stands in for it.  (Of a server that looks for
\* index.html first only a directory of that name is ever listed.)
ListingAgrees ==
    reply.kind = "listing" /\ ".." \notin Range(request.segments) /\ ~Pushed(opts, request) =>
        \A p \in Children(tree, Real(tree, reply.path)) :
            LET path   == Append(reply.path, Last(p))
                answer == Handle(tree, opts, Browse(request, Href(request, Last(p)),
                                                    IsDir(tree, path)))
            IN  /\ Last(p) \in Listed(tree, opts, reply.path) => answer.status \notin {403, 404}
                /\ Last(p) \notin Listed(tree, opts, reply.path)
                     /\ ~Exists(tree, WithSuffix(path, ".html"))
                     => answer.status \in {403, 404}

\* "Files are checked in the specified order from left to right"
\* (docs/content/features/multiple-index-files.md): what is sent for a directory
\* is the first index file in it, and a listing only without any, unless a file
\* with the directory's name and .html comes first.  With the memory cache and
\* redirected slashes "we only support a default auto index" (handle): then it
\* is index.html, or index.html.html in its place, wherever the configured list
\* has it, unless index.html is a directory.
IndexInOrder ==
    LET dir  == Sanitize(request.segments)
        auto == Append(dir, AutoIndex)
        hits == {i \in DOMAIN IndexFiles : Exists(tree, Append(dir, IndexFiles[i]))}
    IN  /\ client = "replied" /\ reply.status = 200 /\ ~request.gz /\ IsDir(tree, dir)
        => IF Pushed(opts, request)
           THEN ~IsDir(tree, auto) =>
                   /\ reply.kind = "file"
                   /\ reply.path = IF Exists(tree, auto) THEN auto ELSE WithSuffix(auto, ".html")
           ELSE ~Exists(tree, WithSuffix(dir, ".html")) =>
                   IF hits = {} THEN reply.kind \in {"listing", "archive"}
                   ELSE reply.path =
                          Append(dir, IndexFiles[CHOOSE i \in hits : \A j \in hits : i <= j])

\* An archive that ends with its trailer is complete: it holds the directory
\* and, of every directory in it, every admitted entry that was there all along.
\* And no archive holds a hidden entry, or what is behind a link, when the
\* settings say so.
ArchiveFaithful ==
    LET stored == {i.path : i \in received} IN
    /\ Trailer \in received =>
          /\ reply.path \in stored
          /\ \A i \in received : i.kind = "dir" /\ Exists(stable, i.path) =>
                \A p \in Children(stable, Real(stable, i.path)) :
                    Admitted(Last(p)) => Append(i.path, Last(p)) \in stored
    /\ \A i \in received \ {Trailer} :
          /\ \A k \in Len(reply.path) + 1 .. Len(i.path) : Admitted(i.path[k])
          /\ opts.disableSymlinks => i.path \in Paths /\ i.kind = Kind[i.path]

\* Once its client is gone, the archive task ends: it does not wait for ever for
\* room in a channel nobody reads.
TaskEnds == client = "gone" ~> pc = "over"
=============================================================================

----------------------------- MODULE HttpClient -----------------------------
(***************************************************************************)
(* huestream::HttpClient over support::HttpRequest and CurlHttpClient.     *)
(*                                                                         *)
(* A request is executed for a thread of the application, is transferred   *)
(* by the thread of CurlHttpClient, and is answered by callbacks that run  *)
(* one at a time on the global dispatcher's queue.  Its HttpRequest is     *)
(* deleted by the thread that took it off _active_requests: the one that   *)
(* cancels it, the one that destructs the client, or the thread of         *)
(* delete_later, to which the last callback hands it.                      *)
(*                                                                         *)
(* Of the queue this module keeps what TicketQueue promises: the callbacks *)
(* run in order, and a callback that waits for others runs the ones that   *)
(* are queued meanwhile.  As in the module OperationalQueue every thread   *)
(* has a stack of frames, one for each call it is in.                      *)
(*                                                                         *)
(* A callback never cancels the request it belongs to, and waits for no    *)
(* request: the callbacks in this library do neither.                      *)
(***************************************************************************)
EXTENDS Naturals, FiniteSets, SequencesExt

CONSTANTS
    Requests,      \* each is executed at most once
    Eventing,      \* those that accept text/event-stream
    Cancelling,    \* those with callbacks that cancel other requests
    Clients,       \* threads of the application
    Dispatcher,    \* the thread that processes the dispatcher's queue
    Deleter,       \* the thread that processes the queue of delete_later
    NoRequest,
    MaxEvents      \* bound: parts of event streams that arrive

ASSUME RequestAssumption == Eventing \subseteq Requests /\ Cancelling \subseteq Requests
ASSUME NoRequestAssumption == NoRequest \notin Requests
ASSUME EventsAssumption == MaxEvents \in Nat
ASSUME ThreadAssumption == Dispatcher # Deleter /\ Clients \cap {Dispatcher, Deleter} = {}

Threads == Clients \cup {Dispatcher, Deleter}

VARIABLES
    active_requests,    \* HttpClient::Data::_active_requests
    is_shutdown,        \* HttpClient::Data::_is_shutdown
    ready,              \* the requests whose HttpRequestInfo::_isReady is set
    object,             \* the HttpRequest of each request, with its CurlRequest
    messages,           \* CurlHttpClient::_queue
    multi,              \* the requests in the multi handle
    curl,               \* the request whose response the curl thread has posted,
                        \* before it says so
    is_complete,        \* the requests with CurlRequest::_is_complete set
    callback_posted,    \* ... and with CurlRequest::_callback_posted set
    dispatch,           \* the callbacks queued at the dispatcher
    later,              \* the requests queued by delete_later
    frames,             \* the calls each thread is in
    answers,            \* history: how often the last callback of a request was called
    destroyed,          \* history: the destructor has returned
    events              \* history: the parts counted by MaxEvents

clientVars == <<active_requests, is_shutdown, ready, object>>
curlVars == <<messages, multi, curl, is_complete, callback_posted>>
history == <<answers, destroyed, events>>

vars == <<clientVars, curlVars, dispatch, later, frames, history>>

(***************************************************************************)
(* Frames.                                                                 *)
(*   "emplace"   ExecuteAsync, with the mutex, after do_request            *)
(*   "ready"     Execute, in WaitUntilReady                                *)
(*   "stop"      cancel, about to send STOP_REQUEST                        *)
(*   "complete"  stop_request, waiting for the curl thread                 *)
(*   "drain"     stop_request, waiting for the callbacks, to delete then   *)
(*   "swap"      the destructor, at the head of its loop                   *)
(*   "cancel"    the destructor, with requests left to cancel              *)
(*   "callback", "user", "erase"  the lambda of ExecuteAsync: at its start,*)
(*               in the user's callback, about to look for the request     *)
(***************************************************************************)
Kinds == {"success", "failed", "canceled", "event"}

At(pc, r) == [at |-> pc, req |-> r, kind |-> "none", left |-> {}]
Callback(pc, m) == [at |-> pc, req |-> m.req, kind |-> m.kind, left |-> {}]
CancelAll(left) == [at |-> "cancel", req |-> NoRequest, kind |-> "none", left |-> left]

Places == {"emplace", "ready", "stop", "complete", "drain", "swap", "cancel",
           "callback", "user", "erase"}

Frame == [at : Places, req : Requests \cup {NoRequest}, kind : Kinds \cup {"none"},
          left : SUBSET Requests]

Top(th) == Last(frames[th])
In(th, pc) == frames[th] # <<>> /\ Top(th).at = pc
Becomes(th, fs) == frames' = [frames EXCEPT ![th] = fs]
GoesTo(th, f) == Becomes(th, Append(Front(frames[th]), f))
Returns(th) == Becomes(th, Front(frames[th]))
Enters(th, f) == Becomes(th, Append(frames[th], f))

MutexFree == \A th \in Threads : ~In(th, "emplace")

\* Who may call the client: the application, until it destructs the client,
\* and a user's callback.
Destructing == \E c \in Clients : frames[c] # <<>> /\ frames[c][1].at \in {"swap", "cancel"}
MayCall(th) ==
    \/ In(th, "user")
    \/ th \in Clients /\ frames[th] = <<>> /\ ~Destructing /\ ~is_shutdown

Init ==
    /\ active_requests = {} /\ is_shutdown = FALSE /\ ready = {}
    /\ object = [r \in Requests |-> "none"]
    /\ messages = <<>> /\ multi = {}
    /\ curl = [req |-> NoRequest, stopped |-> FALSE]
    /\ is_complete = {} /\ callback_posted = {}
    /\ dispatch = <<>> /\ later = <<>>
    /\ frames = [th \in Threads |-> <<>>]
    /\ answers = [r \in Requests |-> 0] /\ destroyed = FALSE /\ events = 0

-----------------------------------------------------------------------------
(* Calls of the client *)

\* ExecuteAsync up to do_request, which sends START_REQUEST: from here the
\* transfer, and a callback, may go on before the request is listed.
Started(th, r, fs) ==
    /\ MayCall(th)
    /\ MutexFree
    /\ ~is_shutdown
    /\ object[r] = "none"
    /\ object' = [object EXCEPT ![r] = "alive"]
    /\ messages' = Append(messages, [type |-> "START", req |-> r])
    /\ Becomes(th, frames[th] \o fs)
    /\ UNCHANGED <<active_requests, is_shutdown, ready, multi, curl, is_complete,
                   callback_posted, dispatch, later, history>>

ExecuteAsync(th, r) == Started(th, r, <<At("emplace", r)>>)

\* Execute: only for requests that end by themselves.
Execute(c, r) ==
    /\ r \notin Eventing
    /\ Started(c, r, <<At("ready", r), At("emplace", r)>>)

Emplace(th) ==
    /\ In(th, "emplace")
    /\ active_requests' = active_requests \cup {Top(th).req}
    /\ Returns(th)
    /\ UNCHANGED <<is_shutdown, ready, object, curlVars, dispatch, later, history>>

WaitUntilReady(th) ==
    /\ In(th, "ready")
    /\ Top(th).req \in ready
    /\ Returns(th)
    /\ UNCHANGED <<clientVars, curlVars, dispatch, later, history>>

\* CancelAsyncRequest, when it finds the request; it does nothing otherwise.
CancelAsyncRequest(th, r) ==
    /\ MayCall(th)
    /\ MutexFree
    /\ th = Dispatcher => Top(th).req \in Cancelling
    /\ r \in active_requests
    /\ \A i \in DOMAIN frames[th] : frames[th][i].req # r
    /\ active_requests' = active_requests \ {r}
    /\ Enters(th, At("stop", r))
    /\ UNCHANGED <<is_shutdown, ready, object, curlVars, dispatch, later, history>>

-----------------------------------------------------------------------------
(* HttpRequest::cancel and the deletion that follows it *)

StopRequest(th) ==
    /\ In(th, "stop")
    /\ messages' = Append(messages, [type |-> "STOP", req |-> Top(th).req])
    /\ GoesTo(th, At("complete", Top(th).req))
    /\ UNCHANGED <<clientVars, multi, curl, is_complete, callback_posted, dispatch, later,
                   history>>

WaitForCompletion(th) ==
    /\ In(th, "complete")
    /\ Top(th).req \in is_complete \cap callback_posted
    /\ GoesTo(th, At("drain", Top(th).req))
    /\ UNCHANGED <<clientVars, curlVars, dispatch, later, history>>

Queued(r) == \E i \in DOMAIN dispatch : dispatch[i].req = r
CallbackRuns(r) ==
    \E i \in DOMAIN frames[Dispatcher] :
        LET f == frames[Dispatcher][i]
        IN f.req = r /\ f.at \in {"callback", "user", "erase"}

\* CurlRequest's dispatcher.shutdown: its callbacks are over, except those
\* that this thread is itself in.
Drained(th, r) == ~Queued(r) /\ (th = Dispatcher \/ ~CallbackRuns(r))

DeleteRequest(th) ==
    /\ In(th, "drain")
    /\ Drained(th, Top(th).req)
    /\ object' = [object EXCEPT ![Top(th).req] = "deleted"]
    /\ Returns(th)
    /\ UNCHANGED <<active_requests, is_shutdown, ready, curlVars, dispatch, later, history>>

DeleteLater ==
    /\ frames[Deleter] = <<>>
    /\ later # <<>>
    /\ later' = Tail(later)
    /\ Enters(Deleter, At("stop", Head(later)))
    /\ UNCHANGED <<clientVars, curlVars, dispatch, history>>

-----------------------------------------------------------------------------
(* The destructor.  Nobody else is in a call of the client then, but       *)
(* callbacks may still run, and call it.                                   *)

Destruct(c) ==
    /\ \A d \in Clients : frames[d] = <<>>
    /\ ~is_shutdown
    /\ Enters(c, At("swap", NoRequest))
    /\ UNCHANGED <<clientVars, curlVars, dispatch, later, history>>

Swap(c) ==
    /\ In(c, "swap")
    /\ MutexFree
    /\ is_shutdown' = TRUE
    /\ active_requests' = {}
    /\ IF active_requests = {} THEN Returns(c) /\ destroyed' = TRUE
       ELSE GoesTo(c, CancelAll(active_requests)) /\ UNCHANGED destroyed
    /\ UNCHANGED <<ready, object, curlVars, dispatch, later, answers, events>>

\* Mutant: the requests are left to delete_later.
BugCancelNext(c) ==
    /\ In(c, "cancel")
    /\ IF Top(c).left = {} THEN GoesTo(c, At("swap", NoRequest)) /\ UNCHANGED later
       ELSE \E r \in Top(c).left :
            /\ later' = Append(later, r)
            /\ GoesTo(c, CancelAll(Top(c).left \ {r}))
    /\ UNCHANGED <<clientVars, curlVars, dispatch, history>>

CancelNext(c) ==
    /\ In(c, "cancel")
    /\ IF Top(c).left = {} THEN GoesTo(c, At("swap", NoRequest))
       ELSE \E r \in Top(c).left :
            Becomes(c, Front(frames[c]) \o <<CancelAll(Top(c).left \ {r}), At("stop", r)>>)
    /\ UNCHANGED <<clientVars, curlVars, dispatch, later, history>>

-----------------------------------------------------------------------------
(* The dispatcher's thread *)

\* A queued callback begins, also below a callback that waits for others.
CallbackBegins ==
    /\ dispatch # <<>>
    /\ frames[Dispatcher] = <<>> \/ (In(Dispatcher, "drain") /\ Queued(Top(Dispatcher).req))
    /\ dispatch' = Tail(dispatch)
    /\ Enters(Dispatcher, Callback("callback", Head(dispatch)))
    /\ UNCHANGED <<clientVars, curlVars, later, history>>

\* The lambda: nobody is told anything once the client is shut down.
CallUser ==
    /\ In(Dispatcher, "callback")
    /\ LET f == Top(Dispatcher)
       IN IF is_shutdown THEN Returns(Dispatcher) /\ UNCHANGED answers
          ELSE /\ GoesTo(Dispatcher, Callback("user", f))
               /\ answers' = [answers EXCEPT ![f.req] = @ + (IF f.kind = "event" THEN 0 ELSE 1)]
    /\ UNCHANGED <<clientVars, curlVars, dispatch, later, destroyed, events>>

\* FinishRequest, unless an event stream goes on; the request of a cancelled
\* one is left to the thread that cancels it.
UserReturns ==
    /\ In(Dispatcher, "user")
    /\ LET f == Top(Dispatcher)
           ends == f.kind = "failed" \/ (f.kind = "success" /\ f.req \notin Eventing)
       IN /\ ready' = IF ends \/ f.kind = "canceled" THEN ready \cup {f.req} ELSE ready
          /\ IF ends THEN GoesTo(Dispatcher, Callback("erase", f)) ELSE Returns(Dispatcher)
    /\ UNCHANGED <<active_requests, is_shutdown, object, curlVars, dispatch, later, history>>

\* Mutant: whether somebody else has taken the request is not looked at.
BugErase ==
    /\ In(Dispatcher, "erase")
    /\ MutexFree
    /\ active_requests' = active_requests \ {Top(Dispatcher).req}
    /\ later' = Append(later, Top(Dispatcher).req)
    /\ Returns(Dispatcher)
    /\ UNCHANGED <<is_shutdown, ready, object, curlVars, dispatch, history>>

Erase ==
    /\ In(Dispatcher, "erase")
    /\ MutexFree
    /\ LET r == Top(Dispatcher).req
       IN /\ active_requests' = active_requests \ {r}
          /\ later' = IF r \in active_requests THEN Append(later, r) ELSE later
    /\ Returns(Dispatcher)
    /\ UNCHANGED <<is_shutdown, ready, object, curlVars, dispatch, history>>

-----------------------------------------------------------------------------
(* The thread of CurlHttpClient *)

CurlFree == curl.req = NoRequest

\* send_response, up to the post.
SendResponse(r, kind, stopped) ==
    /\ multi' = multi \ {r}
    /\ dispatch' = Append(dispatch, [req |-> r, kind |-> kind])
    /\ curl' = [req |-> r, stopped |-> stopped]

StartMessage ==
    /\ CurlFree
    /\ messages # <<>>
    /\ Head(messages).type = "START"
    /\ messages' = Tail(messages)
    /\ multi' = multi \cup {Head(messages).req}
    /\ UNCHANGED <<clientVars, curl, is_complete, callback_posted, dispatch, later, frames,
                   history>>

\* Mutant: the response is sent whether the handle still exists or not.
BugStopMessage ==
    /\ CurlFree
    /\ messages # <<>>
    /\ Head(messages).type = "STOP"
    /\ messages' = Tail(messages)
    /\ SendResponse(Head(messages).req, "canceled", TRUE)
    /\ UNCHANGED <<clientVars, is_complete, callback_posted, later, frames, history>>

\* Mutant: a request that has ended is not set as complete.
BugStopForgets ==
    /\ CurlFree
    /\ messages # <<>>
    /\ Head(messages).type = "STOP"
    /\ messages' = Tail(messages)
    /\ IF Head(messages).req \in multi THEN SendResponse(Head(messages).req, "canceled", TRUE)
       ELSE UNCHANGED <<multi, dispatch, curl>>
    /\ UNCHANGED <<clientVars, is_complete, callback_posted, later, frames, history>>

\* STOP_REQUEST: a request that has ended already is only set as complete.
StopMessage ==
    /\ CurlFree
    /\ messages # <<>>
    /\ Head(messages).type = "STOP"
    /\ messages' = Tail(messages)
    /\ LET r == Head(messages).req
       IN \/ r \in multi /\ SendResponse(r, "canceled", TRUE) /\ UNCHANGED is_complete
          \/ /\ r \notin multi
             /\ is_complete' = is_complete \cup {r}
             /\ UNCHANGED <<multi, dispatch, curl>>
    /\ UNCHANGED <<clientVars, callback_posted, later, frames, history>>

\* The end of send_response, and set_as_complete after it.
ResponseSent ==
    /\ ~CurlFree
    /\ callback_posted' = callback_posted \cup {curl.req}
    /\ is_complete' = IF curl.stopped THEN is_complete \cup {curl.req} ELSE is_complete
    /\ curl' = [req |-> NoRequest, stopped |-> FALSE]
    /\ UNCHANGED <<clientVars, messages, multi, dispatch, later, frames, history>>

\* curl_multi_info_read reports the end of a transfer, or its failure.
TransferEnds(r) ==
    /\ CurlFree
    /\ r \in multi
    /\ \E kind \in {"success", "failed"} : SendResponse(r, kind, FALSE)
    /\ UNCHANGED <<clientVars, messages, is_complete, callback_posted, later, frames, history>>

\* write_callback of an event stream: send_stream_response.
StreamContinues(r) ==
    /\ CurlFree
    /\ r \in multi \cap Eventing
    /\ events < MaxEvents
    /\ events' = events + 1
    /\ dispatch' = Append(dispatch, [req |-> r, kind |-> "event"])
    /\ UNCHANGED <<clientVars, curlVars, later, frames, answers, destroyed>>

-----------------------------------------------------------------------------
Step(th) ==
    \/ Emplace(th)
    \/ WaitUntilReady(th)
    \/ StopRequest(th)
    \/ WaitForCompletion(th)
    \/ DeleteRequest(th)
    \/ th = Deleter /\ DeleteLater
    \/ th \in Clients /\ (Swap(th) \/ CancelNext(th))
    \/ th = Dispatcher /\ (CallbackBegins \/ CallUser \/ UserReturns \/ Erase)

Call(th) ==
    \/ \E r \in Requests : \/ ExecuteAsync(th, r)
                           \/ CancelAsyncRequest(th, r)
                           \/ th \in Clients /\ Execute(th, r)
    \/ th \in Clients /\ Destruct(th)

CurlStep == StartMessage \/ StopMessage \/ ResponseSent

Next ==
    \/ \E th \in Threads : Step(th) \/ Call(th)
    \/ CurlStep
    \/ \E r \in Requests : TransferEnds(r) \/ StreamContinues(r)

Spec == Init /\ [][Next]_vars

\* Every thread that can go on does, a user's callback returns, and a transfer
\* ends, by its timeout at the latest, unless it is an event stream.
FairSpec ==
    /\ Spec
    /\ \A th \in Threads : WF_vars(Step(th))
    /\ WF_vars(CurlStep)
    /\ \A r \in Requests \ Eventing : WF_vars(TransferEnds(r))

-----------------------------------------------------------------------------
(* Properties *)

\* The types; no message is sent twice.
TypeOK ==
    /\ active_requests \cup ready \cup multi \cup is_complete \cup callback_posted
           \subseteq {r \in Requests : object[r] # "none"}
    /\ {is_shutdown, destroyed} \subseteq BOOLEAN
    /\ object \in [Requests -> {"none", "alive", "deleted"}]
    /\ messages \in Seq([type : {"START", "STOP"}, req : Requests]) /\ IsInjective(messages)
    /\ curl \in [req : Requests \cup {NoRequest}, stopped : BOOLEAN]
    /\ dispatch \in Seq([req : Requests, kind : Kinds])
    /\ later \in Seq(Requests)
    /\ frames \in [Threads -> Seq(Frame)]
    /\ answers \in [Requests -> Nat]
    /\ events \in 0 .. MaxEvents

\* Who will delete the HttpRequest of r: the list has it, the queue of
\* delete_later, or a thread that deletes it or is about to list it.
Owns(f, r) ==
    \/ f.req = r /\ f.at \in {"emplace", "stop", "complete", "drain"}
    \/ r \in f.left

Positions == UNION {{<<th, i>> : i \in DOMAIN frames[th]} : th \in Threads}

Owners(r) ==
    {<<"list", Deleter, 0>> : x \in active_requests \cap {r}}
    \cup {<<"later", Deleter, i>> : i \in {j \in DOMAIN later : later[j] = r}}
    \cup {<<"frame", p[1], p[2]>> : p \in {q \in Positions : Owns(frames[q[1]][q[2]], r)}}

(***************************************************************************)
(* The HttpRequest of a request is deleted once and not forgotten: exactly *)
(* one thread, list or queue is in charge of it, although the last         *)
(* callback, CancelAsyncRequest and the destructor each take it.           *)
(***************************************************************************)
OneOwner ==
    \A r \in Requests :
        /\ object[r] = "alive" <=> Owners(r) # {}
        /\ \A p, q \in Owners(r) : p = q

(***************************************************************************)
(* Nothing refers to a deleted CurlRequest: no callback of it, which would *)
(* read its _error, its _response and the captures of the lambda, is       *)
(* queued or running, and the curl thread has no message, handle or        *)
(* promise of it left.  In particular no callback comes after              *)
(* CancelAsyncRequest or the destructor has returned.                      *)
(***************************************************************************)
NoUseAfterDelete ==
    \A r \in Requests : object[r] = "deleted" =>
        /\ ~Queued(r) /\ ~CallbackRuns(r)
        /\ r \notin multi /\ curl.req # r
        /\ \A i \in DOMAIN messages : messages[i].req # r

\* The life of a request's objects: deleted once, and not used after that; the
\* types.
RequestLivesOnce == TypeOK /\ OneOwner /\ NoUseAfterDelete

(***************************************************************************)
(* Who executes a request gets one last callback, whether it ends, fails,  *)
(* is cancelled while it ends, or is cancelled twice: not more, and, unless*)
(* the client is destructed, not fewer by the time it is deleted.          *)
(***************************************************************************)
OneAnswer ==
    \A r \in Requests :
        /\ answers[r] <= 1
        /\ object[r] = "deleted" /\ ~is_shutdown => answers[r] = 1

(***************************************************************************)
(* When the destructor has returned no callback of a user runs, and none   *)
(* is queued, unless the dispatcher's thread is in a callback of an event  *)
(* stream that cancels other requests: the end of the stream can be told   *)
(* within such a callback, and the destructor does not know then that it   *)
(* still runs, nor that it waits for the callbacks of another request.     *)
(***************************************************************************)
DestroyedIsQuiet ==
    destroyed =>
        \/ frames[Dispatcher] = <<>> /\ dispatch = <<>>
        \/ /\ frames[Dispatcher] # <<>>
           /\ frames[Dispatcher][1].req \in Eventing \cap Cancelling

\* "Execute" returns, also when the request is cancelled meanwhile.
ExecuteReturns ==
    \A c \in Clients : In(c, "ready") ~> ~In(c, "ready")

(***************************************************************************)
(* CancelAsyncRequest and the destructor return: the callbacks they wait   *)
(* for, the thread that runs them and the curl thread do not wait for them.*)
(***************************************************************************)
CancelReturns ==
    \A c \in Clients :
        frames[c] # <<>> /\ frames[c][1].at \in {"stop", "complete", "drain", "swap", "cancel"}
            ~> frames[c] = <<>>

\* No call of the client waits for ever.
CallsReturn == ExecuteReturns /\ CancelReturns

=============================================================================

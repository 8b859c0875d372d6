------------------------------- MODULE MyList -------------------------------
(***************************************************************************)
(* My List on the phone (mobile/src/store/mylist.ts): a store that shows   *)
(* an edit at once and writes the whole list, one write at a time, against *)
(* the server, which replaces the account's rows by it.  The store is      *)
(* global: it outlives the screens that show it and the account.  A list   *)
(* is the set of its titles.  Nobody else edits the lists.                 *)
(***************************************************************************)
EXTENDS Naturals

CONSTANTS
    Account, Title,
    None,       \* no account
    Own,        \* [Account -> titles that its viewer saves]
    Patient,    \* the viewer edits no list that is on its way; the screens let him
    MaxSent     \* bound: requests

Id == 1..MaxSent

VARIABLES
    list,       \* [Account -> the server's list]
    user,       \* the account that is signed in, whose cookie requests carry
    mounted,    \* a screen that shows the list is mounted
    scope, hydrated, loading, syncing, dirty, items,    \* the store
    sent,       \* requests made
    request,    \* [Id -> request]
    failed      \* history: some request has failed

flags == <<hydrated, loading, syncing, dirty>>
store == <<scope, flags, items>>
wire == <<sent, request>>
vars == <<list, user, mounted, store, wire, failed>>

NoRequest == [kind |-> "get", scope |-> None, by |-> None, titles |-> {}, at |-> "none"]
At(i, kind, places) == request[i].kind = kind /\ request[i].at \in places
Goes(i, at) == [request EXCEPT ![i].at = at]

(* A request for the account a of the store, after the requests are req:   *)
(* it carries the cookie of the account that is signed in then.            *)
Send(req, kind, a, by, titles) ==
    /\ sent < MaxSent /\ sent' = sent + 1
    /\ request' = [req EXCEPT ![sent'] =
           [kind |-> kind, scope |-> a, by |-> by, titles |-> titles, at |-> "sent"]]

loadList(req, a, by) == Send(req, "get", a, by, {})

(* Writes the list, or leaves it to the write that is under way. *)
scheduleSync(req, a) ==
    IF syncing
    THEN dirty' = TRUE /\ request' = req /\ UNCHANGED <<syncing, sent>>
    ELSE syncing' = TRUE /\ dirty' = FALSE /\ Send(req, "put", a, user, items')

hydrate(req, a) ==
    IF scope = a /\ (hydrated \/ loading)
    THEN request' = req /\ UNCHANGED <<store, sent>>
    ELSE /\ scope' = a /\ items' = {}
         /\ syncing' = FALSE /\ dirty' = FALSE
         /\ hydrated' = (a = None) /\ loading' = (a # None)
         /\ IF a = None THEN request' = req /\ UNCHANGED sent ELSE loadList(req, a, a)

-----------------------------------------------------------------------------
(* The screens and the account.                                            *)

(* The effect of a mounted screen follows the account. *)
Follow(req, a) ==
    IF mounted THEN hydrate(req, a) ELSE request' = req /\ UNCHANGED <<store, sent>>

Mount ==
    /\ ~mounted /\ mounted' = TRUE
    /\ hydrate(request, user)
    /\ UNCHANGED <<list, user, failed>>

Unmount == mounted /\ mounted' = FALSE /\ UNCHANGED <<list, user, store, wire, failed>>

SignIn(a) ==
    /\ user = None /\ user' = a
    /\ Follow(request, a)
    /\ UNCHANGED <<list, mounted, failed>>

(* By the viewer, or by an answer 401.  What arrives after the end of its  *)
(* session is refused; the request that ends the session may itself fail.  *)
SignOut ==
    /\ user # None /\ user' = None
    /\ \/ failed' = TRUE /\ Follow(request, None)
       \/ /\ UNCHANGED failed
          /\ Follow([i \in Id |-> IF request[i].at = "sent" THEN [request[i] EXCEPT !.at = "refused"]
                                 ELSE IF request[i].at = "late" THEN [request[i] EXCEPT !.at = "over"]
                                 ELSE request[i]], None)
    /\ UNCHANGED <<list, mounted>>

(* The button is disabled while nobody is signed in, and only then. *)
toggle(t) ==
    /\ mounted /\ user # None /\ scope # None /\ t \in Own[user]
    /\ Patient => hydrated /\ \A i \in Id : ~At(i, "get", {"sent", "answered", "refused"})
    /\ items' = IF t \in items THEN items \ {t} ELSE items \cup {t}
    /\ scheduleSync(request, scope)
    /\ UNCHANGED <<list, user, mounted, scope, hydrated, loading, failed>>

-----------------------------------------------------------------------------
(* The answers.                                                            *)

GetAnswered(i) ==
    /\ At(i, "get", {"answered"})
    /\ request' = Goes(i, "over")
    /\ IF scope = request[i].scope
       THEN items' = request[i].titles /\ hydrated' = TRUE /\ loading' = FALSE
       ELSE UNCHANGED <<items, hydrated, loading>>
    /\ UNCHANGED <<list, user, mounted, scope, syncing, dirty, sent, failed>>

(* A refusal, or the timeout of 12 s. *)
GetFails(i) ==
    /\ At(i, "get", {"sent", "answered", "refused"})
    /\ request' = Goes(i, "over") /\ failed' = TRUE
    /\ IF scope = request[i].scope
       THEN hydrated' = TRUE /\ loading' = FALSE
       ELSE UNCHANGED <<hydrated, loading>>
    /\ UNCHANGED <<list, user, mounted, scope, syncing, dirty, items, sent>>

(* Edits that were made meanwhile are written now. *)
PutAnswered(i) ==
    /\ At(i, "put", {"answered"})
    /\ IF scope = request[i].scope /\ dirty
       THEN dirty' = FALSE /\ UNCHANGED syncing
            /\ Send(Goes(i, "over"), "put", scope, user, items)
       ELSE /\ syncing' = FALSE /\ dirty' = FALSE
            /\ request' = Goes(i, "over") /\ UNCHANGED sent
    /\ UNCHANGED <<list, user, mounted, scope, hydrated, loading, items, failed>>

(* A refusal, or the timeout of 15 s, after which it may still arrive. *)
PutFails(i) ==
    /\ At(i, "put", {"sent", "answered", "refused"})
    /\ failed' = TRUE /\ syncing' = FALSE /\ dirty' = FALSE
    /\ LET req == Goes(i, IF request[i].at = "sent" THEN "late" ELSE "over") IN
         IF scope = request[i].scope
         THEN loadList(req, scope, user)
         ELSE request' = req /\ UNCHANGED sent
    /\ UNCHANGED <<list, user, mounted, scope, hydrated, loading, items>>

-----------------------------------------------------------------------------
(* The server: get_user_my_list, replace_user_my_list.                     *)

ServeGet(i) ==
    /\ At(i, "get", {"sent"}) /\ request[i].by # None
    /\ request' = [request EXCEPT ![i].at = "answered", ![i].titles = list[request[i].by]]
    /\ UNCHANGED <<list, user, mounted, store, sent, failed>>

ServePut(i) ==
    /\ At(i, "put", {"sent", "late"}) /\ request[i].by # None
    /\ list' = [list EXCEPT ![request[i].by] = request[i].titles]
    /\ request' = Goes(i, IF request[i].at = "late" THEN "over" ELSE "answered")
    /\ UNCHANGED <<user, mounted, store, sent, failed>>

(* No session, more than 100 titles, an error. *)
Refuse(i) ==
    /\ request[i].at = "sent"
    /\ request' = Goes(i, "refused")
    /\ UNCHANGED <<list, user, mounted, store, sent, failed>>

Init ==
    /\ list \in [Account -> SUBSET Title] /\ \A a \in Account : list[a] \subseteq Own[a]
    /\ user \in Account \cup {None} /\ mounted = FALSE
    /\ scope = None /\ hydrated = FALSE /\ loading = FALSE /\ syncing = FALSE
    /\ dirty = FALSE /\ items = {}
    /\ sent = 0 /\ request = [i \in Id |-> NoRequest] /\ failed = FALSE

Next ==
    \/ Mount \/ Unmount \/ SignOut
    \/ \E a \in Account : SignIn(a)
    \/ \E t \in Title : toggle(t)
    \/ \E i \in Id : \/ GetAnswered(i) \/ GetFails(i) \/ PutAnswered(i) \/ PutFails(i)
                     \/ ServeGet(i) \/ ServePut(i) \/ Refuse(i)

Spec == Init /\ [][Next]_vars

-----------------------------------------------------------------------------
(* What the store holds; a list is loaded, or being loaded, for an account.*)
TypeOK ==
    /\ list \in [Account -> SUBSET Title] /\ {user, scope} \subseteq Account \cup {None}
    /\ {mounted, hydrated, loading, syncing, dirty, failed} \subseteq BOOLEAN
    /\ items \subseteq Title /\ sent \in 0..MaxSent
    /\ request \in [Id -> [kind : {"get", "put"}, scope : Account \cup {None},
                           by : Account \cup {None}, titles : SUBSET Title,
                           at : {"none", "sent", "late", "answered", "refused", "over"}]]
    /\ scope = None => items = {}
    /\ mounted => scope = user

Quiet == \A i \in Id : request[i].at \in {"none", "over"}

(* "The server converges to the final local state - no stale-snapshot      *)
(* clobber" (mylist.ts): when every request was answered, what the phone   *)
(* shows of its account's list is what the server has.                     *)
Converged ==
    Quiet /\ ~failed /\ hydrated /\ mounted /\ scope # None => items = list[scope]

(* "A logout/account-switch mid-flight can't leak one account's list into  *)
(* another" (mylist.ts).                                                   *)
ListsApart == \A a \in Account : list[a] \subseteq Own[a]
=============================================================================

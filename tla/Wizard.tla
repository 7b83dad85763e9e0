------------------------------- MODULE Wizard -------------------------------
(* The onboarding pages of one dashboard tab: upload, mapping review, feature  *)
(* review and the dataset list, which share one session store.                 *)
(* Code: dashboard callbacks/upload.py, mapping_confirm.py, datasets.py,       *)
(* feature_review.py and callbacks/auth.py's guard.                            *)
(* Each upload registers one dataset and stores one file, so a dataset, its    *)
(* file and its columns share one number. A response may be applied or lost:   *)
(* which of the two is the browser's (external).                               *)
EXTENDS Sessions

CONSTANTS
  MaxPosts,       \* bound: callbacks a tab has in flight at once
  MaxDatasets,    \* bound: uploads the API registers
  Upload,         \* the permission the onboarding endpoints ask for
  Read            \* the permission the review asks for

ASSUME BoundsOfTheTab == MaxPosts \in Nat /\ MaxDatasets \in Nat

VARIABLES
  page,       \* the route
  store,      \* ONBOARDING_STORE: its dataset id, and the file with its suggestions
  review,     \* the review page: due for loading, the dataset asked for, whether the
              \* token sent may read it, the dataset shown, and (a history) the dataset
              \* of the last question that ended, until the next is due or asked
  post,       \* callbacks in flight, with the State they were called with
  loaded,     \* API: the file each registered dataset was last loaded from
  opened      \* history: a dataset was opened over a store that held a file

wizardVars == <<page, store, review, post, loaded, opened>>

Pages == {"/login", "/", "/upload", "/confirm", "/review", "/datasets"}
Datasets == 1..MaxDatasets
Posts == 1..MaxPosts
NoPost == [op |-> "none"]
EmptyStore == [dataset |-> None, file |-> None]
Store == [dataset : Datasets \cup {None}, file : Datasets \cup {None}]
Post == {NoPost} \cup [op : {"upload"}, token : Token]
        \cup [op : {"confirm"}, snapshot : Store, token : Token]
        \cup [op : {"opened"}, answer : Store, token : Token]
        \cup [op : {"uploaded", "confirmed"}, answer : Store]
Unloaded == [due |-> FALSE, asked |-> None, granted |-> FALSE, shown |-> None, ended |-> None]
Registered == DOMAIN loaded

WizardInit ==
  /\ page = "/login" /\ store = EmptyStore /\ review = Unloaded
  /\ post = [i \in Posts |-> NoPost]
  /\ loaded = <<>> /\ opened = FALSE

(* A change of route mounts the page anew; a review asked for stays in flight.  *)
(* Setting the route it is on already may leave the page as it stands: that is  *)
(* the browser's (external).                                                    *)
Mount(p) ==
  /\ page' = p
  /\ \/ review' = [review EXCEPT !.due = (p = "/review"), !.shown = None, !.ended = None]
     \/ p = page /\ UNCHANGED review

Go(p) == /\ page # "/login" /\ Mount(p) /\ UNCHANGED <<store, post, loaded, opened>>

(* Mutant: a tab without a token is sent to a route that no page answers. *)
GuardElsewhere ==
  /\ (tab.token # None) = (page = "/login")
  /\ page' = (IF tab.token = None THEN "/signin" ELSE "/")
  /\ review' = Unloaded /\ post' = [i \in Posts |-> NoPost]
  /\ UNCHANGED <<store, loaded, opened>>

(* The clientside guard looks only at the presence of a token, and moves by a   *)
(* full page load: what was in flight is lost, the session stores are kept.     *)
Guard ==
  /\ (tab.token # None) = (page = "/login")
  /\ page' = (IF tab.token = None THEN "/login" ELSE "/")
  /\ review' = Unloaded /\ post' = [i \in Posts |-> NoPost]
  /\ UNCHANGED <<store, loaded, opened>>

(* The request the callback sends with the token of the time of the click, on   *)
(* the first free slot: the slots are alike. Without a token the API refuses it. *)
Send(i, p, request) ==
  /\ page = p /\ tab.token # None
  /\ post[i] = NoPost /\ \A j \in 1..i - 1 : post[j] # NoPost
  /\ post' = [post EXCEPT ![i] = request]
  /\ UNCHANGED <<page, store, review, loaded, opened>>

SendUpload(i) == Len(loaded) < MaxDatasets /\ Send(i, "/upload", [op |-> "upload", token |-> tab.token])

(* handle_confirm posts the dataset and the path of the store; without a path   *)
(* it fails before it posts.                                                    *)
SendConfirm(i) ==
  /\ store.file # None
  /\ Send(i, "/confirm", [op |-> "confirm", snapshot |-> store, token |-> tab.token])

(* open_dataset runs in the dashboard; it asks the API for nothing. *)
SendOpen(i, d) ==
  Send(i, "/datasets",
       [op |-> "opened", answer |-> [store EXCEPT !.dataset = d], token |-> tab.token])

(* POST /onboard: registers a dataset and its file. *)
ServeUpload(i) ==
  /\ post[i].op = "upload" /\ Permitted(post[i].token, Upload) /\ Len(loaded) < MaxDatasets
  /\ loaded' = Append(loaded, None)
  /\ post' = [post EXCEPT ![i] = [op |-> "uploaded",
       answer |-> [dataset |-> Len(loaded) + 1, file |-> Len(loaded) + 1]]]
  /\ UNCHANGED <<page, store, review, opened>>

(* POST /onboard/{id}/confirm: the dataset and the file must exist. *)
ServeConfirm(i) ==
  /\ post[i].op = "confirm" /\ Permitted(post[i].token, Upload)
  /\ loaded' = [loaded EXCEPT ![post[i].snapshot.dataset] = post[i].snapshot.file]
  /\ post' = [post EXCEPT ![i] = [op |-> "confirmed", answer |-> post[i].snapshot]]
  /\ UNCHANGED <<page, store, review, opened>>

(* The call fails (401, 403, a validation that blocked it, no answer), or the   *)
(* response is not applied: the store and the route stay.                       *)
Fail(i) ==
  /\ post[i] # NoPost
  /\ post' = [post EXCEPT ![i] = NoPost]
  /\ UNCHANGED <<page, store, review, loaded, opened>>

(* Mutant: an upload's answer is merged over the store, keeping the old path. *)
ReturnMerged(i) ==
  /\ post[i].op \in {"uploaded", "confirmed", "opened"}
  /\ store' = [dataset |-> post[i].answer.dataset,
               file |-> IF store.file = None THEN post[i].answer.file ELSE store.file]
  /\ Mount(IF post[i].op = "uploaded" THEN "/confirm" ELSE "/review")
  /\ post' = [post EXCEPT ![i] = NoPost]
  /\ UNCHANGED <<loaded, opened>>

(* The response replaces the store and moves to the next page, whatever page    *)
(* the user is on by then.                                                      *)
Return(i) ==
  /\ post[i].op \in {"uploaded", "confirmed", "opened"}
  /\ store' = post[i].answer
  /\ Mount(IF post[i].op = "uploaded" THEN "/confirm" ELSE "/review")
  /\ opened' = (opened \/ (post[i].op = "opened" /\ post[i].answer.file # None))
  /\ post' = [post EXCEPT ![i] = NoPost]
  /\ UNCHANGED loaded

(* Mutant: a question in flight answers for the page that came after it. *)
AskUnlessAsked ==
  /\ page = "/review" /\ review.due /\ store.dataset # None
  /\ review' = [review EXCEPT !.due = FALSE, !.granted = Permitted(tab.token, Read),
                  !.asked = IF review.asked = None THEN store.dataset ELSE review.asked]
  /\ UNCHANGED <<page, store, post, loaded, opened>>

(* load_review asks for the dataset of the store, with the token of that        *)
(* moment; a newer question replaces the one in flight.                         *)
AskReview ==
  /\ page = "/review" /\ review.due /\ store.dataset # None
  /\ review' = [review EXCEPT !.due = FALSE, !.asked = store.dataset,
                  !.granted = Permitted(tab.token, Read), !.ended = None]
  /\ UNCHANGED <<page, store, post, loaded, opened>>

(* The question ends, with `shown` on the page if it is the review by then. *)
EndReview(shown) ==
  /\ review.asked # None
  /\ review' = [review EXCEPT !.asked = None, !.granted = FALSE,
                  !.shown = IF page = "/review" THEN shown ELSE None,
                  !.ended = IF page = "/review" THEN review.asked ELSE None]
  /\ UNCHANGED <<page, store, post, loaded, opened>>

ShowReview == review.granted /\ EndReview(review.asked)

(* An APIError (401, 403, 404, a timeout, no API) draws an error in place of    *)
(* the review; an answer the browser does not get leaves the page as it was.    *)
(* Nothing asks again until the page is mounted or a column is added.           *)
ReviewFails == EndReview(None) \/ EndReview(review.shown)

(* handle_add succeeds, from a review that is drawn: bumping REVIEW_REFRESH     *)
(* loads the review again.                                                      *)
AddFeature ==
  /\ page = "/review" /\ review.shown # None /\ store.dataset # None
  /\ Permitted(tab.token, Upload)
  /\ review' = [review EXCEPT !.due = TRUE, !.ended = None]
  /\ UNCHANGED <<page, store, post, loaded, opened>>

ReviewNext == AskReview \/ ShowReview \/ ReviewFails \/ AddFeature
StoreNext ==
  \/ Guard
  \/ \E p \in Pages \ {"/login", "/"} : Go(p)
  \/ \E i \in Posts :
       \/ SendUpload(i) \/ SendConfirm(i) \/ ServeUpload(i) \/ ServeConfirm(i)
       \/ Fail(i) \/ Return(i)
       \/ \E d \in Registered : SendOpen(i, d)
PageNext == ReviewNext \/ StoreNext

(* Sign-in is offered on the login page only, sign-out on every other. *)
SignIn(c) == page = "/login" /\ UNCHANGED wizardVars
             /\ ((\E u \in Users : LoginSelect(c, u)) \/ LoginReturn(c))

Init == AuthInit /\ WizardInit
Next ==
  \/ ApiAuthNext /\ UNCHANGED wizardVars
  \/ \E c \in Callers : SignIn(c)
  \/ page # "/login" /\ SignOut /\ UNCHANGED wizardVars
  \/ PageNext /\ UNCHANGED authVars

vars == <<authVars, wizardVars>>
Spec == Init /\ [][Next]_vars
        /\ WF_vars(Guard /\ UNCHANGED authVars)
        /\ WF_vars(AskReview /\ UNCHANGED authVars)
        /\ WF_vars((ShowReview \/ ReviewFails) /\ UNCHANGED authVars)

TypeOK ==
  /\ AuthTypeOK
  /\ page \in Pages
  /\ store \in Store /\ post \in [Posts -> Post] /\ opened \in BOOLEAN
  /\ loaded \in Seq(Datasets \cup {None}) /\ Len(loaded) <= MaxDatasets

(* A dataset is loaded from another dataset's file only after a dataset was     *)
(* opened over a store that held a file: late, repeated and lost answers of     *)
(* uploads and confirmations never mix two uploads (datasets.open_dataset).     *)
OnlyOpeningMixes == (\E d \in Registered : loaded[d] \notin {None, d}) => opened

(* What onboarding promises: a dataset is loaded from the file it was           *)
(* registered with (callbacks/mapping_confirm.py handle_confirm's docstring:    *)
(* the store holds the dataset and file path).                                  *)
LoadsItsOwnFile == \A d \in Registered : loaded[d] \in {None, d}

(* The guard settles: a tab without a token ends on the login page and a tab    *)
(* with one leaves it, whatever answers set the route meanwhile.                *)
GuardSettles ==
  /\ (tab.token = None) ~> (page = "/login" \/ tab.token # None)
  /\ (tab.token # None) ~> (page # "/login" \/ tab.token = None)

(* A review that is due, because its page was mounted or a column was added,    *)
(* ends with the answer to a question about the dataset the store names, its    *)
(* review or the error that takes its place, though older questions may still   *)
(* be answered (callbacks/feature_review.py load_review).                       *)
ReviewCatchesUp ==
  \A d \in Datasets :
    (page = "/review" /\ review.due /\ store.dataset = d) ~>
      (review.ended = d \/ page # "/review" \/ store.dataset # d)

(* The invariant behind OnlyOpeningMixes: until then the store, the requests    *)
(* and the answers in flight that it may become, and the datasets all name a    *)
(* dataset together with its own file, or no file.                              *)
Own(s) == s.file \in {None, s.dataset}
OwnFiles ==
  \/ opened
  \/ /\ Own(store)
     /\ \A i \in Posts :
          /\ post[i].op = "confirm" => Own(post[i].snapshot)
          /\ post[i].op \in {"uploaded", "confirmed"} => Own(post[i].answer)
     /\ \A d \in Registered : loaded[d] \in {None, d}
=============================================================================

---------------------------- MODULE MCServices ----------------------------
(* The services beside the posts and the registry, each on a small instance: *)
(* `part` says which one a behaviour is about, and the variables of the      *)
(* others stay as they begin.                                                *)
EXTENDS SyncIssues, Digest, Sessions, ImageLibrary, Seasons, BedPlanner,
        BedSearch

VARIABLE part

vars == <<part, syncVars, digestVars, sessionVars, imageVars, dates,
          plannerVars, searchVars>>

\* No search is under way.
NoSearch ==
    /\ fits = {} /\ listing = {}
    /\ short = [h \in Halls |-> {}]
    /\ whole = TRUE /\ round = "done" /\ due = {}
    /\ asking = [w \in Askers |-> {}]
    /\ answered = [q \in Rounds |-> {}]

\* Winter from the leap day to the day before it: dates a save may leave, and
\* the ones PricedAsWritten leaves out, so that no other part works out prices.
NoSeasons ==
    dates = [start |-> [winter |-> LeapDay, summer |-> Unset],
             end |-> [winter |-> LeapDay - 1, summer |-> Unset]]

NoPlanner == today = 0 /\ checkIn = 0 /\ checkOut = 0 /\ view = NoView

Init ==
    /\ SyncInit /\ DigestInit /\ SessionInit /\ ImageInit
    /\ part \in {"limits", "issues", "digest", "sessions", "images", "seasons",
                 "planner", "search"}
    /\ part # "digest" => mail
    /\ IF part = "seasons" THEN SeasonsInit ELSE NoSeasons
    /\ IF part = "planner" THEN PlannerInit ELSE NoPlanner
    /\ IF part = "search" THEN SearchInit ELSE NoSearch

Beside(own) ==
    /\ own # "limits" /\ own # "issues" => UNCHANGED syncVars
    /\ own = "limits" => UNCHANGED <<reported, issue, call>>
    /\ own # "digest" => UNCHANGED digestVars
    /\ own # "sessions" => UNCHANGED sessionVars
    /\ own # "images" => UNCHANGED imageVars
    /\ own # "seasons" => UNCHANGED dates
    /\ own # "planner" => UNCHANGED plannerVars
    /\ own # "search" => UNCHANGED searchVars

Next ==
    /\ UNCHANGED part
    /\ \/ part = "limits" /\ LimitNext /\ bucket'["version"] = NoWindow
       \/ part = "issues" /\ SyncNext
       \/ part = "digest" /\ DigestNext
       \/ part = "sessions" /\ SessionNext
       \/ part = "images" /\ ImageNext
       \/ part = "seasons" /\ SaveSeason
       \/ part = "planner" /\ PlannerNext
       \/ part = "search" /\ SearchNext
    /\ Beside(part)

FairSpec == Init /\ [][Next]_vars /\ DigestFairness

TypesOK ==
    /\ SyncTypeOK /\ DigestTypeOK /\ SessionTypeOK /\ ImageTypeOK /\ SearchTypeOK
=============================================================================

---------------------------- MODULE LoginTicket ----------------------------
(***************************************************************************)
(* What a store of login challenges promises (ChallengeStore,              *)
(* internal/auth/challenge_store.go): a challenge is issued once, for one  *)
(* public key, is redeemed at most once, by that key, and is void for good *)
(* once it is dropped.                                                     *)
(***************************************************************************)
CONSTANTS
    Challenges, \* challenge values: 32 random bytes, none comes up twice
    Pubkeys,    \* Nostr public keys
    None        \* no public key

VARIABLES
    ticket,    \* each challenge: "unissued", "open", "redeemed" or "void"
    holder,    \* the key a challenge was issued for
    redeemedBy \* the key it was redeemed by

ticketVars == <<ticket, holder, redeemedBy>>

TicketInit ==
    /\ ticket = [c \in Challenges |-> "unissued"]
    /\ holder = [c \in Challenges |-> None]
    /\ redeemedBy = [c \in Challenges |-> None]

Open == {c \in Challenges : ticket[c] = "open"}

(* Challenges may lapse at any time. *)
Lapse(old) ==
    /\ old \subseteq Open
    /\ ticket' = [c \in Challenges |-> IF c \in old THEN "void" ELSE ticket[c]]
    /\ UNCHANGED <<holder, redeemedBy>>

(* Issuing one may let old ones lapse. *)
IssueTicket(c, p, old) ==
    /\ ticket[c] = "unissued"
    /\ old \subseteq Open
    /\ ticket' = [d \in Challenges |-> IF d = c THEN "open"
                                       ELSE IF d \in old THEN "void"
                                       ELSE ticket[d]]
    /\ holder' = [holder EXCEPT ![c] = p]
    /\ UNCHANGED redeemedBy

Redeem(c) ==
    /\ ticket[c] = "open"
    /\ ticket' = [ticket EXCEPT ![c] = "redeemed"]
    /\ redeemedBy' = [redeemedBy EXCEPT ![c] = holder[c]]
    /\ UNCHANGED holder

TicketNext ==
    \/ \E old \in SUBSET Challenges : Lapse(old)
    \/ \E c \in Challenges, p \in Pubkeys, old \in SUBSET Challenges :
         IssueTicket(c, p, old)
    \/ \E c \in Challenges : Redeem(c)

TicketSpec == TicketInit /\ [][TicketNext]_ticketVars
=============================================================================

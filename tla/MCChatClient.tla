---------------------------- MODULE MCChatClient ----------------------------
(* What a client shows: the timeline of a chat, its composer and the list of chats.  They share
   nothing but the chat that is open; each behaviour is of one of them. *)
EXTENDS ChatClient, TLC

CONSTANTS
  MaxEvents,                                   \* of the timeline: turns and messages together
  Handlers, MaxTexts, MaxMoves, MaxWrites,     \* of the composer
  Lists, MaxMessages, MaxSteps                 \* of the list

VARIABLES
  part,
  drafts, chat, input, editing, replyTo, ready, timer, coming, writes, handlers, texts, moves, wrote,
  lost, left,
  log, readAt, shown, badge, online, events, opening, marks, lists, steps, seen, clashed, slipped, cut

composer == <<drafts, chat, input, editing, replyTo, ready, timer, coming, writes, handlers, texts,
              moves, wrote, lost, left>>
sidebar == <<log, readAt, shown, badge, online, events, opening, marks, lists, steps, seen, clashed,
             slipped, cut>>

Composer == INSTANCE ConversationPage WITH loading <- coming, turns <- moves, MaxTurns <- MaxMoves

Sidebar == INSTANCE ConversationList WITH
  posted <- log, active <- shown, connected <- online, queue <- events, turns <- steps,
  crossed <- clashed, Requests <- Lists, MaxPosts <- MaxMessages, MaxTurns <- MaxSteps

ClientInit ==
  Init /\ Composer!Init /\ Sidebar!Init /\ part \in {"timeline", "composer", "list"}

WithinEvents == Len(posted) + turns <= MaxEvents

ClientNext ==
  /\ UNCHANGED part
  /\ \/ part = "timeline" /\ Next /\ WithinEvents' /\ UNCHANGED <<composer, sidebar>>
     \/ part = "composer" /\ Composer!Next /\ UNCHANGED <<vars, sidebar>>
     \/ part = "list" /\ Sidebar!Next /\ UNCHANGED <<vars, composer>>

ClientSpec == ClientInit /\ [][ClientNext]_<<vars, composer, sidebar, part>>

(* Each part keeps its types. *)
TypesOK == TypeOK /\ Composer!TypeOK /\ Sidebar!TypeOK

(* What the user writes stays in its chat and is kept until it is sent (ConversationPage). *)
TextsAreKept == Composer!TextsAreKept

(* The unread counts are right and only what was on the screen counts as read (chatStore). *)
ListIsTrue == Sidebar!ListIsTrue

Interchangeable == Permutations(Convs) \cup Permutations(Temps) \cup Permutations(Handlers)
=============================================================================

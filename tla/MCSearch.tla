------------------------------ MODULE MCSearch -------------------------------
(* The searches with the agendas of a user: each leaves out the operations   *)
(* that make its question too large to be checked, or that another run shows *)
(* to defeat it.                                                             *)
EXTENDS SearchActivity

CONSTANTS qa, qb

Agenda(does, left, asks, bus) == [does |-> does, left |-> left, asks |-> asks, bus |-> bus]

SyncAgenda == Agenda({"type", "clear", "page", "sync", "close"}, 3, {qa}, FALSE)
TagAgenda == Agenda({"type", "clear", "tag", "close"}, 3, {qb}, FALSE)
RefreshAgendas == {Agenda({"search", "locate", "settings"}, 2, {qb}, TRUE),
                   Agenda({"sync"}, 1, {qb}, TRUE),
                   Agenda({"search", "tag"}, 2, {qb}, TRUE)}

MCAgendas == {SyncAgenda, TagAgenda} \cup RefreshAgendas
SyncMeetsSettings == {Agenda({"settings", "sync"}, 2, {qa}, FALSE)}
CloseMeetsPage == {Agenda({"page", "tag", "close"}, 3, {qa}, FALSE)}
================================================================================

---------------------------- MODULE AgendaPublica ---------------------------
(***************************************************************************)
(* Calendars, their events and who attends them (mod_agenda).  Managers    *)
(* create, move, cancel and delete; the public form of an event registers  *)
(* whoever fills it in and confirms the presence while the event lasts.    *)
(*                                                                         *)
(* A handler reads in one statement and writes in a later one.  A person   *)
(* of the form is known by name and phone; a record may have two phones.   *)
(***************************************************************************)
EXTENDS Integers, FiniteSets

CONSTANTS
    Agendas,          \* ids of agenda.agenda (bound)
    Padrao,           \* the one with padrao
    Compromissos,     \* ids of agenda.evento (bound)
    Fichas,           \* ids of cadastro.pessoa (bound)
    Celulares,        \* phones, each with the name that goes with it
    Formularios,      \* public forms being sent (bound)
    Gestores,         \* handlers of managers under way (bound)
    MaxAtos,          \* forms, handlers, registrations and changes of period (bound)
    NinguemAgenda     \* no id

ASSUME PadraoAgenda == Padrao \in Agendas
ASSUME AtosNaturais == MaxAtos \in Nat
ASSUME CelularesContaveis == IsFiniteSet(Celulares)
ASSUME NinguemSemFicha == NinguemAgenda \notin Fichas

VARIABLES
    agenda,           \* calendar -> "viva" or "excluida"
    compromisso,      \* event -> its row, and whether its period is running
    ficha,            \* person -> origem_cadastro and phones
    presenca,         \* event -> person -> evento_participante.presente (v) and,
                      \* as history, who wrote it last (quem)
    form, gestor,     \* the handlers under way
    atos,
    apressados        \* history: events put in a calendar that was deleted meanwhile

varsPublica == <<agenda, compromisso, ficha, presenca, form, gestor, atos, apressados>>

CompromissoLivre == [st |-> "livre", agenda |-> NinguemAgenda, periodo |-> "aberto"]
FichaLivre == [origem |-> "livre", fones |-> {}]
SemPresenca == [v |-> "nenhuma", quem |-> "gestor"]
FormLivre == [passo |-> "livre", c |-> NinguemAgenda, fone |-> NinguemAgenda,
              ficha |-> NinguemAgenda, periodo |-> "aberto", lida |-> "nenhuma"]
GestorLivre == [op |-> "nada", c |-> NinguemAgenda, a |-> NinguemAgenda]

InitPublica ==
    /\ agenda = [a \in Agendas |-> "viva"]
    /\ compromisso = [c \in Compromissos |-> CompromissoLivre]
    /\ ficha = [p \in Fichas |-> FichaLivre]
    /\ presenca = [c \in Compromissos |-> [p \in Fichas |-> SemPresenca]]
    /\ form = [f \in Formularios |-> FormLivre]
    /\ gestor = [g \in Gestores |-> GestorLivre]
    /\ atos = 0 /\ apressados = {}

Ato == atos < MaxAtos /\ atos' = atos + 1

-----------------------------------------------------------------------------
\* confirm_public_attendance, one statement after another.
EventoPublico(c) == compromisso[c].st = "vivo" /\ agenda[compromisso[c].agenda] = "viva"

LerEventoPublico(f, c, fone) ==
    /\ form[f].passo = "livre" /\ EventoPublico(c)
    /\ Ato
    /\ form' = [form EXCEPT ![f] = [FormLivre EXCEPT !.passo = "travar", !.c = c, !.fone = fone,
                                                     !.periodo = compromisso[c].periodo]]
    /\ UNCHANGED <<agenda, compromisso, ficha, presenca, gestor, apressados>>

\* Mutant: no lock of the identity.
IdentidadePresaNunca(f) == FALSE

\* pg_advisory_xact_lock, held until the commit.
IdentidadePresa(f) ==
    \E h \in Formularios \ {f} : form[h].fone = form[f].fone /\ form[h].passo \notin {"livre", "travar"}

TravarIdentidade(f) ==
    /\ form[f].passo = "travar" /\ ~IdentidadePresa(f)
    /\ form' = [form EXCEPT ![f].passo = "ficha"]
    /\ UNCHANGED <<agenda, compromisso, ficha, presenca, gestor, atos, apressados>>

\* A record found is completed, otherwise one is inserted.
AcharFicha(f) ==
    /\ form[f].passo = "ficha"
    /\ LET achadas == {p \in Fichas : form[f].fone \in ficha[p].fones}
           livres == {p \in Fichas : ficha[p].origem = "livre" /\ \A h \in Formularios : form[h].ficha # p}
       IN \E p \in IF achadas # {} THEN achadas ELSE livres :
             form' = [form EXCEPT ![f].passo = "participacao", ![f].ficha = p]
    /\ UNCHANGED <<agenda, compromisso, ficha, presenca, gestor, atos, apressados>>

LerParticipacao(f) ==
    /\ form[f].passo = "participacao"
    /\ form' = [form EXCEPT ![f].passo = "gravar", ![f].lida = presenca[form[f].c][form[f].ficha].v]
    /\ UNCHANGED <<agenda, compromisso, ficha, presenca, gestor, atos, apressados>>

\* Mutant: a presence already there is written over.
JaConfirmadaNunca(f) == FALSE

JaConfirmada(f) == form[f].lida = "sim"

\* The upsert of the participation and the commit.
GravarParticipacao(f) ==
    LET c == form[f].c  p == form[f].ficha IN
    /\ form[f].passo = "gravar"
    /\ ficha' = IF ficha[p].origem # "livre" THEN ficha
                ELSE [ficha EXCEPT ![p] = [origem |-> "formulario", fones |-> {form[f].fone}]]
    /\ presenca' = IF JaConfirmada(f) THEN presenca
                   ELSE [presenca EXCEPT ![c][p] =
                           [v |-> IF form[f].periodo = "aberto" THEN "sim" ELSE "nulo", quem |-> "form"]]
    /\ form' = [form EXCEPT ![f] = FormLivre]
    /\ UNCHANGED <<agenda, compromisso, gestor, atos, apressados>>

-----------------------------------------------------------------------------
\* Other parts: a record made by hand, and the clock or a new date of the event.
CadastrarFicha(p, fones) ==
    /\ ficha[p].origem = "livre" /\ \A f \in Formularios : form[f].ficha # p
    /\ Ato
    /\ ficha' = [ficha EXCEPT ![p] = [origem |-> "cadastro", fones |-> fones]]
    /\ UNCHANGED <<agenda, compromisso, presenca, form, gestor, apressados>>

MudarPeriodo(c) ==
    /\ compromisso[c].st # "livre"
    /\ Ato
    /\ compromisso' = [compromisso EXCEPT ![c].periodo = IF @ = "aberto" THEN "fechado" ELSE "aberto"]
    /\ UNCHANGED <<agenda, ficha, presenca, form, gestor, apressados>>

-----------------------------------------------------------------------------
\* What a handler of a manager requires of what it reads (ensure_event,
\* ensure_calendar).
Alcancavel(c) == compromisso[c].st \in {"vivo", "cancelado"}
Admite(op, c, a) ==
    CASE op = "criar" -> compromisso[c].st = "livre" /\ agenda[a] = "viva"
                          /\ \A g \in Gestores : gestor[g].c # c
      [] op = "mover" -> Alcancavel(c) /\ agenda[a] = "viva"
      [] op = "cancelar" -> compromisso[c].st = "vivo"
      [] op = "excluir" -> Alcancavel(c) /\ agenda[compromisso[c].agenda] = "viva"
      [] op = "excluirAgenda" -> agenda[a] = "viva" /\ a # Padrao
      [] OTHER -> Alcancavel(c)

LerGestor(g, op, c, a) ==
    /\ gestor[g] = GestorLivre /\ Admite(op, c, a)
    /\ Ato
    /\ gestor' = [gestor EXCEPT ![g] = [op |-> op, c |-> c, a |-> a]]
    /\ UNCHANGED <<agenda, compromisso, ficha, presenca, form, apressados>>

Acabar(g) == gestor' = [gestor EXCEPT ![g] = GestorLivre] /\ UNCHANGED <<ficha, form, atos>>

\* INSERT of an event, or UPDATE with another calendar.
PorNaAgenda(g) ==
    LET c == gestor[g].c  a == gestor[g].a IN
    /\ gestor[g].op \in {"criar", "mover"}
    /\ gestor[g].op = "mover" => Alcancavel(c)
    /\ compromisso' = [compromisso EXCEPT ![c].agenda = a,
                         ![c].st = IF gestor[g].op = "criar" THEN "vivo" ELSE @]
    /\ apressados' = IF agenda[a] = "viva" THEN apressados \ {c} ELSE apressados \cup {c}
    /\ Acabar(g) /\ UNCHANGED <<agenda, presenca>>

MudarStatus(g) ==
    LET c == gestor[g].c IN
    /\ gestor[g].op \in {"cancelar", "excluir"} /\ Alcancavel(c)
    /\ compromisso' = [compromisso EXCEPT ![c].st =
                         IF gestor[g].op = "cancelar" THEN "cancelado" ELSE "excluido"]
    /\ Acabar(g) /\ UNCHANGED <<agenda, presenca, apressados>>

\* The NOT EXISTS of delete_calendar.
Desocupada(a) == \A c \in Compromissos : Alcancavel(c) => compromisso[c].agenda # a

ExcluirAgenda(g) ==
    LET a == gestor[g].a IN
    /\ gestor[g].op = "excluirAgenda" /\ agenda[a] = "viva" /\ Desocupada(a)
    /\ agenda' = [agenda EXCEPT ![a] = "excluida"]
    /\ Acabar(g) /\ UNCHANGED <<compromisso, presenca, apressados>>

\* upsert_participant or delete_participant; the foreign key keeps the event,
\* whatever its status.
MarcarPresenca(g, p, v) ==
    /\ gestor[g].op = "presenca" /\ ficha[p].origem # "livre"
    /\ presenca' = [presenca EXCEPT ![gestor[g].c][p] = [v |-> v, quem |-> "gestor"]]
    /\ Acabar(g) /\ UNCHANGED <<agenda, compromisso, apressados>>

\* Nothing matched: the event or the calendar is gone, or still in use.
DesistirGestor(g) ==
    /\ \/ gestor[g].op \in {"mover", "cancelar", "excluir"} /\ ~Alcancavel(gestor[g].c)
       \/ /\ gestor[g].op = "excluirAgenda"
          /\ ~(agenda[gestor[g].a] = "viva" /\ Desocupada(gestor[g].a))
    /\ Acabar(g) /\ UNCHANGED <<agenda, compromisso, presenca, apressados>>

Iniciativas == {"criar", "mover", "cancelar", "excluir", "presenca", "excluirAgenda"}

NextPublica ==
    \/ \E f \in Formularios :
          \/ \E c \in Compromissos, fone \in Celulares : LerEventoPublico(f, c, fone)
          \/ TravarIdentidade(f) \/ AcharFicha(f) \/ LerParticipacao(f) \/ GravarParticipacao(f)
    \/ \E p \in Fichas, fones \in SUBSET Celulares \ {{}} : CadastrarFicha(p, fones)
    \/ \E c \in Compromissos : MudarPeriodo(c)
    \/ \E g \in Gestores :
          \/ \E op \in Iniciativas, c \in Compromissos, a \in Agendas : LerGestor(g, op, c, a)
          \/ PorNaAgenda(g) \/ MudarStatus(g) \/ ExcluirAgenda(g) \/ DesistirGestor(g)
          \/ \E p \in Fichas, v \in {"sim", "nao", "nulo", "nenhuma"} : MarcarPresenca(g, p, v)

SpecPublica == InitPublica /\ [][NextPublica]_varsPublica

(***************************************************************************)
(* Properties.                                                             *)
(***************************************************************************)
\* Whoever sends the form twice, or from two windows at once, is registered
\* once (lock_public_attendance_identity).
UmaFicha ==
    \A p, q \in Fichas :
        /\ ficha[p].origem = "formulario" /\ ficha[q].origem = "formulario"
        /\ ficha[p].fones \cap ficha[q].fones # {}
        => p = q

\* A presence confirmed through the form is not taken back by another form:
\* only a manager changes it, or a form under another phone of the same
\* person, whose lock is another one.
ConfirmadaFica ==
    [][\A c \in Compromissos, p \in Fichas :
          presenca[c][p] = [v |-> "sim", quem |-> "form"] /\ presenca'[c][p].v # "sim"
              => gestor' # gestor \/ Cardinality(ficha[p].fones) > 1]_varsPublica

\* A deleted calendar takes no event with it: what lives is in a living
\* calendar, except what a handler that had read the calendar before put there
\* (delete_calendar).
AgendaExcluidaVazia ==
    \A c \in Compromissos \ apressados : Alcancavel(c) => agenda[compromisso[c].agenda] = "viva"

\* What public forms and managers leave in the registry and in the agenda.
PublicaConfere == UmaFicha /\ AgendaExcluidaVazia
=============================================================================

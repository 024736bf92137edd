---------------------------- MODULE GoogleAgenda ----------------------------
(***************************************************************************)
(* Synchronization of one agenda with one Google calendar                  *)
(* (mod_agenda/google_calendar.py), while people edit events on both       *)
(* sides.                                                                  *)
(*                                                                         *)
(* A synchronization is one transaction: what it writes stays in rasc[s],  *)
(* unseen and locked, until its commit, but every call to Google has its   *)
(* effect at once and for good.  Nothing keeps two of them apart.          *)
(*                                                                         *)
(* relogio counts the changes made by people, and is at the same time the  *)
(* clock and the contents: the n-th change leaves the contents n.          *)
(***************************************************************************)
EXTENDS Integers, FiniteSets, FiniteSetsExt

CONSTANTS
    Eventos,       \* ids of agenda.evento, in the order of the push (bound)
    Remotos,       \* ids of Google events (bound)
    Syncs,         \* synchronizations at once (bound)
    Edicoes,       \* local handlers at once (bound)
    Direcoes,      \* directions the agenda may be linked with
    MaxMudancas,   \* changes made by people (bound)
    MaxSyncs,      \* synchronizations in a behaviour (bound)
    MaxQuedas,     \* crashes and failures of Google (bound)
    SemEvento, SemRemoto

ASSUME EventosOrdenados == Eventos \subseteq Nat
ASSUME NomesAgenda == SemEvento \notin Eventos /\ SemRemoto \notin Remotos
ASSUME LimitesAgenda == {MaxMudancas, MaxSyncs, MaxQuedas} \subseteq Nat

VARIABLES
    direcao,       \* google_integracao_agenda.direcao
    token,         \* its sync_token: the versions that Google had
    evento,        \* event -> agenda.evento
    elo,           \* event -> its row of google_evento_vinculo
    google,        \* the calendar at Google
    sync,          \* the synchronizations under way
    rasc,          \* what each of them has written and not committed
    edicao,        \* the handlers of the agenda under way
    relogio, feitas, quedas,
    acertado,      \* history: a synchronization without disturbance was the last to change anything
    tardias,       \* history: events whose edit committed after a later version was pulled or sent
    duvidosos,     \* history: events that may be twice at Google: created by two overlapping
                   \* synchronizations, or with a copy that a pull passed over
    juntas,        \* history: whether two synchronizations ever overlapped
    puladas        \* history: the versions of the copies at Google that a pull passed over

varsAgenda == <<direcao, token, evento, elo, google, sync, rasc, edicao, relogio, feitas,
                quedas, acertado, tardias, duvidosos, juntas, puladas>>
tabelasAgenda == <<token, evento, elo>>
historiaAgenda == <<acertado, tardias, duvidosos, juntas, puladas>>
fixoAgenda == <<direcao, relogio, feitas, quedas>>

EventoLivre == [st |-> "livre", cont |-> 0, mod |-> 0]
SemElo == [g |-> SemRemoto, ver |-> 0, sist |-> 0, st |-> "sincronizado"]
RemotoLivre == [st |-> "livre", cont |-> 0, ver |-> 0, dono |-> SemEvento]
SemToken == [g \in Remotos |-> 0]
SemRascunho == [ev |-> [e \in {} |-> EventoLivre], elo |-> [e \in {} |-> SemElo]]
SyncLivre == [passo |-> "livre", inicio |-> 0, token |-> SemToken, itens |-> [g \in {} |-> RemotoLivre],
              g |-> SemRemoto, e |-> SemEvento, acao |-> "nada", lista |-> [e \in {} |-> EventoLivre],
              ver |-> 0, calmo |-> "sim", junto |-> "nao"]
EdicaoLivre == [e |-> SemEvento, tipo |-> "nada", em |-> 0]

InitAgenda ==
    /\ direcao \in Direcoes
    /\ token = SemToken
    /\ evento = [e \in Eventos |-> EventoLivre]
    /\ elo = [e \in Eventos |-> SemElo]
    /\ google = [g \in Remotos |-> RemotoLivre]
    /\ sync = [s \in Syncs |-> SyncLivre]
    /\ rasc = [s \in Syncs |-> SemRascunho]
    /\ edicao = [r \in Edicoes |-> EdicaoLivre]
    /\ relogio = 0 /\ feitas = 0 /\ quedas = 0
    /\ acertado = "nao" /\ tardias = {} /\ duvidosos = {} /\ juntas = "nao"
    /\ puladas = {}

-----------------------------------------------------------------------------
\* What a transaction reads: its own rows over the committed ones.
Ev(s, e) == IF e \in DOMAIN rasc[s].ev THEN rasc[s].ev[e] ELSE evento[e]
Elo(s, e) == IF e \in DOMAIN rasc[s].elo THEN rasc[s].elo[e] ELSE elo[e]

Por(f, x, v) == [y \in DOMAIN f \cup {x} |-> IF y = x THEN v ELSE f[y]]

Outros(s) == {t \in Syncs \ {s} : sync[t].passo # "livre"}
EventoPreso(s, e) == \E t \in Outros(s) : e \in DOMAIN rasc[t].ev

\* The unique entries (integracao, evento) and (integracao, google_event_id).
EloPreso(s, e, g) ==
    \E t \in Outros(s) : \/ e \in DOMAIN rasc[t].elo
                         \/ \E d \in DOMAIN rasc[t].elo : rasc[t].elo[d].g = g
Repetido(s, e, g) == \E d \in Eventos \ {e} : Elo(s, d).g = g

\* Somebody changed something: no synchronization under way is calm any more.
Perturbar == sync' = [s \in Syncs |-> [sync[s] EXCEPT !.calmo = "nao"]]
Mudar == /\ relogio < MaxMudancas /\ relogio' = relogio + 1
         /\ Perturbar /\ acertado' = "nao"

-----------------------------------------------------------------------------
\* The calendar at Google, used by people.
GoogleCria(g) ==
    /\ google[g].st = "livre"
    /\ Mudar
    /\ google' = [google EXCEPT ![g] = [st |-> "vivo", cont |-> relogio', ver |-> 1,
                                        dono |-> SemEvento]]
    /\ UNCHANGED <<direcao, tabelasAgenda, rasc, edicao, feitas, quedas, tardias, duvidosos, juntas,
                   puladas>>

GoogleAltera(g, st) ==
    /\ google[g].st = "vivo"
    /\ Mudar
    /\ google' = [google EXCEPT ![g].st = st, ![g].cont = relogio', ![g].ver = @ + 1]
    /\ UNCHANGED <<direcao, tabelasAgenda, rasc, edicao, feitas, quedas, tardias, duvidosos, juntas,
                   puladas>>

-----------------------------------------------------------------------------
\* The handlers of the agenda: the event is read, and written later.
Existente(e) == evento[e].st \in {"vivo", "cancelado"}

\* An id that the sequence gave to nobody.
Livre(e) ==
    evento[e].st = "livre" /\ \A s \in Syncs : e \notin DOMAIN rasc[s].ev /\ sync[s].e # e

CriarEvento(e) ==
    /\ Livre(e)
    /\ Mudar
    /\ evento' = [evento EXCEPT ![e] = [st |-> "vivo", cont |-> relogio', mod |-> relogio']]
    /\ UNCHANGED <<direcao, token, elo, google, rasc, edicao, feitas, quedas, tardias, duvidosos, juntas,
                   puladas>>

LerEvento(r, e, tipo) ==
    /\ edicao[r] = EdicaoLivre /\ Existente(e)
    /\ tipo = "cancelado" => evento[e].st # "cancelado"
    /\ Mudar
    /\ edicao' = [edicao EXCEPT ![r] = [e |-> e, tipo |-> tipo, em |-> relogio']]
    /\ UNCHANGED <<direcao, tabelasAgenda, google, rasc, feitas, quedas, tardias, duvidosos, juntas,
                   puladas>>

\* A synchronization already has a version of the event as late as this one.
JaVista(e, em) ==
    \/ elo[e].g # SemRemoto /\ em <= elo[e].sist
    \/ \E s \in Syncs : \/ e \in DOMAIN rasc[s].elo /\ em <= rasc[s].elo[e].sist
                        \/ e \in DOMAIN sync[s].lista /\ em <= sync[s].lista[e].ev.mod

\* atualizado_em is the start of the transaction.  An edit leaves the status
\* as it is, or sets any.
GravarEvento(r) ==
    LET d == edicao[r] IN
    /\ d.tipo # "nada" /\ \A s \in Syncs : d.e \notin DOMAIN rasc[s].ev
    /\ \E st \in IF d.tipo = "vivo" THEN {"vivo", "cancelado"} ELSE {d.tipo} :
          evento' = IF ~Existente(d.e) THEN evento
                    ELSE [evento EXCEPT ![d.e] = [st |-> st, mod |-> d.em,
                               cont |-> IF d.tipo = "vivo" THEN d.em ELSE @.cont]]
    /\ tardias' = IF JaVista(d.e, d.em) THEN tardias \cup {d.e} ELSE tardias
    /\ edicao' = [edicao EXCEPT ![r] = EdicaoLivre]
    /\ Perturbar /\ acertado' = "nao"
    /\ UNCHANGED <<direcao, token, elo, google, rasc, relogio, feitas, quedas, duvidosos, juntas,
                   puladas>>

-----------------------------------------------------------------------------
Seguir(s, r) == sync' = [sync EXCEPT ![s] = r]

\* The reading of the integration.
Sincronizar(s) ==
    /\ sync[s].passo = "livre" /\ feitas < MaxSyncs
    /\ feitas' = feitas + 1
    /\ sync' = [t \in Syncs |->
          IF t = s
          THEN [SyncLivre EXCEPT
                  !.passo = IF direcao = "sistema_google" THEN "ler" ELSE "buscar",
                  !.inicio = relogio, !.token = token,
                  !.calmo = IF Outros(s) = {} /\ \A r \in Edicoes : edicao[r] = EdicaoLivre
                            THEN "sim" ELSE "nao",
                  !.junto = IF Outros(s) = {} THEN "nao" ELSE "sim"]
          ELSE IF sync[t].passo = "livre" THEN sync[t]
          ELSE [sync[t] EXCEPT !.calmo = "nao", !.junto = "sim"]]
    /\ juntas' = IF Outros(s) = {} THEN juntas ELSE "sim"
    /\ UNCHANGED <<direcao, tabelasAgenda, google, rasc, edicao, relogio, quedas, acertado,
                   tardias, duvidosos, puladas>>

\* _pull: what changed since the token, or everything when Google refuses it (410).
Buscar(s) ==
    /\ sync[s].passo = "buscar"
    /\ \E base \in {sync[s].token, SemToken} :
          Seguir(s, [sync[s] EXCEPT
              !.passo = "importar",
              !.itens = [g \in {h \in Remotos : google[h].ver > base[h]} |-> google[g]],
              !.token = [g \in Remotos |-> google[g].ver]])
    /\ UNCHANGED <<tabelasAgenda, google, rasc, edicao, fixoAgenda, historiaAgenda>>

Vinculados(s, g) == {e \in Eventos : Elo(s, e).g = g}

\* An item without a link whose event is here: the push that made it never
\* committed.
Adotavel(s, g, e) == Ev(s, e).st \in {"vivo", "cancelado"} /\ sync[s].itens[g].dono = e

\* Mutant: only the table of links is looked at.
AlvosSemAdocao(s, g) == Vinculados(s, g)

Alvos(s, g) ==
    IF Vinculados(s, g) # {} THEN Vinculados(s, g) ELSE {e \in Eventos : Adotavel(s, g, e)}

\* Whether this version was seen: the link has it, or a later one.
Visto(s, g) == \E e \in Vinculados(s, g) : sync[s].itens[g].ver <= Elo(s, e).ver

\* _import_one passes over an item: a private one in a public calendar, one
\* without a start, or any that is alive while the account has no person.  Who
\* sees an item and whose the account is, others change at any time.
Pular(s, g) ==
    /\ sync[s].passo = "importar" /\ g \in DOMAIN sync[s].itens
    /\ Seguir(s, [sync[s] EXCEPT !.itens = [h \in DOMAIN @ \ {g} |-> @[h]]])
    /\ puladas' = IF Visto(s, g) THEN puladas ELSE puladas \cup {<<g, sync[s].itens[g].ver>>}
    /\ duvidosos' = IF Vinculados(s, g) # {} THEN duvidosos
                    ELSE duvidosos \cup {e \in Eventos : Adotavel(s, g, e)}
    /\ UNCHANGED <<tabelasAgenda, google, rasc, edicao, fixoAgenda, acertado, tardias, juntas>>

\* Otherwise it decides from what it reads.
Escolher(s, g) ==
    LET item == sync[s].itens[g]
        alvos == Alvos(s, g)
        ir(e, acao) == Seguir(s, [sync[s] EXCEPT !.passo = "aplicar", !.g = g, !.e = e,
                                                 !.acao = acao])
    IN /\ sync[s].passo = "importar" /\ g \in DOMAIN sync[s].itens
       /\ IF item.st = "cancelado"
          THEN IF alvos = {} THEN ir(SemEvento, "nada")
               ELSE \E e \in alvos : ir(e, "cancelar")
          ELSE IF alvos = {}
          THEN \E e \in Eventos : Livre(e) /\ ir(e, "inserir")
          ELSE \E e \in alvos : ir(e, IF Visto(s, g) THEN "nada" ELSE "atualizar")
       /\ UNCHANGED <<tabelasAgenda, google, rasc, edicao, fixoAgenda, historiaAgenda>>

\* import_google_event, update_imported_event or cancel_imported_event.
Importado(s, e, item) ==
    LET antes == Ev(s, e) IN
    [st |-> CASE sync[s].acao = "inserir" -> "vivo"
              [] sync[s].acao = "cancelar" /\ antes.st # "excluido" -> "cancelado"
              [] OTHER -> antes.st,
     cont |-> IF sync[s].acao = "cancelar" THEN antes.cont ELSE item.cont,
     mod |-> sync[s].inicio]

ItemFeito(s) ==
    [sync[s] EXCEPT !.passo = "importar", !.g = SemRemoto, !.e = SemEvento, !.acao = "nada",
                    !.itens = [g \in DOMAIN @ \ {sync[s].g} |-> @[g]]]

Aplicar(s) ==
    LET e == sync[s].e  g == sync[s].g  item == sync[s].itens[g] IN
    /\ sync[s].passo = "aplicar" /\ sync[s].acao # "nada"
    /\ ~EventoPreso(s, e) /\ ~EloPreso(s, e, g) /\ ~Repetido(s, e, g)
    /\ rasc' = [rasc EXCEPT
          ![s].ev = Por(@, e, Importado(s, e, item)),
          ![s].elo = Por(@, e, [g |-> g, ver |-> item.ver, sist |-> relogio,
                                st |-> "sincronizado"])]
    /\ Seguir(s, ItemFeito(s))
    /\ UNCHANGED <<tabelasAgenda, google, edicao, fixoAgenda, historiaAgenda>>

Ignorar(s) ==
    /\ sync[s].passo = "aplicar" /\ sync[s].acao = "nada"
    /\ Seguir(s, ItemFeito(s))
    /\ UNCHANGED <<tabelasAgenda, google, rasc, edicao, fixoAgenda, historiaAgenda>>

FimDaBusca(s) ==
    /\ sync[s].passo = "importar" /\ DOMAIN sync[s].itens = {}
    /\ Seguir(s, [sync[s] EXCEPT !.passo = IF direcao = "bidirecional" THEN "ler" ELSE "fim"])
    /\ UNCHANGED <<tabelasAgenda, google, rasc, edicao, fixoAgenda, historiaAgenda>>

-----------------------------------------------------------------------------
\* events_for_google_sync, without the ones that _push passes over.
AEnviar(s) ==
    {e \in Eventos :
        /\ \/ Ev(s, e).st \in {"vivo", "cancelado"}
           \/ Ev(s, e).st = "excluido" /\ Elo(s, e).g # SemRemoto /\ Elo(s, e).st # "excluido"
        /\ Elo(s, e).g = SemRemoto \/ Ev(s, e).mod > Elo(s, e).sist}

LerEventos(s) ==
    /\ sync[s].passo = "ler"
    /\ Seguir(s, [sync[s] EXCEPT !.passo = "enviar",
                    !.lista = [e \in AEnviar(s) |-> [ev |-> Ev(s, e), g |-> Elo(s, e).g]]])
    /\ UNCHANGED <<tabelasAgenda, google, rasc, edicao, fixoAgenda, historiaAgenda>>

Enviado(s, e, g, acao) ==
    Seguir(s, [sync[s] EXCEPT !.passo = "anotar", !.e = e, !.g = g, !.acao = acao,
                              !.ver = google[g].ver + 1])

\* One call to Google: DELETE, PUT or POST.  A PUT of a deleted event restores
\* it or fails, as Google likes.
Enviar(s) ==
    LET e == Min(DOMAIN sync[s].lista)
        lido == sync[s].lista[e]
        copia(g) == [st |-> "vivo", cont |-> lido.ev.cont, ver |-> google[g].ver + 1, dono |-> e]
    IN /\ sync[s].passo = "enviar" /\ DOMAIN sync[s].lista # {}
       /\ \/ /\ lido.g # SemRemoto /\ lido.ev.st # "vivo" /\ google[lido.g].st = "vivo"
             /\ google' = [google EXCEPT ![lido.g].st = "cancelado", ![lido.g].ver = @ + 1]
             /\ Enviado(s, e, lido.g, "excluir")
             /\ UNCHANGED duvidosos
          \/ /\ lido.g # SemRemoto /\ lido.ev.st = "vivo"
             /\ google' = [google EXCEPT ![lido.g] = copia(lido.g)]
             /\ Enviado(s, e, lido.g, "vincular")
             /\ UNCHANGED duvidosos
          \/ \E g \in Remotos :
                /\ lido.g = SemRemoto /\ google[g].st = "livre"
                /\ google' = [google EXCEPT ![g] = copia(g)]
                /\ Enviado(s, e, g, "vincular")
                /\ duvidosos' = IF sync[s].junto = "sim" THEN duvidosos \cup {e} ELSE duvidosos
       /\ UNCHANGED <<tabelasAgenda, rasc, edicao, fixoAgenda, acertado, tardias, juntas, puladas>>

\* Mutant: the moment of the note, as in _pull.
VistoAteAgora(s, e) == relogio

\* sistema_atualizado_em: the version that was sent, not the one there is now.
VistoAte(s, e) == sync[s].lista[e].ev.mod

\* upsert_google_event_link or mark_google_event_deleted.
Anotar(s) ==
    LET e == sync[s].e  g == sync[s].g IN
    /\ sync[s].passo = "anotar"
    /\ ~EloPreso(s, e, g) /\ (sync[s].acao = "vincular" => ~Repetido(s, e, g))
    /\ rasc' = [rasc EXCEPT ![s].elo = Por(@, e,
          IF sync[s].acao = "excluir" THEN [Elo(s, e) EXCEPT !.st = "excluido"]
          ELSE [g |-> g, ver |-> sync[s].ver, sist |-> VistoAte(s, e),
                st |-> "sincronizado"])]
    /\ Seguir(s, [sync[s] EXCEPT !.passo = "enviar", !.e = SemEvento, !.g = SemRemoto,
                    !.acao = "nada", !.ver = 0, !.lista = [d \in DOMAIN @ \ {e} |-> @[d]]])
    /\ UNCHANGED <<tabelasAgenda, google, edicao, fixoAgenda, historiaAgenda>>

-----------------------------------------------------------------------------
Gravar(s) ==
    /\ evento' = [e \in Eventos |-> Ev(s, e)]
    /\ elo' = [e \in Eventos |-> Elo(s, e)]
    /\ rasc' = [rasc EXCEPT ![s] = SemRascunho]
    /\ Seguir(s, SyncLivre)

\* finish_google_sync and the commit.
Concluir(s) ==
    /\ \/ sync[s].passo = "fim"
       \/ sync[s].passo = "enviar" /\ DOMAIN sync[s].lista = {}
    /\ token' = sync[s].token
    /\ acertado' = IF sync[s].calmo = "sim" THEN "sim" ELSE acertado
    /\ Gravar(s)
    /\ UNCHANGED <<google, edicao, fixoAgenda, tardias, duvidosos, juntas, puladas>>

\* Google answers with an error: what was done until then is committed, the
\* token stays.
Recusada(s) ==
    LET e == Min(DOMAIN sync[s].lista) IN
    /\ sync[s].passo = "enviar" /\ DOMAIN sync[s].lista # {}
    /\ sync[s].lista[e].g # SemRemoto /\ google[sync[s].lista[e].g].st = "cancelado"
    /\ quedas' = quedas

Falhar(s) ==
    /\ \/ Recusada(s)
       \/ /\ \/ sync[s].passo = "buscar"
             \/ sync[s].passo = "enviar" /\ DOMAIN sync[s].lista # {}
          /\ quedas < MaxQuedas /\ quedas' = quedas + 1
    /\ Gravar(s)
    /\ UNCHANGED <<token, google, edicao, direcao, relogio, feitas, historiaAgenda>>

\* The transaction is rolled back; what Google did stays.
Desfazer(s) ==
    /\ rasc' = [rasc EXCEPT ![s] = SemRascunho]
    /\ Seguir(s, SyncLivre)
    /\ duvidosos' = IF direcao # "sistema_google" THEN duvidosos
                    ELSE duvidosos \cup {e \in Eventos :
                            \E g \in Remotos : google[g].dono = e /\ elo[e].g # g}
    /\ UNCHANGED <<tabelasAgenda, google, edicao, direcao, relogio, feitas, acertado, tardias, juntas,
                   puladas>>

\* A crash, an answer of Google that never came, or a deadlock of two
\* synchronizations.
Cair(s) ==
    /\ sync[s].passo # "livre" /\ quedas < MaxQuedas
    /\ quedas' = quedas + 1
    /\ Desfazer(s)

\* Another event has the link of this Google event: the unique constraint.
Violar(s) ==
    /\ sync[s].passo \in {"aplicar", "anotar"} /\ sync[s].acao \notin {"nada", "excluir"}
    /\ ~EventoPreso(s, sync[s].e) /\ ~EloPreso(s, sync[s].e, sync[s].g)
    /\ Repetido(s, sync[s].e, sync[s].g)
    /\ quedas' = quedas
    /\ Desfazer(s)

NextAgenda ==
    \/ \E g \in Remotos : GoogleCria(g) \/ \E st \in {"vivo", "cancelado"} : GoogleAltera(g, st)
    \/ \E e \in Eventos : CriarEvento(e)
    \/ \E r \in Edicoes : \/ GravarEvento(r)
                          \/ \E e \in Eventos, tipo \in {"vivo", "cancelado", "excluido"} :
                                LerEvento(r, e, tipo)
    \/ \E s \in Syncs :
          \/ Sincronizar(s) \/ Buscar(s) \/ Aplicar(s) \/ Ignorar(s) \/ FimDaBusca(s)
          \/ \E g \in Remotos : Pular(s, g) \/ Escolher(s, g)
          \/ LerEventos(s) \/ Enviar(s) \/ Anotar(s)
          \/ Concluir(s) \/ Falhar(s) \/ Cair(s) \/ Violar(s)

SpecAgenda == InitAgenda /\ [][NextAgenda]_varsAgenda

(***************************************************************************)
(* Properties.                                                             *)
(***************************************************************************)
Copias(e) == {g \in Remotos : google[g].st = "vivo" /\ google[g].dono = e}

\* No event is twice in the Google calendar, whatever crashed and was
\* synchronized again: _pull, which goes first, adopts what a lost push left
\* there.  Three ways remain to repeat one: overlapping synchronizations, the
\* direction that never pulls, and a pull that passes over the copy it should
\* have adopted.
UmaCopia == \A e \in Eventos \ duvidosos : Cardinality(Copias(e)) <= 1

\* This version of the copy was passed over.
Passada(g) == <<g, google[g].ver>> \in puladas

\* After a synchronization in both directions that nobody disturbed, whatever
\* crashed or failed before it, an event that lives here is at Google with the
\* same contents, and whatever lives at Google has an event here, but for the
\* copies that a pull passed over as they are; as long as no two
\* synchronizations overlapped, and no pull passed over a copy to be adopted.
Acertado ==
    acertado = "sim" /\ direcao = "bidirecional" /\ juntas = "nao" /\ duvidosos = {}

Convergem ==
    Acertado =>
        /\ \A e \in Eventos \ tardias : evento[e].st = "vivo" =>
              /\ elo[e].g # SemRemoto
              /\ \/ google[elo[e].g].st = "vivo" /\ google[elo[e].g].cont = evento[e].cont
                 \/ Passada(elo[e].g)
        /\ \A g \in Remotos : google[g].st = "vivo" =>
              Passada(g) \/ \E e \in Eventos : elo[e].g = g
=============================================================================

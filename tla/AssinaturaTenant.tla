-------------------------- MODULE AssinaturaTenant --------------------------
(***************************************************************************)
(* Contracts, the payment events a provider posts about them, and the      *)
(* tenants that the events create, activate and mark overdue (tenants/).   *)
(*                                                                         *)
(* The provider delivers an event again until it is answered, several      *)
(* deliveries and managers' requests run at once, and a handler is a       *)
(* sequence of reads followed by one commit: pedido[r] is the handler of a *)
(* delivery or of a manager's request.                                     *)
(***************************************************************************)
EXTENDS Integers, FiniteSets

CONSTANTS
    Contratos,     \* ids of public.contratacao (bound)
    Tenants,       \* ids of public.tenant (bound)
    Eventos,       \* event ids of the provider (bound)
    Pedidos,       \* webhook and manager requests in progress at once (bound)
    StatusPedidos, \* statuses that managers give a tenant (bound)
    MaxErros,      \* crashes and timeouts of a webhook in a behaviour (bound)
    Nada

ASSUME NadaForaDaAssinatura == Nada \notin Contratos \cup Tenants \cup Eventos
ASSUME ErrosNaturais == MaxErros \in Nat
ASSUME StatusDeTenant ==
    StatusPedidos \subseteq {"pendente", "ativo", "trial", "suspenso", "inadimplente", "cancelado"}

VARIABLES
    contrato,      \* contract -> status and tenant of its row
    tenant,        \* tenant -> status and slug of its row
    evento,        \* event -> what it says and whether its row was committed
    efeitos,       \* history: how many times an event took effect
    criador,       \* history: tenant -> the contract whose payment created it
    sobrepostos,   \* history: contracts with two approvals in progress at once
    pedido,        \* requests in progress
    erros          \* crashes so far

varsAssinatura == <<contrato, tenant, evento, efeitos, criador, sobrepostos, pedido, erros>>
historia == <<efeitos, criador, sobrepostos>>

StatusTenant == {"pendente", "ativo", "trial", "suspenso", "inadimplente", "cancelado"}
TiposEvento == {"aprovado", "falhou", "atrasado"}

\* The slug that every contract and manager asks for, or one with a piece of
\* the contract's uuid.
Slugs == {"pedido"} \cup Contratos

SemTenant == [st |-> "livre", slug |-> Nada]
SemPedido == [passo |-> "livre", e |-> Nada, k |-> Nada, t |-> Nada, slug |-> Nada,
              lido |-> "nenhum", novo |-> "nenhum"]
PassosPedido == {"livre", "ler", "falhar", "lerTenant", "ativar", "verSlug", "criar",
                 "inserir", "reler", "gravar"}

LinhaContrato == [st : {"nenhum", "pendente", "aprovada", "pagamento_falhou"},
                  tenant : Tenants \cup {Nada}]
LinhaTenant == [st : StatusTenant \cup {"livre"}, slug : Slugs \cup {Nada}]
Evento == [tipo : TiposEvento, k : Contratos, t : Tenants, feito : {"nao", "sim"}]
Pedido == [passo : PassosPedido, e : Eventos \cup {Nada}, k : Contratos \cup {Nada},
           t : Tenants \cup {Nada}, slug : Slugs \cup {Nada},
           lido : StatusTenant \cup {"nenhum", "aprovada", "pagamento_falhou"},
           novo : StatusTenant \cup {"nenhum"}]

TipoAssinatura ==
    /\ contrato \in [Contratos -> LinhaContrato]
    /\ tenant \in [Tenants -> LinhaTenant]
    /\ evento \in [Eventos -> Evento]
    /\ efeitos \in [Eventos -> Nat]
    /\ criador \in [Tenants -> Contratos \cup {Nada}]
    /\ sobrepostos \subseteq Contratos
    /\ pedido \in [Pedidos -> Pedido]
    /\ erros \in 0 .. MaxErros

InitAssinatura ==
    /\ contrato = [k \in Contratos |-> [st |-> "nenhum", tenant |-> Nada]]
    /\ tenant = [t \in Tenants |-> SemTenant]
    /\ evento \in [Eventos -> [tipo : TiposEvento, k : Contratos, t : Tenants, feito : {"nao"}]]
    /\ efeitos = [e \in Eventos |-> 0]
    /\ criador = [t \in Tenants |-> Nada]
    /\ sobrepostos = {}
    /\ pedido = [r \in Pedidos |-> SemPedido]
    /\ erros = 0

Livre(t) == tenant[t].st = "livre"
SlugUsado(s) == \E t \in Tenants : tenant[t].slug = s

\* resolve_tenant_for_login: whether the people of a tenant may come in.
Liberado(t) == tenant[t].st \in {"ativo", "trial"}

Encerrar(r) == pedido' = [pedido EXCEPT ![r] = SemPedido]
Avancar(r, passo) == pedido' = [pedido EXCEPT ![r].passo = passo]

\* The commit of a delivery: its effect and its row are one transaction.
Feito(r) ==
    LET e == pedido[r].e IN
    /\ evento' = [evento EXCEPT ![e].feito = "sim"]
    /\ efeitos' = [efeitos EXCEPT ![e] = @ + 1]
    /\ Encerrar(r)

(***************************************************************************)
(* Contracts.                                                              *)
(***************************************************************************)
\* create_contratacao; the same payload again finds the row by its key.
CriarContratacao(k) ==
    /\ contrato[k].st = "nenhum"
    /\ contrato' = [contrato EXCEPT ![k].st = "pendente"]
    /\ UNCHANGED <<tenant, evento, historia, pedido, erros>>

(***************************************************************************)
(* Payment events.                                                         *)
(***************************************************************************)
\* claim_webhook_event: the INSERT waits for another delivery of the event
\* that has not committed, and finds nothing to do when one has.
Reclamar(r, e) ==
    /\ pedido[r].passo = "livre"
    /\ evento[e].feito = "nao"
    /\ \A s \in Pedidos : pedido[s].e # e
    /\ pedido' = [pedido EXCEPT ![r] = [SemPedido EXCEPT !.passo = "ler", !.e = e]]
    /\ UNCHANGED <<contrato, tenant, evento, historia, erros>>

\* Mutant: an UPDATE that finds no active tenant is answered with an error.
MarcarInadimplenteOuErro(r) ==
    LET t == evento[pedido[r].e].t IN
    /\ pedido[r].passo = "ler"
    /\ evento[pedido[r].e].tipo = "atrasado"
    /\ IF tenant[t].st = "ativo"
       THEN /\ tenant' = [tenant EXCEPT ![t].st = "inadimplente"]
            /\ Feito(r)
            /\ UNCHANGED <<contrato, criador, sobrepostos>>
       ELSE Encerrar(r) /\ UNCHANGED <<contrato, tenant, evento, historia>>
    /\ UNCHANGED erros

\* mark_tenant_overdue: one conditional UPDATE, and the commit.
MarcarInadimplente(r) ==
    LET t == evento[pedido[r].e].t IN
    /\ pedido[r].passo = "ler"
    /\ evento[pedido[r].e].tipo = "atrasado"
    /\ tenant' = IF tenant[t].st = "ativo" THEN [tenant EXCEPT ![t].st = "inadimplente"] ELSE tenant
    /\ Feito(r)
    /\ UNCHANGED <<contrato, criador, sobrepostos, erros>>

\* Two deliveries that approve k without having seen its tenant.
Aprovando(s, k) == pedido[s].passo \in {"verSlug", "criar"} /\ pedido[s].k = k
NovoSobreposto(k) == IF \E s \in Pedidos : Aprovando(s, k) THEN {k} ELSE {}

Proximo(e, k) ==
    IF evento[e].tipo = "falhou" THEN "falhar"
    ELSE IF contrato[k].tenant = Nada THEN "verSlug" ELSE "lerTenant"

\* get_contratacao: the row as it is now.
LerContratacao(r) ==
    LET e == pedido[r].e
        k == evento[e].k
    IN /\ pedido[r].passo = "ler"
       /\ evento[e].tipo # "atrasado"
       /\ contrato[k].st # "nenhum"
       /\ pedido' = [pedido EXCEPT ![r].passo = Proximo(e, k), ![r].k = k,
                                   ![r].t = contrato[k].tenant,
                                   ![r].lido = IF contrato[k].st = "pendente" THEN "pendente"
                                               ELSE contrato[k].st]
       /\ sobrepostos' = sobrepostos \cup
            (IF Proximo(e, k) = "verSlug" THEN NovoSobreposto(k) ELSE {})
       /\ UNCHANGED <<contrato, tenant, evento, efeitos, criador, erros>>

\* mark_payment_failed: the status is written if it differs from the one read.
FalharPagamento(r) ==
    LET k == pedido[r].k IN
    /\ pedido[r].passo = "falhar"
    /\ contrato' = IF pedido[r].lido = "pagamento_falhou" THEN contrato
                   ELSE [contrato EXCEPT ![k].st = "pagamento_falhou"]
    /\ Feito(r)
    /\ UNCHANGED <<tenant, criador, sobrepostos, erros>>

\* process_payment_approved of a contract that has its tenant.
LerTenant(r) ==
    /\ pedido[r].passo = "lerTenant"
    /\ pedido' = [pedido EXCEPT ![r].passo = "ativar", ![r].lido = tenant[pedido[r].t].st]
    /\ UNCHANGED <<contrato, tenant, evento, historia, erros>>

Ativar(r) ==
    /\ pedido[r].passo = "ativar"
    /\ tenant' = IF pedido[r].lido = "ativo" THEN tenant
                 ELSE [tenant EXCEPT ![pedido[r].t].st = "ativo"]
    /\ Feito(r)
    /\ UNCHANGED <<contrato, criador, sobrepostos, erros>>

SlugDe(k) == IF SlugUsado("pedido") THEN k ELSE "pedido"

VerSlug(r) ==
    /\ pedido[r].passo = "verSlug"
    /\ pedido' = [pedido EXCEPT ![r].passo = "criar", ![r].slug = SlugDe(pedido[r].k)]
    /\ UNCHANGED <<contrato, tenant, evento, historia, erros>>

\* The tenant, the contract and the event are committed, if uq_tenant_slug
\* takes the slug.
CriarTenant(r) ==
    LET k == pedido[r].k IN
    /\ pedido[r].passo = "criar"
    /\ ~SlugUsado(pedido[r].slug)
    /\ \E t \in Tenants :
          /\ Livre(t)
          /\ tenant' = [tenant EXCEPT ![t] = [st |-> "ativo", slug |-> pedido[r].slug]]
          /\ contrato' = [contrato EXCEPT ![k] = [st |-> "aprovada", tenant |-> t]]
          /\ criador' = [criador EXCEPT ![t] = k]
    /\ Feito(r)
    /\ UNCHANGED <<sobrepostos, erros>>

\* Mutant: the claim was committed before the handler failed.
DesfazerSemEvento(r) ==
    /\ IF pedido[r].e # Nada THEN evento' = [evento EXCEPT ![pedido[r].e].feito = "sim"]
       ELSE UNCHANGED evento
    /\ Encerrar(r)
    /\ UNCHANGED <<contrato, tenant, historia>>

\* The transaction is rolled back, the claim of the event with it.
Desfazer(r) ==
    /\ Encerrar(r)
    /\ UNCHANGED <<contrato, tenant, evento, historia>>

\* The contract is not found, or the slug was taken: the provider is answered
\* with an error and delivers again.
Recusar(r) ==
    /\ \/ /\ pedido[r].passo = "ler"
          /\ evento[pedido[r].e].tipo # "atrasado"
          /\ contrato[evento[pedido[r].e].k].st = "nenhum"
       \/ pedido[r].passo \in {"criar", "inserir"} /\ SlugUsado(pedido[r].slug)
    /\ Desfazer(r)
    /\ UNCHANGED erros

Cair(r) ==
    /\ pedido[r].e # Nada
    /\ erros < MaxErros
    /\ erros' = erros + 1
    /\ Desfazer(r)

(***************************************************************************)
(* Managers of the platform.                                               *)
(***************************************************************************)
\* create: the slug is looked up first, the index decides at the flush.
LerNovoTenant(r, st) ==
    /\ pedido[r].passo = "livre"
    /\ ~SlugUsado("pedido")
    /\ pedido' = [pedido EXCEPT ![r] =
          [SemPedido EXCEPT !.passo = "inserir", !.slug = "pedido", !.novo = st]]
    /\ UNCHANGED <<contrato, tenant, evento, historia, erros>>

InserirTenant(r) ==
    /\ pedido[r].passo = "inserir"
    /\ ~SlugUsado(pedido[r].slug)
    /\ \E t \in Tenants :
          Livre(t) /\ tenant' = [tenant EXCEPT ![t] = [st |-> pedido[r].novo, slug |-> pedido[r].slug]]
    /\ Encerrar(r)
    /\ UNCHANGED <<contrato, evento, historia, erros>>

\* update, and activate before it reads the row again.
LerParaAlterar(r, t, st) ==
    /\ pedido[r].passo = "livre"
    /\ ~Livre(t)
    /\ pedido' = [pedido EXCEPT ![r] =
          [SemPedido EXCEPT !.passo = "gravar", !.t = t, !.lido = tenant[t].st, !.novo = st]]
    /\ UNCHANGED <<contrato, tenant, evento, historia, erros>>

LerParaAtivar(r, t) ==
    /\ pedido[r].passo = "livre"
    /\ tenant[t].st \in {"pendente", "trial", "suspenso"}
    /\ pedido' = [pedido EXCEPT ![r] =
          [SemPedido EXCEPT !.passo = "reler", !.t = t, !.novo = "ativo"]]
    /\ UNCHANGED <<contrato, tenant, evento, historia, erros>>

RelerTenant(r) ==
    /\ pedido[r].passo = "reler"
    /\ pedido' = [pedido EXCEPT ![r].passo = "gravar", ![r].lido = tenant[pedido[r].t].st]
    /\ UNCHANGED <<contrato, tenant, evento, historia, erros>>

\* The status is written if it differs from the one read.
GravarTenant(r) ==
    /\ pedido[r].passo = "gravar"
    /\ tenant' = IF pedido[r].lido = pedido[r].novo THEN tenant
                 ELSE [tenant EXCEPT ![pedido[r].t].st = pedido[r].novo]
    /\ Encerrar(r)
    /\ UNCHANGED <<contrato, evento, historia, erros>>

\* suspend_overdue.
SuspenderInadimplentes ==
    /\ \E t \in Tenants : tenant[t].st = "inadimplente"
    /\ tenant' = [t \in Tenants |->
          IF tenant[t].st = "inadimplente" THEN [tenant[t] EXCEPT !.st = "suspenso"] ELSE tenant[t]]
    /\ UNCHANGED <<contrato, evento, historia, pedido, erros>>

(***************************************************************************)
(* Specification.                                                          *)
(***************************************************************************)
ProcessarEvento(r) ==
    \/ MarcarInadimplente(r) \/ LerContratacao(r) \/ FalharPagamento(r)
    \/ LerTenant(r) \/ Ativar(r) \/ VerSlug(r) \/ CriarTenant(r) \/ Recusar(r)

Continuar(r) ==
    ProcessarEvento(r) \/ InserirTenant(r) \/ RelerTenant(r) \/ GravarTenant(r)

Administrar ==
    \/ \E k \in Contratos : CriarContratacao(k)
    \/ \E r \in Pedidos, st \in StatusPedidos : LerNovoTenant(r, st)
    \/ \E r \in Pedidos, t \in Tenants, st \in StatusPedidos : LerParaAlterar(r, t, st)
    \/ \E r \in Pedidos, t \in Tenants : LerParaAtivar(r, t)
    \/ SuspenderInadimplentes

NextAssinatura ==
    \/ Administrar
    \/ \E r \in Pedidos, e \in Eventos : Reclamar(r, e)
    \/ \E r \in Pedidos : Continuar(r) \/ Cair(r)

-----------------------------------------------------------------------------
\* Whatever is delivered twice, crashes or is refused, an event takes effect
\* once, and exactly when its row says so.
EventoUmaVez ==
    \A e \in Eventos : efeitos[e] = (IF evento[e].feito = "sim" THEN 1 ELSE 0)

\* The payments of a contract make one tenant, but for two approvals that both
\* read the contract before either committed.
UmTenantPorContrato ==
    \A t, u \in Tenants :
        (criador[t] # Nada /\ criador[t] = criador[u] /\ t # u) => criador[t] \in sobrepostos

\* A contract that says approved points to a tenant that a payment of it made.
AprovadaTemTenant ==
    \A k \in Contratos : contrato[k].st = "aprovada" =>
        contrato[k].tenant # Nada /\ criador[contrato[k].tenant] = k

\* CONTRATOS. What the payments of a contract leave, however they are delivered.
ContratoConfere == EventoUmaVez /\ UmTenantPorContrato /\ AprovadaTemTenant

\* Refuted: a contract whose payment was approved does not say that it failed.
AprovacaoFica ==
    \A k \in Contratos : contrato[k].tenant # Nada => contrato[k].st = "aprovada"
=============================================================================

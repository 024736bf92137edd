-------------------------- MODULE ContaTenantProofs --------------------------
(***************************************************************************)
(* Proofs about AssinaturaTenant and SessoesUsuario, for every number of   *)
(* contracts, tenants, events, users, sessions and simultaneous requests.  *)
(*                                                                         *)
(* UmTenantPorContrato is not inductive: a handler reads that a contract   *)
(* has no tenant and creates one later.  AprovacoesOK says what its being  *)
(* on the way means for the tenants that are already there.  Nor is        *)
(* SessaoDepoisDoCorte: between the statement that chooses the sessions to *)
(* end and the commit, AlvosOK keeps them complete, because the user's row *)
(* is locked and what opens meanwhile is marked late.                      *)
(***************************************************************************)
EXTENDS SessoesUsuario, TLAPS

(***************************************************************************)
(* Contracts and payments.                                                 *)
(***************************************************************************)
PassosDeEvento == {"ler", "falhar", "lerTenant", "ativar", "verSlug", "criar"}
PassosDeContrato == PassosDeEvento \ {"ler"}
PassosDeTenant == {"lerTenant", "ativar", "reler", "gravar"}
PassosDeGestor == {"inserir", "reler", "gravar"}

\* A delivery that has not committed holds an event that took no effect, alone.
EventosOK ==
    \A r \in Pedidos :
        /\ pedido[r].passo \in PassosDeEvento => pedido[r].e \in Eventos
        /\ pedido[r].passo \in PassosDeContrato => pedido[r].k \in Contratos
        /\ pedido[r].e # Nada =>
              /\ evento[pedido[r].e].feito = "nao"
              /\ \A s \in Pedidos \ {r} : pedido[s].e # pedido[r].e

\* A request that writes a tenant has read one that exists, and writes a status.
TenantsOK ==
    \A r \in Pedidos :
        /\ pedido[r].passo \in PassosDeTenant =>
              pedido[r].t \in Tenants /\ tenant[pedido[r].t].st # "livre"
        /\ pedido[r].passo \in PassosDeGestor =>
              pedido[r].e = Nada /\ pedido[r].novo \in StatusTenant

\* The tenant of a contract is the one that its payment created.
ContratosOK ==
    \A k \in Contratos :
        /\ contrato[k].tenant # Nada =>
              tenant[contrato[k].tenant].st # "livre" /\ criador[contrato[k].tenant] = k
        /\ contrato[k].st = "aprovada" => contrato[k].tenant # Nada
        /\ \A t \in Tenants : criador[t] = k => contrato[k].tenant # Nada

\* An approval on its way that did not see the tenant overlapped the one that
\* made it, and overlaps every other one on its way.
AprovacoesOK ==
    \A k \in Contratos, r \in Pedidos : Aprovando(r, k) =>
        /\ \A t \in Tenants : criador[t] = k => k \in sobrepostos
        /\ \A s \in Pedidos \ {r} : Aprovando(s, k) => k \in sobrepostos

IInvAssinatura ==
    /\ TipoAssinatura
    /\ EventosOK /\ TenantsOK /\ ContratosOK /\ AprovacoesOK
    /\ EventoUmaVez /\ UmTenantPorContrato

(***************************************************************************)
(* Users and sessions.                                                     *)
(***************************************************************************)
SessoesOK == \A s \in Sessoes : sessao[s].st # "livre" => sessao[s].u \in Usuarios

\* A request names the user, and the session of that user, that it works on.
ChamadasOK ==
    \A r \in Chamadas :
        /\ rq[r].passo \in {"falhar", "abrir", "cortar", "confirmar", "trocar"} => rq[r].u \in Usuarios
        /\ rq[r].passo \in {"renovar", "tocar", "revogar", "trocar"} =>
              rq[r].s \in Sessoes /\ sessao[rq[r].s].st # "livre"
        /\ rq[r].passo \in {"cortar", "confirmar"} =>
              /\ rq[r].tipo \in TiposUsuario
              /\ rq[r].s # Nada => sessao[rq[r].s].st # "livre" /\ sessao[rq[r].s].u = rq[r].u
        /\ rq[r].passo = "confirmar" => \A v \in rq[r].alvos : sessao[v].st # "livre"

\* Until a cut commits, it has every session that is there and is not late.
AlvosOK ==
    \A r \in Chamadas : rq[r].passo = "confirmar" /\ rq[r].tipo \in TiposCorte =>
        \A v \in Sessoes :
            sessao[v].st = "viva" /\ sessao[v].u = rq[r].u /\ v # rq[r].s /\ sessao[v].tardia = "nao" =>
                v \in rq[r].alvos

IInvSessoes == TipoSessoes /\ SessoesOK /\ ChamadasOK /\ AlvosOK /\ SessaoDepoisDoCorte

IInv == IInvAssinatura /\ IInvSessoes

(***************************************************************************)
(* Rows and requests keep their types.                                     *)
(***************************************************************************)
LEMMA TenantMuda ==
    ASSUME tenant \in [Tenants -> LinhaTenant], NEW t \in Tenants, NEW st \in StatusTenant
    PROVE  [tenant EXCEPT ![t].st = st] \in [Tenants -> LinhaTenant]
<1>1. ASSUME NEW x \in LinhaTenant PROVE [x EXCEPT !.st = st] \in LinhaTenant
  BY DEF LinhaTenant
<1> QED  BY <1>1

LEMMA ContratoMuda ==
    ASSUME contrato \in [Contratos -> LinhaContrato], NEW k \in Contratos,
           NEW st \in {"pendente", "pagamento_falhou"}
    PROVE  [contrato EXCEPT ![k].st = st] \in [Contratos -> LinhaContrato]
<1>1. ASSUME NEW x \in LinhaContrato PROVE [x EXCEPT !.st = st] \in LinhaContrato
  BY DEF LinhaContrato
<1> QED  BY <1>1

LEMMA SemPedidoTipo == SemPedido \in Pedido
  BY DEF SemPedido, Pedido, PassosPedido

LEMMA FeitoTipo ==
    ASSUME TipoAssinatura, NEW r \in Pedidos, Feito(r), pedido[r].e \in Eventos
    PROVE  /\ evento' \in [Eventos -> Evento]
           /\ efeitos' \in [Eventos -> Nat]
           /\ pedido' \in [Pedidos -> Pedido]
<1>1. ASSUME NEW x \in Evento PROVE [x EXCEPT !.feito = "sim"] \in Evento
  BY DEF Evento
<1>2. evento' \in [Eventos -> Evento]
  BY <1>1 DEF Feito, TipoAssinatura
<1>3. efeitos' \in [Eventos -> Nat] /\ pedido' \in [Pedidos -> Pedido]
  BY SemPedidoTipo DEF Feito, Encerrar, TipoAssinatura
<1> QED  BY <1>2, <1>3

LEMMA LeituraTipo ==
    ASSUME NEW x \in Pedido
    PROVE  /\ \A p \in PassosPedido, l \in StatusTenant : [x EXCEPT !.passo = p, !.lido = l] \in Pedido
           /\ \A p \in PassosPedido, s \in Slugs : [x EXCEPT !.passo = p, !.slug = s] \in Pedido
           /\ \A p \in PassosPedido, k \in Contratos, t \in Tenants \cup {Nada},
                 l \in StatusTenant \cup {"aprovada", "pagamento_falhou"} :
                 [x EXCEPT !.passo = p, !.k = k, !.t = t, !.lido = l] \in Pedido
  BY DEF Pedido

\* What a request has read goes into its record, and into no other.
LEMMA PedidoLe ==
    ASSUME pedido \in [Pedidos -> Pedido], NEW r \in Pedidos, NEW x \in Pedido,
           pedido' = [pedido EXCEPT ![r] = x]
    PROVE  /\ pedido' \in [Pedidos -> Pedido]
           /\ pedido'[r] = x
           /\ \A s \in Pedidos \ {r} : pedido'[s] = pedido[s]
  OBVIOUS

LEMMA AssinaturaPasso ==
    ASSUME IInvAssinatura, NextAssinatura
    PROVE  IInvAssinatura'
<1> USE NadaForaDaAssinatura, StatusDeTenant, ErrosNaturais DEF historia
<1>1. ASSUME NEW k \in Contratos, CriarContratacao(k) PROVE IInvAssinatura'
  <2>1. TipoAssinatura'
    BY <1>1 DEF IInvAssinatura, CriarContratacao, TipoAssinatura, Evento, Pedido, LinhaContrato,
       LinhaTenant
  <2>2. EventosOK'
    BY <1>1 DEF IInvAssinatura, CriarContratacao, TipoAssinatura, EventosOK, PassosDeContrato,
       PassosDeEvento, Evento, Pedido, LinhaContrato, LinhaTenant
  <2>3. TenantsOK'
    BY <1>1 DEF IInvAssinatura, CriarContratacao, TipoAssinatura, EventosOK, TenantsOK,
       PassosDeContrato, PassosDeEvento, PassosDeGestor, PassosDeTenant, StatusTenant, Evento, Pedido,
       LinhaContrato, LinhaTenant
  <2>4. ContratosOK'
    BY <1>1 DEF IInvAssinatura, CriarContratacao, TipoAssinatura, EventosOK, TenantsOK, ContratosOK,
       AprovacoesOK, PassosDeContrato, PassosDeEvento, PassosDeGestor, PassosDeTenant, StatusTenant,
       Aprovando, Evento, Pedido, LinhaContrato, LinhaTenant
  <2>5. AprovacoesOK'
    BY <1>1 DEF IInvAssinatura, CriarContratacao, TipoAssinatura, EventosOK, AprovacoesOK, ContratosOK,
       PassosDeContrato, PassosDeEvento, Aprovando, Evento, Pedido, LinhaContrato, LinhaTenant
  <2>6. EventoUmaVez'
    BY <1>1 DEF IInvAssinatura, CriarContratacao, TipoAssinatura, EventosOK, EventoUmaVez,
       PassosDeContrato, PassosDeEvento, Evento, Pedido, LinhaContrato, LinhaTenant
  <2>7. UmTenantPorContrato'
    BY <1>1 DEF IInvAssinatura, CriarContratacao, TipoAssinatura, EventosOK, ContratosOK, AprovacoesOK,
       UmTenantPorContrato, PassosDeContrato, PassosDeEvento, Aprovando, Evento, Pedido, LinhaContrato,
       LinhaTenant
  <2> QED BY <2>1, <2>2, <2>3, <2>4, <2>5, <2>6, <2>7 DEF IInvAssinatura
<1>2. ASSUME NEW r \in Pedidos, NEW e \in Eventos, Reclamar(r, e) PROVE IInvAssinatura'
  <2>1. TipoAssinatura'
    <3>1. [SemPedido EXCEPT !.passo = "ler", !.e = e] \in Pedido
      BY <1>2 DEF SemPedido, Pedido, PassosPedido, StatusTenant, Slugs
    <3> QED
      BY <1>2, <3>1, PedidoLe DEF IInvAssinatura, TipoAssinatura, Reclamar
  <2>2. EventosOK'
    BY <1>2 DEF IInvAssinatura, Reclamar, TipoAssinatura, EventosOK, SemPedido, PassosDeContrato,
       PassosDeEvento, Evento, Pedido, LinhaContrato, LinhaTenant
  <2>3. TenantsOK'
    BY <1>2 DEF IInvAssinatura, Reclamar, TipoAssinatura, EventosOK, TenantsOK, SemPedido,
       PassosDeContrato, PassosDeEvento, PassosDeGestor, PassosDeTenant, StatusTenant, Evento, Pedido,
       LinhaContrato, LinhaTenant
  <2>4. ContratosOK'
    BY <1>2 DEF IInvAssinatura, Reclamar, TipoAssinatura, EventosOK, TenantsOK, ContratosOK,
       AprovacoesOK, SemPedido, PassosDeContrato, PassosDeEvento, PassosDeGestor, PassosDeTenant,
       StatusTenant, Aprovando, Evento, Pedido, LinhaContrato, LinhaTenant
  <2>5. AprovacoesOK'
    BY <1>2 DEF IInvAssinatura, Reclamar, TipoAssinatura, EventosOK, AprovacoesOK, ContratosOK,
       SemPedido, PassosDeContrato, PassosDeEvento, Aprovando, Evento, Pedido, LinhaContrato,
       LinhaTenant
  <2>6. EventoUmaVez'
    BY <1>2 DEF IInvAssinatura, Reclamar, TipoAssinatura, EventosOK, EventoUmaVez, SemPedido,
       PassosDeContrato, PassosDeEvento, Evento, Pedido, LinhaContrato, LinhaTenant
  <2>7. UmTenantPorContrato'
    BY <1>2 DEF IInvAssinatura, Reclamar, TipoAssinatura, EventosOK, ContratosOK, AprovacoesOK,
       UmTenantPorContrato, SemPedido, PassosDeContrato, PassosDeEvento, Aprovando, Evento, Pedido,
       LinhaContrato, LinhaTenant
  <2> QED BY <2>1, <2>2, <2>3, <2>4, <2>5, <2>6, <2>7 DEF IInvAssinatura
<1>3. ASSUME NEW r \in Pedidos, MarcarInadimplente(r) PROVE IInvAssinatura'
  <2>1. TipoAssinatura'
    <3>1. pedido[r].e \in Eventos
      BY <1>3 DEF IInvAssinatura, EventosOK, MarcarInadimplente, PassosDeEvento
    <3>2. evento[pedido[r].e].t \in Tenants
      BY <3>1 DEF IInvAssinatura, TipoAssinatura, Evento
    <3>3. tenant' \in [Tenants -> LinhaTenant]
      BY <1>3, <3>2, TenantMuda DEF IInvAssinatura, TipoAssinatura, MarcarInadimplente, StatusTenant
    <3> QED
      BY <1>3, <3>1, <3>3, FeitoTipo DEF IInvAssinatura, TipoAssinatura, MarcarInadimplente
  <2>2. EventosOK'
    BY <1>3 DEF IInvAssinatura, MarcarInadimplente, TipoAssinatura, EventosOK, Feito, PassosDeContrato,
       PassosDeEvento, Encerrar, SemPedido, Evento, Pedido, LinhaContrato, LinhaTenant
  <2>3. TenantsOK'
    BY <1>3 DEF IInvAssinatura, MarcarInadimplente, TipoAssinatura, EventosOK, TenantsOK, Feito,
       PassosDeContrato, PassosDeEvento, PassosDeGestor, PassosDeTenant, StatusTenant, Encerrar,
       SemPedido, Evento, Pedido, LinhaContrato, LinhaTenant
  <2>4. ContratosOK'
    BY <1>3 DEF IInvAssinatura, MarcarInadimplente, TipoAssinatura, EventosOK, TenantsOK, ContratosOK,
       AprovacoesOK, Feito, PassosDeContrato, PassosDeEvento, PassosDeGestor, PassosDeTenant,
       StatusTenant, Aprovando, Encerrar, SemPedido, Evento, Pedido, LinhaContrato, LinhaTenant
  <2>5. AprovacoesOK'
    BY <1>3 DEF IInvAssinatura, MarcarInadimplente, TipoAssinatura, EventosOK, AprovacoesOK,
       ContratosOK, Feito, PassosDeContrato, PassosDeEvento, Aprovando, Encerrar, SemPedido, Evento,
       Pedido, LinhaContrato, LinhaTenant
  <2>6. EventoUmaVez'
    BY <1>3 DEF IInvAssinatura, MarcarInadimplente, TipoAssinatura, EventosOK, EventoUmaVez, Feito,
       PassosDeContrato, PassosDeEvento, Encerrar, SemPedido, Evento, Pedido, LinhaContrato, LinhaTenant
  <2>7. UmTenantPorContrato'
    BY <1>3 DEF IInvAssinatura, MarcarInadimplente, TipoAssinatura, EventosOK, ContratosOK,
       AprovacoesOK, UmTenantPorContrato, Feito, PassosDeContrato, PassosDeEvento, Aprovando, Encerrar,
       SemPedido, Evento, Pedido, LinhaContrato, LinhaTenant
  <2> QED BY <2>1, <2>2, <2>3, <2>4, <2>5, <2>6, <2>7 DEF IInvAssinatura
<1>4. ASSUME NEW r \in Pedidos, LerContratacao(r) PROVE IInvAssinatura'
  <2> DEFINE k == evento[pedido[r].e].k
             x == [pedido[r] EXCEPT !.passo = Proximo(pedido[r].e, k), !.k = k, !.t = contrato[k].tenant,
                                    !.lido = IF contrato[k].st = "pendente" THEN "pendente"
                                             ELSE contrato[k].st]
  <2>1. pedido[r] \in Pedido /\ pedido \in [Pedidos -> Pedido] /\ pedido[r].e \in Eventos
    BY <1>4 DEF IInvAssinatura, TipoAssinatura, EventosOK, LerContratacao, PassosDeEvento
  <2>2. k \in Contratos /\ contrato[k].tenant \in Tenants \cup {Nada}
    BY <2>1 DEF IInvAssinatura, TipoAssinatura, LinhaContrato, Evento
  <2>3. contrato[k].st \in {"pendente", "aprovada", "pagamento_falhou"}
    BY <1>4, <2>2 DEF IInvAssinatura, TipoAssinatura, LinhaContrato, LerContratacao
  <2>4. Proximo(pedido[r].e, k) \in {"falhar", "verSlug", "lerTenant"}
    BY DEF Proximo
  <2>5. x \in Pedido
    <3>1. Proximo(pedido[r].e, k) \in PassosPedido
      BY <2>4 DEF PassosPedido
    <3>2. (IF contrato[k].st = "pendente" THEN "pendente" ELSE contrato[k].st)
             \in StatusTenant \cup {"aprovada", "pagamento_falhou"}
      BY <2>3 DEF StatusTenant
    <3> HIDE DEF k
    <3> QED
      BY <2>1, <2>2, <3>1, <3>2, LeituraTipo
  <2>6. /\ x.passo = Proximo(pedido[r].e, k) /\ x.e = pedido[r].e /\ x.k = k
        /\ x.t = contrato[k].tenant /\ x.novo = pedido[r].novo
    BY <2>1 DEF Pedido
  <2>7. pedido' = [pedido EXCEPT ![r] = x]
    BY <1>4, <2>1 DEF LerContratacao
  <2> HIDE DEF x
  <2>8. /\ pedido' \in [Pedidos -> Pedido] /\ pedido'[r] = x
        /\ \A s \in Pedidos \ {r} : pedido'[s] = pedido[s]
    BY <2>1, <2>5, <2>7, PedidoLe
  <2>9. UNCHANGED <<contrato, tenant, evento, efeitos, criador, erros>>
    BY <1>4 DEF LerContratacao
  <2>10. TipoAssinatura'
    BY <1>4, <2>2, <2>8, <2>9 DEF IInvAssinatura, TipoAssinatura, LerContratacao, NovoSobreposto
  <2>11. EventosOK'
    <3>1. \A s \in Pedidos : pedido'[s].e = pedido[s].e
      BY <2>6, <2>8
    <3>2. \A s \in Pedidos \ {r} : pedido'[s].passo = pedido[s].passo /\ pedido'[s].k = pedido[s].k
      BY <2>8
    <3>3. pedido'[r].k \in Contratos
      BY <2>2, <2>6, <2>8
    <3> HIDE DEF k
    <3> QED
      BY <2>1, <2>9, <3>1, <3>2, <3>3 DEF IInvAssinatura, EventosOK
  <2>12. TenantsOK'
    <3>1. \A s \in Pedidos \ {r} : pedido'[s] = pedido[s]
      BY <2>8
    <3>2. x.passo \in PassosDeTenant => contrato[k].tenant # Nada
      BY <2>6 DEF Proximo, PassosDeTenant
    <3>3. x.passo \notin PassosDeGestor
      BY <2>4, <2>6 DEF PassosDeGestor
    <3>4. x.passo \in PassosDeTenant => x.t \in Tenants /\ tenant[x.t].st # "livre"
      BY <2>2, <2>6, <3>2 DEF IInvAssinatura, ContratosOK
    <3> QED
      BY <2>8, <2>9, <3>1, <3>3, <3>4 DEF IInvAssinatura, TenantsOK
  <2>13. ContratosOK' /\ EventoUmaVez'
    BY <2>9 DEF IInvAssinatura, ContratosOK, EventoUmaVez
  <2>14. AprovacoesOK'
    <3>1. x.passo = "verSlug" => contrato[k].tenant = Nada
      BY <2>6 DEF Proximo
    <3>2. \A c \in Contratos : Aprovando(r, c)' => c = k /\ x.passo = "verSlug"
      BY <2>4, <2>6, <2>8 DEF Aprovando
    <3>3. \A s \in Pedidos \ {r}, c \in Contratos : Aprovando(s, c)' = Aprovando(s, c)
      BY <2>8 DEF Aprovando
    <3>4. x.passo = "verSlug" => \A s \in Pedidos : Aprovando(s, k) => k \in sobrepostos'
      BY <1>4, <2>6 DEF LerContratacao, NovoSobreposto
    <3> QED
      BY <1>4, <2>2, <2>9, <3>1, <3>2, <3>3, <3>4 DEF IInvAssinatura, AprovacoesOK, ContratosOK,
         LerContratacao
  <2>15. UmTenantPorContrato'
    BY <1>4, <2>9 DEF IInvAssinatura, UmTenantPorContrato, LerContratacao
  <2> QED  BY <2>10, <2>11, <2>12, <2>13, <2>14, <2>15 DEF IInvAssinatura
<1>5. ASSUME NEW r \in Pedidos, FalharPagamento(r) PROVE IInvAssinatura'
  <2>1. TipoAssinatura'
    <3>1. pedido[r].e \in Eventos /\ pedido[r].k \in Contratos
      BY <1>5 DEF IInvAssinatura, EventosOK, FalharPagamento, PassosDeEvento, PassosDeContrato
    <3>2. contrato' \in [Contratos -> LinhaContrato]
      BY <1>5, <3>1, ContratoMuda DEF IInvAssinatura, TipoAssinatura, FalharPagamento
    <3> QED
      BY <1>5, <3>1, <3>2, FeitoTipo DEF IInvAssinatura, TipoAssinatura, FalharPagamento
  <2>2. EventosOK'
    BY <1>5 DEF IInvAssinatura, FalharPagamento, TipoAssinatura, EventosOK, Feito, PassosDeContrato,
       PassosDeEvento, Encerrar, SemPedido, Evento, Pedido, LinhaContrato, LinhaTenant
  <2>3. TenantsOK'
    BY <1>5 DEF IInvAssinatura, FalharPagamento, TipoAssinatura, EventosOK, TenantsOK, Feito,
       PassosDeContrato, PassosDeEvento, PassosDeGestor, PassosDeTenant, StatusTenant, Encerrar,
       SemPedido, Evento, Pedido, LinhaContrato, LinhaTenant
  <2>4. ContratosOK'
    BY <1>5 DEF IInvAssinatura, FalharPagamento, TipoAssinatura, EventosOK, TenantsOK, ContratosOK,
       AprovacoesOK, Feito, PassosDeContrato, PassosDeEvento, PassosDeGestor, PassosDeTenant,
       StatusTenant, Aprovando, Encerrar, SemPedido, Evento, Pedido, LinhaContrato, LinhaTenant
  <2>5. AprovacoesOK'
    BY <1>5 DEF IInvAssinatura, FalharPagamento, TipoAssinatura, EventosOK, AprovacoesOK, ContratosOK,
       Feito, PassosDeContrato, PassosDeEvento, Aprovando, Encerrar, SemPedido, Evento, Pedido,
       LinhaContrato, LinhaTenant
  <2>6. EventoUmaVez'
    BY <1>5 DEF IInvAssinatura, FalharPagamento, TipoAssinatura, EventosOK, EventoUmaVez, Feito,
       PassosDeContrato, PassosDeEvento, Encerrar, SemPedido, Evento, Pedido, LinhaContrato, LinhaTenant
  <2>7. UmTenantPorContrato'
    BY <1>5 DEF IInvAssinatura, FalharPagamento, TipoAssinatura, EventosOK, ContratosOK, AprovacoesOK,
       UmTenantPorContrato, Feito, PassosDeContrato, PassosDeEvento, Aprovando, Encerrar, SemPedido,
       Evento, Pedido, LinhaContrato, LinhaTenant
  <2> QED BY <2>1, <2>2, <2>3, <2>4, <2>5, <2>6, <2>7 DEF IInvAssinatura
<1>6. ASSUME NEW r \in Pedidos, LerTenant(r) PROVE IInvAssinatura'
  <2>1. TipoAssinatura'
    <3> DEFINE x == [pedido[r] EXCEPT !.passo = "ativar", !.lido = tenant[pedido[r].t].st]
    <3>1. pedido[r] \in Pedido /\ pedido \in [Pedidos -> Pedido]
      BY DEF IInvAssinatura, TipoAssinatura
    <3>2. x \in Pedido
      BY <1>6, <3>1, LeituraTipo DEF IInvAssinatura, TipoAssinatura, TenantsOK, LinhaTenant, LerTenant,
         PassosDeTenant, PassosPedido
    <3>3. pedido' = [pedido EXCEPT ![r] = x]
      BY <1>6, <3>1 DEF LerTenant
    <3> QED
      BY <1>6, <3>1, <3>2, <3>3, PedidoLe DEF IInvAssinatura, TipoAssinatura, LerTenant
  <2>2. EventosOK'
    BY <1>6 DEF IInvAssinatura, LerTenant, TipoAssinatura, EventosOK, PassosDeContrato, PassosDeEvento,
       Evento, Pedido, LinhaContrato, LinhaTenant
  <2>3. TenantsOK'
    BY <1>6 DEF IInvAssinatura, LerTenant, TipoAssinatura, EventosOK, TenantsOK, PassosDeContrato,
       PassosDeEvento, PassosDeGestor, PassosDeTenant, StatusTenant, Evento, Pedido, LinhaContrato,
       LinhaTenant
  <2>4. ContratosOK'
    BY <1>6 DEF IInvAssinatura, LerTenant, TipoAssinatura, EventosOK, TenantsOK, ContratosOK,
       AprovacoesOK, PassosDeContrato, PassosDeEvento, PassosDeGestor, PassosDeTenant, StatusTenant,
       Aprovando, Evento, Pedido, LinhaContrato, LinhaTenant
  <2>5. AprovacoesOK'
    BY <1>6 DEF IInvAssinatura, LerTenant, TipoAssinatura, EventosOK, AprovacoesOK, ContratosOK,
       PassosDeContrato, PassosDeEvento, Aprovando, Evento, Pedido, LinhaContrato, LinhaTenant
  <2>6. EventoUmaVez'
    BY <1>6 DEF IInvAssinatura, LerTenant, TipoAssinatura, EventosOK, EventoUmaVez, PassosDeContrato,
       PassosDeEvento, Evento, Pedido, LinhaContrato, LinhaTenant
  <2>7. UmTenantPorContrato'
    BY <1>6 DEF IInvAssinatura, LerTenant, TipoAssinatura, EventosOK, ContratosOK, AprovacoesOK,
       UmTenantPorContrato, PassosDeContrato, PassosDeEvento, Aprovando, Evento, Pedido, LinhaContrato,
       LinhaTenant
  <2> QED BY <2>1, <2>2, <2>3, <2>4, <2>5, <2>6, <2>7 DEF IInvAssinatura
<1>7. ASSUME NEW r \in Pedidos, Ativar(r) PROVE IInvAssinatura'
  <2>1. TipoAssinatura'
    <3>1. pedido[r].e \in Eventos /\ pedido[r].t \in Tenants
      BY <1>7 DEF IInvAssinatura, EventosOK, TenantsOK, Ativar, PassosDeEvento, PassosDeTenant
    <3>2. tenant' \in [Tenants -> LinhaTenant]
      BY <1>7, <3>1, TenantMuda DEF IInvAssinatura, TipoAssinatura, Ativar, StatusTenant
    <3> QED
      BY <1>7, <3>1, <3>2, FeitoTipo DEF IInvAssinatura, TipoAssinatura, Ativar
  <2>2. EventosOK'
    BY <1>7 DEF IInvAssinatura, Ativar, TipoAssinatura, EventosOK, Feito, PassosDeContrato,
       PassosDeEvento, Encerrar, SemPedido, Evento, Pedido, LinhaContrato, LinhaTenant
  <2>3. TenantsOK'
    BY <1>7 DEF IInvAssinatura, Ativar, TipoAssinatura, EventosOK, TenantsOK, Feito, PassosDeContrato,
       PassosDeEvento, PassosDeGestor, PassosDeTenant, StatusTenant, Encerrar, SemPedido, Evento,
       Pedido, LinhaContrato, LinhaTenant
  <2>4. ContratosOK'
    BY <1>7 DEF IInvAssinatura, Ativar, TipoAssinatura, EventosOK, TenantsOK, ContratosOK,
       AprovacoesOK, Feito, PassosDeContrato, PassosDeEvento, PassosDeGestor, PassosDeTenant,
       StatusTenant, Aprovando, Encerrar, SemPedido, Evento, Pedido, LinhaContrato, LinhaTenant
  <2>5. AprovacoesOK'
    BY <1>7 DEF IInvAssinatura, Ativar, TipoAssinatura, EventosOK, AprovacoesOK, ContratosOK, Feito,
       PassosDeContrato, PassosDeEvento, Aprovando, Encerrar, SemPedido, Evento, Pedido, LinhaContrato,
       LinhaTenant
  <2>6. EventoUmaVez'
    BY <1>7 DEF IInvAssinatura, Ativar, TipoAssinatura, EventosOK, EventoUmaVez, Feito,
       PassosDeContrato, PassosDeEvento, Encerrar, SemPedido, Evento, Pedido, LinhaContrato, LinhaTenant
  <2>7. UmTenantPorContrato'
    BY <1>7 DEF IInvAssinatura, Ativar, TipoAssinatura, EventosOK, ContratosOK, AprovacoesOK,
       UmTenantPorContrato, Feito, PassosDeContrato, PassosDeEvento, Aprovando, Encerrar, SemPedido,
       Evento, Pedido, LinhaContrato, LinhaTenant
  <2> QED BY <2>1, <2>2, <2>3, <2>4, <2>5, <2>6, <2>7 DEF IInvAssinatura
<1>8. ASSUME NEW r \in Pedidos, VerSlug(r) PROVE IInvAssinatura'
  <2>1. TipoAssinatura'
    <3> DEFINE x == [pedido[r] EXCEPT !.passo = "criar", !.slug = SlugDe(pedido[r].k)]
    <3>1. pedido[r] \in Pedido /\ pedido \in [Pedidos -> Pedido]
      BY DEF IInvAssinatura, TipoAssinatura
    <3>2. x \in Pedido
      BY <1>8, <3>1, LeituraTipo DEF IInvAssinatura, EventosOK, VerSlug, SlugDe, Slugs,
         PassosDeContrato, PassosDeEvento, PassosPedido
    <3>3. pedido' = [pedido EXCEPT ![r] = x]
      BY <1>8, <3>1 DEF VerSlug
    <3> QED
      BY <1>8, <3>1, <3>2, <3>3, PedidoLe DEF IInvAssinatura, TipoAssinatura, VerSlug
  <2>2. EventosOK'
    BY <1>8 DEF IInvAssinatura, VerSlug, TipoAssinatura, EventosOK, SlugDe, PassosDeContrato,
       PassosDeEvento, SlugUsado, Evento, Pedido, LinhaContrato, LinhaTenant
  <2>3. TenantsOK'
    BY <1>8 DEF IInvAssinatura, VerSlug, TipoAssinatura, EventosOK, TenantsOK, SlugDe,
       PassosDeContrato, PassosDeEvento, PassosDeGestor, PassosDeTenant, StatusTenant, SlugUsado,
       Evento, Pedido, LinhaContrato, LinhaTenant
  <2>4. ContratosOK'
    BY <1>8 DEF IInvAssinatura, VerSlug, TipoAssinatura, EventosOK, TenantsOK, ContratosOK,
       AprovacoesOK, SlugDe, PassosDeContrato, PassosDeEvento, PassosDeGestor, PassosDeTenant,
       StatusTenant, Aprovando, SlugUsado, Evento, Pedido, LinhaContrato, LinhaTenant
  <2>5. AprovacoesOK'
    BY <1>8 DEF IInvAssinatura, VerSlug, TipoAssinatura, EventosOK, AprovacoesOK, ContratosOK, SlugDe,
       PassosDeContrato, PassosDeEvento, Aprovando, SlugUsado, Evento, Pedido, LinhaContrato,
       LinhaTenant
  <2>6. EventoUmaVez'
    BY <1>8 DEF IInvAssinatura, VerSlug, TipoAssinatura, EventosOK, EventoUmaVez, SlugDe,
       PassosDeContrato, PassosDeEvento, SlugUsado, Evento, Pedido, LinhaContrato, LinhaTenant
  <2>7. UmTenantPorContrato'
    BY <1>8 DEF IInvAssinatura, VerSlug, TipoAssinatura, EventosOK, ContratosOK, AprovacoesOK,
       UmTenantPorContrato, SlugDe, PassosDeContrato, PassosDeEvento, Aprovando, SlugUsado, Evento,
       Pedido, LinhaContrato, LinhaTenant
  <2> QED BY <2>1, <2>2, <2>3, <2>4, <2>5, <2>6, <2>7 DEF IInvAssinatura
<1>9. ASSUME NEW r \in Pedidos, CriarTenant(r) PROVE IInvAssinatura'
  <2>1. TipoAssinatura'
    <3>1. /\ pedido[r].e \in Eventos /\ pedido[r].k \in Contratos /\ pedido[r] \in Pedido
      BY <1>9 DEF IInvAssinatura, TipoAssinatura, EventosOK, CriarTenant, PassosDeEvento,
         PassosDeContrato
    <3>2. [st |-> "ativo", slug |-> pedido[r].slug] \in LinhaTenant
      BY <3>1 DEF LinhaTenant, Pedido, StatusTenant
    <3>3. \A t \in Tenants : [st |-> "aprovada", tenant |-> t] \in LinhaContrato
      BY DEF LinhaContrato
    <3>4. /\ tenant' \in [Tenants -> LinhaTenant]
          /\ contrato' \in [Contratos -> LinhaContrato]
          /\ criador' \in [Tenants -> Contratos \cup {Nada}]
      BY <1>9, <3>1, <3>2, <3>3 DEF IInvAssinatura, TipoAssinatura, CriarTenant
    <3> QED
      BY <1>9, <3>1, <3>4, FeitoTipo DEF IInvAssinatura, TipoAssinatura, CriarTenant
  <2>2. EventosOK'
    BY <1>9 DEF IInvAssinatura, CriarTenant, TipoAssinatura, EventosOK, Feito, Livre, SlugUsado,
       PassosDeContrato, PassosDeEvento, Encerrar, SemPedido, Evento, Pedido, LinhaContrato, LinhaTenant
  <2>3. TenantsOK'
    BY <1>9 DEF IInvAssinatura, CriarTenant, TipoAssinatura, EventosOK, TenantsOK, Feito, Livre,
       SlugUsado, PassosDeContrato, PassosDeEvento, PassosDeGestor, PassosDeTenant, StatusTenant,
       Encerrar, SemPedido, Evento, Pedido, LinhaContrato, LinhaTenant
  <2>4. ContratosOK'
    BY <1>9 DEF IInvAssinatura, CriarTenant, TipoAssinatura, EventosOK, TenantsOK, ContratosOK,
       AprovacoesOK, Feito, Livre, SlugUsado, PassosDeContrato, PassosDeEvento, PassosDeGestor,
       PassosDeTenant, StatusTenant, Aprovando, Encerrar, SemPedido, Evento, Pedido, LinhaContrato,
       LinhaTenant
  <2>5. AprovacoesOK'
    BY <1>9 DEF IInvAssinatura, CriarTenant, TipoAssinatura, EventosOK, AprovacoesOK, ContratosOK,
       Feito, Livre, SlugUsado, PassosDeContrato, PassosDeEvento, Aprovando, Encerrar, SemPedido,
       Evento, Pedido, LinhaContrato, LinhaTenant
  <2>6. EventoUmaVez'
    BY <1>9 DEF IInvAssinatura, CriarTenant, TipoAssinatura, EventosOK, EventoUmaVez, Feito, Livre,
       SlugUsado, PassosDeContrato, PassosDeEvento, Encerrar, SemPedido, Evento, Pedido, LinhaContrato,
       LinhaTenant
  <2>7. UmTenantPorContrato'
    BY <1>9 DEF IInvAssinatura, CriarTenant, TipoAssinatura, EventosOK, ContratosOK, AprovacoesOK,
       UmTenantPorContrato, Feito, Livre, SlugUsado, PassosDeContrato, PassosDeEvento, Aprovando,
       Encerrar, SemPedido, Evento, Pedido, LinhaContrato, LinhaTenant
  <2> QED BY <2>1, <2>2, <2>3, <2>4, <2>5, <2>6, <2>7 DEF IInvAssinatura
<1>10. ASSUME NEW r \in Pedidos, Recusar(r) PROVE IInvAssinatura'
  <2>1. TipoAssinatura'
    BY <1>10, SemPedidoTipo DEF IInvAssinatura, TipoAssinatura, Recusar, Desfazer, Encerrar
  <2>2. EventosOK'
    BY <1>10 DEF IInvAssinatura, Recusar, TipoAssinatura, EventosOK, Desfazer, SlugUsado,
       PassosDeContrato, PassosDeEvento, Encerrar, SemPedido, Evento, Pedido, LinhaContrato, LinhaTenant
  <2>3. TenantsOK'
    BY <1>10 DEF IInvAssinatura, Recusar, TipoAssinatura, EventosOK, TenantsOK, Desfazer, SlugUsado,
       PassosDeContrato, PassosDeEvento, PassosDeGestor, PassosDeTenant, StatusTenant, Encerrar,
       SemPedido, Evento, Pedido, LinhaContrato, LinhaTenant
  <2>4. ContratosOK'
    BY <1>10 DEF IInvAssinatura, Recusar, TipoAssinatura, EventosOK, TenantsOK, ContratosOK,
       AprovacoesOK, Desfazer, SlugUsado, PassosDeContrato, PassosDeEvento, PassosDeGestor,
       PassosDeTenant, StatusTenant, Aprovando, Encerrar, SemPedido, Evento, Pedido, LinhaContrato,
       LinhaTenant
  <2>5. AprovacoesOK'
    BY <1>10 DEF IInvAssinatura, Recusar, TipoAssinatura, EventosOK, AprovacoesOK, ContratosOK,
       Desfazer, SlugUsado, PassosDeContrato, PassosDeEvento, Aprovando, Encerrar, SemPedido, Evento,
       Pedido, LinhaContrato, LinhaTenant
  <2>6. EventoUmaVez'
    BY <1>10 DEF IInvAssinatura, Recusar, TipoAssinatura, EventosOK, EventoUmaVez, Desfazer, SlugUsado,
       PassosDeContrato, PassosDeEvento, Encerrar, SemPedido, Evento, Pedido, LinhaContrato, LinhaTenant
  <2>7. UmTenantPorContrato'
    BY <1>10 DEF IInvAssinatura, Recusar, TipoAssinatura, EventosOK, ContratosOK, AprovacoesOK,
       UmTenantPorContrato, Desfazer, SlugUsado, PassosDeContrato, PassosDeEvento, Aprovando, Encerrar,
       SemPedido, Evento, Pedido, LinhaContrato, LinhaTenant
  <2> QED BY <2>1, <2>2, <2>3, <2>4, <2>5, <2>6, <2>7 DEF IInvAssinatura
<1>11. ASSUME NEW r \in Pedidos, Cair(r) PROVE IInvAssinatura'
  <2>1. TipoAssinatura'
    BY <1>11, SemPedidoTipo DEF IInvAssinatura, TipoAssinatura, Cair, Desfazer, Encerrar
  <2>2. EventosOK'
    BY <1>11 DEF IInvAssinatura, Cair, TipoAssinatura, EventosOK, Desfazer, PassosDeContrato,
       PassosDeEvento, Encerrar, SemPedido, Evento, Pedido, LinhaContrato, LinhaTenant
  <2>3. TenantsOK'
    BY <1>11 DEF IInvAssinatura, Cair, TipoAssinatura, EventosOK, TenantsOK, Desfazer,
       PassosDeContrato, PassosDeEvento, PassosDeGestor, PassosDeTenant, StatusTenant, Encerrar,
       SemPedido, Evento, Pedido, LinhaContrato, LinhaTenant
  <2>4. ContratosOK'
    BY <1>11 DEF IInvAssinatura, Cair, TipoAssinatura, EventosOK, TenantsOK, ContratosOK, AprovacoesOK,
       Desfazer, PassosDeContrato, PassosDeEvento, PassosDeGestor, PassosDeTenant, StatusTenant,
       Aprovando, Encerrar, SemPedido, Evento, Pedido, LinhaContrato, LinhaTenant
  <2>5. AprovacoesOK'
    BY <1>11 DEF IInvAssinatura, Cair, TipoAssinatura, EventosOK, AprovacoesOK, ContratosOK, Desfazer,
       PassosDeContrato, PassosDeEvento, Aprovando, Encerrar, SemPedido, Evento, Pedido, LinhaContrato,
       LinhaTenant
  <2>6. EventoUmaVez'
    BY <1>11 DEF IInvAssinatura, Cair, TipoAssinatura, EventosOK, EventoUmaVez, Desfazer,
       PassosDeContrato, PassosDeEvento, Encerrar, SemPedido, Evento, Pedido, LinhaContrato, LinhaTenant
  <2>7. UmTenantPorContrato'
    BY <1>11 DEF IInvAssinatura, Cair, TipoAssinatura, EventosOK, ContratosOK, AprovacoesOK,
       UmTenantPorContrato, Desfazer, PassosDeContrato, PassosDeEvento, Aprovando, Encerrar, SemPedido,
       Evento, Pedido, LinhaContrato, LinhaTenant
  <2> QED BY <2>1, <2>2, <2>3, <2>4, <2>5, <2>6, <2>7 DEF IInvAssinatura
<1>12. ASSUME NEW r \in Pedidos, NEW st \in StatusPedidos, LerNovoTenant(r, st) PROVE IInvAssinatura'
  <2>1. TipoAssinatura'
    <3>1. [SemPedido EXCEPT !.passo = "inserir", !.slug = "pedido", !.novo = st] \in Pedido
      BY <1>12 DEF SemPedido, Pedido, PassosPedido, StatusTenant, Slugs
    <3> QED
      BY <1>12, <3>1, PedidoLe DEF IInvAssinatura, TipoAssinatura, LerNovoTenant
  <2>2. EventosOK'
    BY <1>12 DEF IInvAssinatura, LerNovoTenant, TipoAssinatura, EventosOK, SemPedido, SlugUsado,
       PassosDeContrato, PassosDeEvento, Evento, Pedido, LinhaContrato, LinhaTenant
  <2>3. TenantsOK'
    BY <1>12 DEF IInvAssinatura, LerNovoTenant, TipoAssinatura, EventosOK, TenantsOK, SemPedido,
       SlugUsado, PassosDeContrato, PassosDeEvento, PassosDeGestor, PassosDeTenant, StatusTenant,
       Evento, Pedido, LinhaContrato, LinhaTenant
  <2>4. ContratosOK'
    BY <1>12 DEF IInvAssinatura, LerNovoTenant, TipoAssinatura, EventosOK, TenantsOK, ContratosOK,
       AprovacoesOK, SemPedido, SlugUsado, PassosDeContrato, PassosDeEvento, PassosDeGestor,
       PassosDeTenant, StatusTenant, Aprovando, Evento, Pedido, LinhaContrato, LinhaTenant
  <2>5. AprovacoesOK'
    BY <1>12 DEF IInvAssinatura, LerNovoTenant, TipoAssinatura, EventosOK, AprovacoesOK, ContratosOK,
       SemPedido, SlugUsado, PassosDeContrato, PassosDeEvento, Aprovando, Evento, Pedido,
       LinhaContrato, LinhaTenant
  <2>6. EventoUmaVez'
    BY <1>12 DEF IInvAssinatura, LerNovoTenant, TipoAssinatura, EventosOK, EventoUmaVez, SemPedido,
       SlugUsado, PassosDeContrato, PassosDeEvento, Evento, Pedido, LinhaContrato, LinhaTenant
  <2>7. UmTenantPorContrato'
    BY <1>12 DEF IInvAssinatura, LerNovoTenant, TipoAssinatura, EventosOK, ContratosOK, AprovacoesOK,
       UmTenantPorContrato, SemPedido, SlugUsado, PassosDeContrato, PassosDeEvento, Aprovando, Evento,
       Pedido, LinhaContrato, LinhaTenant
  <2> QED BY <2>1, <2>2, <2>3, <2>4, <2>5, <2>6, <2>7 DEF IInvAssinatura
<1>13. ASSUME NEW r \in Pedidos, InserirTenant(r) PROVE IInvAssinatura'
  <2>1. TipoAssinatura'
    <3>1. pedido[r].novo \in StatusTenant /\ pedido[r] \in Pedido
      BY <1>13 DEF IInvAssinatura, TipoAssinatura, TenantsOK, InserirTenant, PassosDeGestor
    <3>2. [st |-> pedido[r].novo, slug |-> pedido[r].slug] \in LinhaTenant
      BY <3>1 DEF LinhaTenant, Pedido
    <3>3. tenant' \in [Tenants -> LinhaTenant]
      BY <1>13, <3>2 DEF IInvAssinatura, TipoAssinatura, InserirTenant
    <3> QED
      BY <1>13, <3>3, SemPedidoTipo DEF IInvAssinatura, TipoAssinatura, InserirTenant, Encerrar
  <2>2. EventosOK'
    BY <1>13 DEF IInvAssinatura, InserirTenant, TipoAssinatura, EventosOK, Encerrar, Livre, SlugUsado,
       PassosDeContrato, PassosDeEvento, SemPedido, Evento, Pedido, LinhaContrato, LinhaTenant
  <2>3. TenantsOK'
    BY <1>13 DEF IInvAssinatura, InserirTenant, TipoAssinatura, EventosOK, TenantsOK, Encerrar, Livre,
       SlugUsado, PassosDeContrato, PassosDeEvento, PassosDeGestor, PassosDeTenant, StatusTenant,
       SemPedido, Evento, Pedido, LinhaContrato, LinhaTenant
  <2>4. ContratosOK'
    BY <1>13 DEF IInvAssinatura, InserirTenant, TipoAssinatura, EventosOK, TenantsOK, ContratosOK,
       AprovacoesOK, Encerrar, Livre, SlugUsado, PassosDeContrato, PassosDeEvento, PassosDeGestor,
       PassosDeTenant, StatusTenant, Aprovando, SemPedido, Evento, Pedido, LinhaContrato, LinhaTenant
  <2>5. AprovacoesOK'
    BY <1>13 DEF IInvAssinatura, InserirTenant, TipoAssinatura, EventosOK, AprovacoesOK, ContratosOK,
       Encerrar, Livre, SlugUsado, PassosDeContrato, PassosDeEvento, Aprovando, SemPedido, Evento,
       Pedido, LinhaContrato, LinhaTenant
  <2>6. EventoUmaVez'
    BY <1>13 DEF IInvAssinatura, InserirTenant, TipoAssinatura, EventosOK, EventoUmaVez, Encerrar,
       Livre, SlugUsado, PassosDeContrato, PassosDeEvento, SemPedido, Evento, Pedido, LinhaContrato,
       LinhaTenant
  <2>7. UmTenantPorContrato'
    BY <1>13 DEF IInvAssinatura, InserirTenant, TipoAssinatura, EventosOK, ContratosOK, AprovacoesOK,
       UmTenantPorContrato, Encerrar, Livre, SlugUsado, PassosDeContrato, PassosDeEvento, Aprovando,
       SemPedido, Evento, Pedido, LinhaContrato, LinhaTenant
  <2> QED BY <2>1, <2>2, <2>3, <2>4, <2>5, <2>6, <2>7 DEF IInvAssinatura
<1>14. ASSUME NEW r \in Pedidos, NEW t \in Tenants, NEW st \in StatusPedidos, LerParaAlterar(r, t, st) PROVE IInvAssinatura'
  <2>1. TipoAssinatura'
    <3>1. [SemPedido EXCEPT !.passo = "gravar", !.t = t, !.lido = tenant[t].st, !.novo = st] \in Pedido
      BY <1>14 DEF IInvAssinatura, TipoAssinatura, LinhaTenant, LerParaAlterar, Livre, SemPedido,
         Pedido, PassosPedido, StatusTenant
    <3> QED
      BY <1>14, <3>1, PedidoLe DEF IInvAssinatura, TipoAssinatura, LerParaAlterar
  <2>2. EventosOK'
    BY <1>14 DEF IInvAssinatura, LerParaAlterar, TipoAssinatura, EventosOK, Livre, SemPedido,
       PassosDeContrato, PassosDeEvento, Evento, Pedido, LinhaContrato, LinhaTenant
  <2>3. TenantsOK'
    BY <1>14 DEF IInvAssinatura, LerParaAlterar, TipoAssinatura, EventosOK, TenantsOK, Livre,
       SemPedido, PassosDeContrato, PassosDeEvento, PassosDeGestor, PassosDeTenant, StatusTenant,
       Evento, Pedido, LinhaContrato, LinhaTenant
  <2>4. ContratosOK'
    BY <1>14 DEF IInvAssinatura, LerParaAlterar, TipoAssinatura, EventosOK, TenantsOK, ContratosOK,
       AprovacoesOK, Livre, SemPedido, PassosDeContrato, PassosDeEvento, PassosDeGestor,
       PassosDeTenant, StatusTenant, Aprovando, Evento, Pedido, LinhaContrato, LinhaTenant
  <2>5. AprovacoesOK'
    BY <1>14 DEF IInvAssinatura, LerParaAlterar, TipoAssinatura, EventosOK, AprovacoesOK, ContratosOK,
       Livre, SemPedido, PassosDeContrato, PassosDeEvento, Aprovando, Evento, Pedido, LinhaContrato,
       LinhaTenant
  <2>6. EventoUmaVez'
    BY <1>14 DEF IInvAssinatura, LerParaAlterar, TipoAssinatura, EventosOK, EventoUmaVez, Livre,
       SemPedido, PassosDeContrato, PassosDeEvento, Evento, Pedido, LinhaContrato, LinhaTenant
  <2>7. UmTenantPorContrato'
    BY <1>14 DEF IInvAssinatura, LerParaAlterar, TipoAssinatura, EventosOK, ContratosOK, AprovacoesOK,
       UmTenantPorContrato, Livre, SemPedido, PassosDeContrato, PassosDeEvento, Aprovando, Evento,
       Pedido, LinhaContrato, LinhaTenant
  <2> QED BY <2>1, <2>2, <2>3, <2>4, <2>5, <2>6, <2>7 DEF IInvAssinatura
<1>15. ASSUME NEW r \in Pedidos, NEW t \in Tenants, LerParaAtivar(r, t) PROVE IInvAssinatura'
  <2>1. TipoAssinatura'
    <3>1. [SemPedido EXCEPT !.passo = "reler", !.t = t, !.novo = "ativo"] \in Pedido
      BY <1>15 DEF SemPedido, Pedido, PassosPedido, StatusTenant, Slugs
    <3> QED
      BY <1>15, <3>1, PedidoLe DEF IInvAssinatura, TipoAssinatura, LerParaAtivar
  <2>2. EventosOK'
    BY <1>15 DEF IInvAssinatura, LerParaAtivar, TipoAssinatura, EventosOK, SemPedido, PassosDeContrato,
       PassosDeEvento, Evento, Pedido, LinhaContrato, LinhaTenant
  <2>3. TenantsOK'
    BY <1>15 DEF IInvAssinatura, LerParaAtivar, TipoAssinatura, EventosOK, TenantsOK, SemPedido,
       PassosDeContrato, PassosDeEvento, PassosDeGestor, PassosDeTenant, StatusTenant, Evento, Pedido,
       LinhaContrato, LinhaTenant
  <2>4. ContratosOK'
    BY <1>15 DEF IInvAssinatura, LerParaAtivar, TipoAssinatura, EventosOK, TenantsOK, ContratosOK,
       AprovacoesOK, SemPedido, PassosDeContrato, PassosDeEvento, PassosDeGestor, PassosDeTenant,
       StatusTenant, Aprovando, Evento, Pedido, LinhaContrato, LinhaTenant
  <2>5. AprovacoesOK'
    BY <1>15 DEF IInvAssinatura, LerParaAtivar, TipoAssinatura, EventosOK, AprovacoesOK, ContratosOK,
       SemPedido, PassosDeContrato, PassosDeEvento, Aprovando, Evento, Pedido, LinhaContrato,
       LinhaTenant
  <2>6. EventoUmaVez'
    BY <1>15 DEF IInvAssinatura, LerParaAtivar, TipoAssinatura, EventosOK, EventoUmaVez, SemPedido,
       PassosDeContrato, PassosDeEvento, Evento, Pedido, LinhaContrato, LinhaTenant
  <2>7. UmTenantPorContrato'
    BY <1>15 DEF IInvAssinatura, LerParaAtivar, TipoAssinatura, EventosOK, ContratosOK, AprovacoesOK,
       UmTenantPorContrato, SemPedido, PassosDeContrato, PassosDeEvento, Aprovando, Evento, Pedido,
       LinhaContrato, LinhaTenant
  <2> QED BY <2>1, <2>2, <2>3, <2>4, <2>5, <2>6, <2>7 DEF IInvAssinatura
<1>16. ASSUME NEW r \in Pedidos, RelerTenant(r) PROVE IInvAssinatura'
  <2>1. TipoAssinatura'
    <3> DEFINE x == [pedido[r] EXCEPT !.passo = "gravar", !.lido = tenant[pedido[r].t].st]
    <3>1. pedido[r] \in Pedido /\ pedido \in [Pedidos -> Pedido]
      BY DEF IInvAssinatura, TipoAssinatura
    <3>2. x \in Pedido
      BY <1>16, <3>1, LeituraTipo DEF IInvAssinatura, TipoAssinatura, TenantsOK, LinhaTenant,
         RelerTenant, PassosDeTenant, PassosPedido
    <3>3. pedido' = [pedido EXCEPT ![r] = x]
      BY <1>16, <3>1 DEF RelerTenant
    <3> QED
      BY <1>16, <3>1, <3>2, <3>3, PedidoLe DEF IInvAssinatura, TipoAssinatura, RelerTenant
  <2>2. EventosOK'
    BY <1>16 DEF IInvAssinatura, RelerTenant, TipoAssinatura, EventosOK, PassosDeContrato,
       PassosDeEvento, Evento, Pedido, LinhaContrato, LinhaTenant
  <2>3. TenantsOK'
    BY <1>16 DEF IInvAssinatura, RelerTenant, TipoAssinatura, EventosOK, TenantsOK, PassosDeContrato,
       PassosDeEvento, PassosDeGestor, PassosDeTenant, StatusTenant, Evento, Pedido, LinhaContrato,
       LinhaTenant
  <2>4. ContratosOK'
    BY <1>16 DEF IInvAssinatura, RelerTenant, TipoAssinatura, EventosOK, TenantsOK, ContratosOK,
       AprovacoesOK, PassosDeContrato, PassosDeEvento, PassosDeGestor, PassosDeTenant, StatusTenant,
       Aprovando, Evento, Pedido, LinhaContrato, LinhaTenant
  <2>5. AprovacoesOK'
    BY <1>16 DEF IInvAssinatura, RelerTenant, TipoAssinatura, EventosOK, AprovacoesOK, ContratosOK,
       PassosDeContrato, PassosDeEvento, Aprovando, Evento, Pedido, LinhaContrato, LinhaTenant
  <2>6. EventoUmaVez'
    BY <1>16 DEF IInvAssinatura, RelerTenant, TipoAssinatura, EventosOK, EventoUmaVez,
       PassosDeContrato, PassosDeEvento, Evento, Pedido, LinhaContrato, LinhaTenant
  <2>7. UmTenantPorContrato'
    BY <1>16 DEF IInvAssinatura, RelerTenant, TipoAssinatura, EventosOK, ContratosOK, AprovacoesOK,
       UmTenantPorContrato, PassosDeContrato, PassosDeEvento, Aprovando, Evento, Pedido, LinhaContrato,
       LinhaTenant
  <2> QED BY <2>1, <2>2, <2>3, <2>4, <2>5, <2>6, <2>7 DEF IInvAssinatura
<1>17. ASSUME NEW r \in Pedidos, GravarTenant(r) PROVE IInvAssinatura'
  <2>1. TipoAssinatura'
    <3>1. pedido[r].t \in Tenants /\ pedido[r].novo \in StatusTenant
      BY <1>17 DEF IInvAssinatura, TenantsOK, GravarTenant, PassosDeTenant, PassosDeGestor
    <3>2. tenant' \in [Tenants -> LinhaTenant]
      BY <1>17, <3>1, TenantMuda DEF IInvAssinatura, TipoAssinatura, GravarTenant
    <3> QED
      BY <1>17, <3>2, SemPedidoTipo DEF IInvAssinatura, TipoAssinatura, GravarTenant, Encerrar
  <2>2. EventosOK'
    BY <1>17 DEF IInvAssinatura, GravarTenant, TipoAssinatura, EventosOK, Encerrar, PassosDeContrato,
       PassosDeEvento, SemPedido, Evento, Pedido, LinhaContrato, LinhaTenant
  <2>3. TenantsOK'
    BY <1>17 DEF IInvAssinatura, GravarTenant, TipoAssinatura, EventosOK, TenantsOK, Encerrar,
       PassosDeContrato, PassosDeEvento, PassosDeGestor, PassosDeTenant, StatusTenant, SemPedido,
       Evento, Pedido, LinhaContrato, LinhaTenant
  <2>4. ContratosOK'
    <3>1. \A t \in Tenants : tenant[t].st # "livre" => tenant'[t].st # "livre"
      BY <1>17 DEF IInvAssinatura, TipoAssinatura, LinhaTenant, TenantsOK, GravarTenant,
         PassosDeGestor, StatusTenant
    <3>2. \A k \in Contratos : contrato[k].tenant \in Tenants \cup {Nada}
      BY DEF IInvAssinatura, TipoAssinatura, LinhaContrato
    <3> QED
      BY <1>17, <3>1, <3>2 DEF IInvAssinatura, ContratosOK, GravarTenant
  <2>5. AprovacoesOK'
    BY <1>17 DEF IInvAssinatura, GravarTenant, TipoAssinatura, EventosOK, AprovacoesOK, ContratosOK,
       Encerrar, PassosDeContrato, PassosDeEvento, Aprovando, SemPedido, Evento, Pedido, LinhaContrato,
       LinhaTenant
  <2>6. EventoUmaVez'
    BY <1>17 DEF IInvAssinatura, GravarTenant, TipoAssinatura, EventosOK, EventoUmaVez, Encerrar,
       PassosDeContrato, PassosDeEvento, SemPedido, Evento, Pedido, LinhaContrato, LinhaTenant
  <2>7. UmTenantPorContrato'
    BY <1>17 DEF IInvAssinatura, GravarTenant, TipoAssinatura, EventosOK, ContratosOK, AprovacoesOK,
       UmTenantPorContrato, Encerrar, PassosDeContrato, PassosDeEvento, Aprovando, SemPedido, Evento,
       Pedido, LinhaContrato, LinhaTenant
  <2> QED BY <2>1, <2>2, <2>3, <2>4, <2>5, <2>6, <2>7 DEF IInvAssinatura
<1>18. ASSUME SuspenderInadimplentes PROVE IInvAssinatura'
  <2>1. TipoAssinatura'
    BY <1>18 DEF IInvAssinatura, TipoAssinatura, SuspenderInadimplentes, LinhaTenant, StatusTenant
  <2>2. EventosOK'
    BY <1>18 DEF IInvAssinatura, SuspenderInadimplentes, TipoAssinatura, EventosOK, PassosDeContrato,
       PassosDeEvento, Evento, Pedido, LinhaContrato, LinhaTenant
  <2>3. TenantsOK'
    BY <1>18 DEF IInvAssinatura, SuspenderInadimplentes, TipoAssinatura, EventosOK, TenantsOK,
       PassosDeContrato, PassosDeEvento, PassosDeGestor, PassosDeTenant, StatusTenant, Evento, Pedido,
       LinhaContrato, LinhaTenant
  <2>4. ContratosOK'
    BY <1>18 DEF IInvAssinatura, SuspenderInadimplentes, TipoAssinatura, EventosOK, TenantsOK,
       ContratosOK, AprovacoesOK, PassosDeContrato, PassosDeEvento, PassosDeGestor, PassosDeTenant,
       StatusTenant, Aprovando, Evento, Pedido, LinhaContrato, LinhaTenant
  <2>5. AprovacoesOK'
    BY <1>18 DEF IInvAssinatura, SuspenderInadimplentes, TipoAssinatura, EventosOK, AprovacoesOK,
       ContratosOK, PassosDeContrato, PassosDeEvento, Aprovando, Evento, Pedido, LinhaContrato,
       LinhaTenant
  <2>6. EventoUmaVez'
    BY <1>18 DEF IInvAssinatura, SuspenderInadimplentes, TipoAssinatura, EventosOK, EventoUmaVez,
       PassosDeContrato, PassosDeEvento, Evento, Pedido, LinhaContrato, LinhaTenant
  <2>7. UmTenantPorContrato'
    BY <1>18 DEF IInvAssinatura, SuspenderInadimplentes, TipoAssinatura, EventosOK, ContratosOK,
       AprovacoesOK, UmTenantPorContrato, PassosDeContrato, PassosDeEvento, Aprovando, Evento, Pedido,
       LinhaContrato, LinhaTenant
  <2> QED BY <2>1, <2>2, <2>3, <2>4, <2>5, <2>6, <2>7 DEF IInvAssinatura
<1> QED BY <1>1, <1>2, <1>3, <1>4, <1>5, <1>6, <1>7, <1>8, <1>9, <1>10, <1>11, <1>12, <1>13, <1>14,
           <1>15, <1>16, <1>17, <1>18 DEF NextAssinatura, Administrar, Continuar, ProcessarEvento


(***************************************************************************)
(* Users, sessions and requests keep their types.                          *)
(***************************************************************************)
LEMMA SemChamadaTipo == SemChamada \in Chamada
  BY DEF SemChamada, Chamada, PassosChamada, Origens

LEMMA ChamarTipo ==
    ASSUME TipoSessoes, NEW r \in Chamadas, NEW x \in Chamada, Chamar(r, x)
    PROVE  rq' \in [Chamadas -> Chamada] /\ ops' \in 0 .. MaxOperacoes
<1> USE LimitesNaturais DEF TipoSessoes, Chamar
<1>1. rq' \in [Chamadas -> Chamada]
  OBVIOUS
<1>2. ops' \in 0 .. MaxOperacoes
  OBVIOUS
<1> QED  BY <1>1, <1>2

LEMMA ResponderTipo ==
    ASSUME TipoSessoes, NEW r \in Chamadas, Responder(r)
    PROVE  rq' \in [Chamadas -> Chamada] /\ ops' \in 0 .. MaxOperacoes
  BY SemChamadaTipo DEF TipoSessoes, Responder

LEMMA SessaoTipo ==
    ASSUME NEW x \in LinhaSessao
    PROVE  /\ \A uso \in {"recente", "parada", "vencida"} : [x EXCEPT !.uso = uso] \in LinhaSessao
           /\ [x EXCEPT !.st = "revogada"] \in LinhaSessao
           /\ \A n \in Nat : [x EXCEPT !.chave = n, !.uso = "recente"] \in LinhaSessao
           /\ \A n \in Nat : [x EXCEPT !.corte = n] \in LinhaSessao
  BY DEF LinhaSessao

\* A session that opens is a live one of its user, in the user's present cut.
LEMMA NovaSessaoConhecida ==
    ASSUME TipoSessoes, NEW s \in Sessoes, NEW u \in Usuarios, NEW o \in Origens, NEW lido \in Nat
    PROVE  LET x == NovaSessao(s, u, o, lido)[s] IN
           /\ x \in LinhaSessao
           /\ x.st = "viva" /\ x.u = u /\ x.corte = corte[u]
           /\ x.tardia = (IF Tardia(u, lido) THEN "sim" ELSE "nao")
           /\ NovaSessao(s, u, o, lido) = [sessao EXCEPT ![s] = x]
<1> DEFINE x == [SemSessao EXCEPT !.st = "viva", !.u = u, !.origem = o, !.corte = corte[u],
                                  !.tardia = IF Tardia(u, lido) THEN "sim" ELSE "nao"]
<1>1. corte[u] \in Nat
  BY DEF TipoSessoes
<1>2. x \in LinhaSessao
  BY <1>1 DEF LinhaSessao, SemSessao, Origens
<1>3. x.st = "viva" /\ x.u = u /\ x.corte = corte[u] /\ x.tardia = (IF Tardia(u, lido) THEN "sim" ELSE "nao")
  BY DEF SemSessao
<1>4. NovaSessao(s, u, o, lido) = [sessao EXCEPT ![s] = x]
  BY DEF NovaSessao
<1> HIDE DEF x
<1>5. NovaSessao(s, u, o, lido)[s] = x
  BY <1>4 DEF TipoSessoes
<1> QED
  BY <1>2, <1>3, <1>4, <1>5

LEMMA UsuarioTipo ==
    ASSUME NEW x \in LinhaUsuario
    PROVE  /\ \A n \in Nat : [x EXCEPT !.falhas = n] \in LinhaUsuario
           /\ \A n \in Nat, st \in StatusUsuario \cup {"livre"} :
                 [x EXCEPT !.falhas = n, !.st = st] \in LinhaUsuario
           /\ \A st \in StatusUsuario \cup {"livre"} :
                 /\ [x EXCEPT !.st = st] \in LinhaUsuario
                 /\ [[x EXCEPT !.st = st] EXCEPT !.excluido = "sim"] \in LinhaUsuario
           /\ \A m \in {"nao", "pendente", "sim"} : [x EXCEPT !.mfa = m] \in LinhaUsuario
           /\ x.st \in StatusUsuario \cup {"livre"}
  BY DEF LinhaUsuario

LEMMA SenhaTipo ==
    ASSUME NEW x \in LinhaUsuario, NEW n \in Nat, NEW f \in Nat, NEW st \in StatusUsuario \cup {"livre"}
    PROVE  [x EXCEPT !.senha = n, !.falhas = f, !.st = st] \in LinhaUsuario
  BY DEF LinhaUsuario

LEMMA MudadoTipo ==
    ASSUME TipoSessoes, NEW u \in Usuarios, NEW c, c.tipo \in TiposUsuario
    PROVE  Mudado(u, c) \in LinhaUsuario
<1>1. usuario[u] \in LinhaUsuario
  BY DEF TipoSessoes
<1>2. ComSenha(u, c) \in LinhaUsuario
  <2> DEFINE n == usuario[u].senha + 1
             f == IF c.falhas = 0 THEN usuario[u].falhas ELSE 0
             st == IF c.st = "bloqueado" THEN "ativo" ELSE usuario[u].st
  <2>1. n \in Nat /\ f \in Nat
    BY <1>1 DEF LinhaUsuario
  <2>2. st \in StatusUsuario \cup {"livre"}
    BY <1>1 DEF LinhaUsuario, StatusUsuario
  <2>3. ComSenha(u, c) = [usuario[u] EXCEPT !.senha = n, !.falhas = f, !.st = st]
    BY <1>1 DEF ComSenha, LinhaUsuario
  <2>4. [usuario[u] EXCEPT !.senha = n, !.falhas = f, !.st = st] \in LinhaUsuario
    <3> HIDE DEF n, f, st
    <3> QED
      BY <1>1, <2>1, <2>2, SenhaTipo
  <2> QED
    BY <2>3, <2>4
<1>3. ASSUME NEW st \in StatusUsuario
      PROVE  ComStatus(u, c, st) \in LinhaUsuario /\ [ComStatus(u, c, st) EXCEPT !.excluido = "sim"] \in LinhaUsuario
  BY <1>1, UsuarioTipo DEF ComStatus
<1>4. \A m \in {"nao", "pendente", "sim"} : [usuario[u] EXCEPT !.mfa = m] \in LinhaUsuario
  BY <1>1, UsuarioTipo
<1> QED
  BY <1>2, <1>3, <1>4 DEF Mudado, TiposUsuario, TiposCorte, StatusUsuario

LEMMA SessoesPasso ==
    ASSUME IInvSessoes, NextSessoes
    PROVE  IInvSessoes'
<1> USE NadaForaDaConta, LimitesNaturais
<1>1. ASSUME NEW r \in Chamadas, NEW u \in Usuarios, NEW c \in {"sim", "nao"}, NEW o \in Origens, LerLogin(r, u, c, o) PROVE IInvSessoes'
  <2>1. TipoSessoes'
    <3>1. [SemChamada EXCEPT !.passo = IF c = "sim" THEN "abrir" ELSE "falhar",
                                !.u = u, !.st = usuario[u].st, !.falhas = usuario[u].falhas,
                                !.corte = corte[u], !.origem = o] \in Chamada
      BY <1>1 DEF IInvSessoes, TipoSessoes, LinhaUsuario, SemChamada, Chamada, PassosChamada
    <3> QED
      BY <1>1, <3>1, ChamarTipo DEF IInvSessoes, TipoSessoes, LerLogin
  <2>2. SessoesOK'
    BY <1>1 DEF IInvSessoes, LerLogin, TipoSessoes, SessoesOK, Chamar, SemChamada, Origens,
       PassosChamada, StatusUsuario, TiposUsuario, TiposCorte, LinhaUsuario, LinhaSessao, Chamada
  <2>3. ChamadasOK'
    BY <1>1 DEF IInvSessoes, LerLogin, TipoSessoes, SessoesOK, ChamadasOK, Chamar, SemChamada,
       TiposUsuario, Origens, PassosChamada, StatusUsuario, TiposCorte, LinhaUsuario, LinhaSessao,
       Chamada
  <2>4. AlvosOK'
    BY <1>1 DEF IInvSessoes, LerLogin, TipoSessoes, SessoesOK, ChamadasOK, AlvosOK, Chamar, SemChamada,
       TiposUsuario, TiposCorte, Origens, PassosChamada, StatusUsuario, LinhaUsuario, LinhaSessao,
       Chamada
  <2>5. SessaoDepoisDoCorte'
    BY <1>1 DEF IInvSessoes, LerLogin, TipoSessoes, SessoesOK, ChamadasOK, AlvosOK,
       SessaoDepoisDoCorte, Chamar, SemChamada, TiposUsuario, TiposCorte, Origens, PassosChamada,
       StatusUsuario, LinhaUsuario, LinhaSessao, Chamada
  <2> QED BY <2>1, <2>2, <2>3, <2>4, <2>5 DEF IInvSessoes
<1>2. ASSUME NEW r \in Chamadas, NEW s \in Sessoes, LerRenovacao(r, s) PROVE IInvSessoes'
  <2>1. TipoSessoes'
    <3>1. [SemChamada EXCEPT !.passo = IF Parada(s) THEN "revogar" ELSE "renovar",
                                !.s = s, !.chave = sessao[s].chave] \in Chamada
      BY <1>2 DEF IInvSessoes, TipoSessoes, LinhaSessao, Origens, SemChamada, Chamada, PassosChamada
    <3> QED
      BY <1>2, <3>1, ChamarTipo DEF IInvSessoes, TipoSessoes, LerRenovacao
  <2>2. SessoesOK'
    BY <1>2 DEF IInvSessoes, Autenticada, DeAtivo, Viva, LerRenovacao, TipoSessoes, SessoesOK, Chamar,
       SemChamada, Origens, PassosChamada, StatusUsuario, TiposUsuario, TiposCorte, LinhaUsuario,
       LinhaSessao, Chamada
  <2>3. ChamadasOK'
    BY <1>2 DEF IInvSessoes, Autenticada, DeAtivo, Viva, LerRenovacao, TipoSessoes, SessoesOK,
       ChamadasOK, Chamar, SemChamada, TiposUsuario, Origens, PassosChamada, StatusUsuario, TiposCorte,
       LinhaUsuario, LinhaSessao, Chamada
  <2>4. AlvosOK'
    BY <1>2 DEF IInvSessoes, Autenticada, DeAtivo, Viva, LerRenovacao, TipoSessoes, SessoesOK,
       ChamadasOK, AlvosOK, Chamar, SemChamada, TiposUsuario, TiposCorte, Origens, PassosChamada,
       StatusUsuario, LinhaUsuario, LinhaSessao, Chamada
  <2>5. SessaoDepoisDoCorte'
    BY <1>2 DEF IInvSessoes, Autenticada, DeAtivo, Viva, LerRenovacao, TipoSessoes, SessoesOK,
       ChamadasOK, AlvosOK, SessaoDepoisDoCorte, Chamar, SemChamada, TiposUsuario, TiposCorte, Origens,
       PassosChamada, StatusUsuario, LinhaUsuario, LinhaSessao, Chamada
  <2> QED BY <2>1, <2>2, <2>3, <2>4, <2>5 DEF IInvSessoes
<1>3. ASSUME NEW r \in Chamadas, NEW s \in Sessoes, LerUso(r, s) PROVE IInvSessoes'
  <2>1. TipoSessoes'
    <3>1. [SemChamada EXCEPT !.passo = IF Parada(s) THEN "revogar" ELSE "tocar", !.s = s] \in Chamada
      BY <1>3 DEF Origens, SemChamada, Chamada, PassosChamada
    <3> QED
      BY <1>3, <3>1, ChamarTipo DEF IInvSessoes, TipoSessoes, LerUso
  <2>2. SessoesOK'
    BY <1>3 DEF IInvSessoes, Autenticada, DeAtivo, Viva, LerUso, TipoSessoes, SessoesOK, Chamar,
       SemChamada, Origens, PassosChamada, StatusUsuario, TiposUsuario, TiposCorte, LinhaUsuario,
       LinhaSessao, Chamada
  <2>3. ChamadasOK'
    BY <1>3 DEF IInvSessoes, Autenticada, DeAtivo, Viva, LerUso, TipoSessoes, SessoesOK, ChamadasOK,
       Chamar, SemChamada, TiposUsuario, Origens, PassosChamada, StatusUsuario, TiposCorte,
       LinhaUsuario, LinhaSessao, Chamada
  <2>4. AlvosOK'
    BY <1>3 DEF IInvSessoes, Autenticada, DeAtivo, Viva, LerUso, TipoSessoes, SessoesOK, ChamadasOK,
       AlvosOK, Chamar, SemChamada, TiposUsuario, TiposCorte, Origens, PassosChamada, StatusUsuario,
       LinhaUsuario, LinhaSessao, Chamada
  <2>5. SessaoDepoisDoCorte'
    BY <1>3 DEF IInvSessoes, Autenticada, DeAtivo, Viva, LerUso, TipoSessoes, SessoesOK, ChamadasOK,
       AlvosOK, SessaoDepoisDoCorte, Chamar, SemChamada, TiposUsuario, TiposCorte, Origens,
       PassosChamada, StatusUsuario, LinhaUsuario, LinhaSessao, Chamada
  <2> QED BY <2>1, <2>2, <2>3, <2>4, <2>5 DEF IInvSessoes
<1>4. ASSUME NEW r \in Chamadas, NEW s \in Sessoes, NEW v \in Sessoes, LerRevogacao(r, s, v) PROVE IInvSessoes'
  <2>1. TipoSessoes'
    <3>1. [SemChamada EXCEPT !.passo = "revogar", !.s = v] \in Chamada
      BY <1>4 DEF Origens, SemChamada, Chamada, PassosChamada
    <3> QED
      BY <1>4, <3>1, ChamarTipo DEF IInvSessoes, TipoSessoes, LerRevogacao
  <2>2. SessoesOK'
    BY <1>4 DEF IInvSessoes, Autenticada, DeAtivo, Viva, LerRevogacao, TipoSessoes, SessoesOK, Chamar,
       SemChamada, Origens, PassosChamada, StatusUsuario, TiposUsuario, TiposCorte, LinhaUsuario,
       LinhaSessao, Chamada
  <2>3. ChamadasOK'
    BY <1>4 DEF IInvSessoes, Autenticada, DeAtivo, Viva, LerRevogacao, TipoSessoes, SessoesOK,
       ChamadasOK, Chamar, SemChamada, TiposUsuario, Origens, PassosChamada, StatusUsuario, TiposCorte,
       LinhaUsuario, LinhaSessao, Chamada
  <2>4. AlvosOK'
    BY <1>4 DEF IInvSessoes, Autenticada, DeAtivo, Viva, LerRevogacao, TipoSessoes, SessoesOK,
       ChamadasOK, AlvosOK, Chamar, SemChamada, TiposUsuario, TiposCorte, Origens, PassosChamada,
       StatusUsuario, LinhaUsuario, LinhaSessao, Chamada
  <2>5. SessaoDepoisDoCorte'
    BY <1>4 DEF IInvSessoes, Autenticada, DeAtivo, Viva, LerRevogacao, TipoSessoes, SessoesOK,
       ChamadasOK, AlvosOK, SessaoDepoisDoCorte, Chamar, SemChamada, TiposUsuario, TiposCorte, Origens,
       PassosChamada, StatusUsuario, LinhaUsuario, LinhaSessao, Chamada
  <2> QED BY <2>1, <2>2, <2>3, <2>4, <2>5 DEF IInvSessoes
<1>5. ASSUME NEW r \in Chamadas, NEW u \in Usuarios, NEW s \in Sessoes \cup {Nada}, NEW k \in TiposUsuario, LerUsuario(r, u, s, k) PROVE IInvSessoes'
  <2>1. TipoSessoes'
    <3>1. [SemChamada EXCEPT !.passo = "cortar", !.u = u, !.s = s, !.tipo = k,
                                !.st = usuario[u].st, !.falhas = usuario[u].falhas] \in Chamada
      BY <1>5 DEF IInvSessoes, TipoSessoes, LinhaUsuario, Origens, SemChamada, Chamada, PassosChamada
    <3> QED
      BY <1>5, <3>1, ChamarTipo DEF IInvSessoes, TipoSessoes, LerUsuario
  <2>2. SessoesOK'
    BY <1>5 DEF IInvSessoes, LerUsuario, TipoSessoes, SessoesOK, Chamar, SemChamada, Origens,
       PassosChamada, StatusUsuario, TiposUsuario, TiposCorte, LinhaUsuario, LinhaSessao, Chamada,
       Permitido, Autenticada, DeAtivo, Viva, Existe
  <2>3. ChamadasOK'
    BY <1>5 DEF IInvSessoes, LerUsuario, TipoSessoes, SessoesOK, ChamadasOK, Chamar, SemChamada,
       TiposUsuario, Origens, PassosChamada, StatusUsuario, TiposCorte, LinhaUsuario, LinhaSessao,
       Chamada, Permitido, Autenticada, DeAtivo, Viva, Existe
  <2>4. AlvosOK'
    BY <1>5 DEF IInvSessoes, LerUsuario, TipoSessoes, SessoesOK, ChamadasOK, AlvosOK, Chamar,
       SemChamada, TiposUsuario, TiposCorte, Origens, PassosChamada, StatusUsuario, LinhaUsuario,
       LinhaSessao, Chamada, Permitido, Autenticada, DeAtivo, Viva, Existe
  <2>5. SessaoDepoisDoCorte'
    BY <1>5 DEF IInvSessoes, LerUsuario, TipoSessoes, SessoesOK, ChamadasOK, AlvosOK,
       SessaoDepoisDoCorte, Chamar, SemChamada, TiposUsuario, TiposCorte, Origens, PassosChamada,
       StatusUsuario, LinhaUsuario, LinhaSessao, Chamada, Permitido, Autenticada, DeAtivo, Viva, Existe
  <2> QED BY <2>1, <2>2, <2>3, <2>4, <2>5 DEF IInvSessoes
<1>6. ASSUME NEW u \in Usuarios, NEW t \in Tenants, CriarUsuario(u, t) PROVE IInvSessoes'
  <2>1. TipoSessoes'
    <3>1. [SemUsuario EXCEPT !.st = "ativo", !.tenant = t] \in LinhaUsuario
      BY DEF SemUsuario, LinhaUsuario, StatusUsuario
    <3> HIDE DEF LinhaUsuario
    <3>2. usuario' \in [Usuarios -> LinhaUsuario]
      BY <1>6, <3>1 DEF IInvSessoes, TipoSessoes, CriarUsuario
    <3>3. ops' \in 0 .. MaxOperacoes
      BY <1>6 DEF IInvSessoes, TipoSessoes, CriarUsuario
    <3> QED
      BY <1>6, <3>2, <3>3 DEF IInvSessoes, TipoSessoes, CriarUsuario
  <2>2. SessoesOK'
    BY <1>6 DEF IInvSessoes, CriarUsuario, TipoSessoes, SessoesOK, SemUsuario, Origens, PassosChamada,
       StatusUsuario, TiposUsuario, TiposCorte, LinhaUsuario, LinhaSessao, Chamada
  <2>3. ChamadasOK'
    BY <1>6 DEF IInvSessoes, CriarUsuario, TipoSessoes, SessoesOK, ChamadasOK, SemUsuario,
       TiposUsuario, Origens, PassosChamada, StatusUsuario, TiposCorte, LinhaUsuario, LinhaSessao,
       Chamada
  <2>4. AlvosOK'
    BY <1>6 DEF IInvSessoes, CriarUsuario, TipoSessoes, SessoesOK, ChamadasOK, AlvosOK, SemUsuario,
       TiposUsuario, TiposCorte, Origens, PassosChamada, StatusUsuario, LinhaUsuario, LinhaSessao,
       Chamada
  <2>5. SessaoDepoisDoCorte'
    BY <1>6 DEF IInvSessoes, CriarUsuario, TipoSessoes, SessoesOK, ChamadasOK, AlvosOK,
       SessaoDepoisDoCorte, SemUsuario, TiposUsuario, TiposCorte, Origens, PassosChamada,
       StatusUsuario, LinhaUsuario, LinhaSessao, Chamada
  <2> QED BY <2>1, <2>2, <2>3, <2>4, <2>5 DEF IInvSessoes
<1>7. ASSUME NEW r \in Chamadas, NEW s \in Sessoes, NEW t \in Tenants, LerTroca(r, s, t) PROVE IInvSessoes'
  <2>1. TipoSessoes'
    <3>1. sessao[s].u \in Usuarios \cup {Nada}
      BY DEF IInvSessoes, TipoSessoes, LinhaSessao
    <3>2. [SemChamada EXCEPT !.passo = "trocar", !.s = s, !.u = sessao[s].u, !.t = t] \in Chamada
      BY <3>1 DEF SemChamada, Chamada, PassosChamada, Origens
    <3> QED
      BY <1>7, <3>2, ChamarTipo DEF IInvSessoes, TipoSessoes, LerTroca
  <2>2. SessoesOK'
    BY <1>7 DEF IInvSessoes, Autenticada, DeAtivo, Viva, LerTroca, TipoSessoes, SessoesOK, Chamar,
       SemChamada, Origens, PassosChamada, StatusUsuario, TiposUsuario, TiposCorte, LinhaUsuario,
       LinhaSessao, Chamada
  <2>3. ChamadasOK'
    BY <1>7 DEF IInvSessoes, Autenticada, DeAtivo, Viva, LerTroca, TipoSessoes, SessoesOK, ChamadasOK,
       Chamar, SemChamada, TiposUsuario, Origens, PassosChamada, StatusUsuario, TiposCorte,
       LinhaUsuario, LinhaSessao, Chamada
  <2>4. AlvosOK'
    BY <1>7 DEF IInvSessoes, Autenticada, DeAtivo, Viva, LerTroca, TipoSessoes, SessoesOK, ChamadasOK,
       AlvosOK, Chamar, SemChamada, TiposUsuario, TiposCorte, Origens, PassosChamada, StatusUsuario,
       LinhaUsuario, LinhaSessao, Chamada
  <2>5. SessaoDepoisDoCorte'
    BY <1>7 DEF IInvSessoes, Autenticada, DeAtivo, Viva, LerTroca, TipoSessoes, SessoesOK, ChamadasOK,
       AlvosOK, SessaoDepoisDoCorte, Chamar, SemChamada, TiposUsuario, TiposCorte, Origens,
       PassosChamada, StatusUsuario, LinhaUsuario, LinhaSessao, Chamada
  <2> QED BY <2>1, <2>2, <2>3, <2>4, <2>5 DEF IInvSessoes
<1>8. ASSUME NEW s \in Sessoes, NEW uso \in {"parada", "vencida"}, Parar(s, uso) PROVE IInvSessoes'
  <2>1. TipoSessoes'
    BY <1>8 DEF IInvSessoes, Parar, TipoSessoes, Origens, PassosChamada, StatusUsuario, TiposUsuario,
       TiposCorte, LinhaUsuario, LinhaSessao, Chamada
  <2>2. SessoesOK'
    BY <1>8 DEF IInvSessoes, Parar, TipoSessoes, SessoesOK, Origens, PassosChamada, StatusUsuario,
       TiposUsuario, TiposCorte, LinhaUsuario, LinhaSessao, Chamada
  <2>3. ChamadasOK'
    BY <1>8 DEF IInvSessoes, Parar, TipoSessoes, SessoesOK, ChamadasOK, TiposUsuario, Origens,
       PassosChamada, StatusUsuario, TiposCorte, LinhaUsuario, LinhaSessao, Chamada
  <2>4. AlvosOK'
    BY <1>8 DEF IInvSessoes, Parar, TipoSessoes, SessoesOK, ChamadasOK, AlvosOK, TiposUsuario,
       TiposCorte, Origens, PassosChamada, StatusUsuario, LinhaUsuario, LinhaSessao, Chamada
  <2>5. SessaoDepoisDoCorte'
    BY <1>8 DEF IInvSessoes, Parar, TipoSessoes, SessoesOK, ChamadasOK, AlvosOK, SessaoDepoisDoCorte,
       TiposUsuario, TiposCorte, Origens, PassosChamada, StatusUsuario, LinhaUsuario, LinhaSessao,
       Chamada
  <2> QED BY <2>1, <2>2, <2>3, <2>4, <2>5 DEF IInvSessoes
<1>9. ASSUME NEW r \in Chamadas, RegistrarFalha(r) PROVE IInvSessoes'
  <2>1. TipoSessoes'
    <3>1. rq[r].u \in Usuarios /\ rq[r].falhas + 1 \in Nat
      BY <1>9 DEF IInvSessoes, TipoSessoes, Chamada, ChamadasOK, RegistrarFalha
    <3> DEFINE x == usuario[rq[r].u]
               st == IF rq[r].falhas + 1 >= LimiteFalhas /\ rq[r].st # "bloqueado" THEN "bloqueado" ELSE x.st
    <3>2. x \in LinhaUsuario
      BY <3>1 DEF IInvSessoes, TipoSessoes
    <3>3. st \in StatusUsuario \cup {"livre"}
      BY <3>2, UsuarioTipo DEF StatusUsuario
    <3>4. [x EXCEPT !.falhas = rq[r].falhas + 1, !.st = st] \in LinhaUsuario
      BY <3>1, <3>2, <3>3, UsuarioTipo
    <3>5. usuario' = [usuario EXCEPT ![rq[r].u] = [x EXCEPT !.falhas = rq[r].falhas + 1, !.st = st]]
      BY <1>9, <3>1, <3>2 DEF RegistrarFalha, LinhaUsuario, IInvSessoes, TipoSessoes
    <3>6. usuario' \in [Usuarios -> LinhaUsuario]
      BY <3>4, <3>5 DEF IInvSessoes, TipoSessoes
    <3> QED
      BY <1>9, <3>6, ResponderTipo DEF IInvSessoes, TipoSessoes, RegistrarFalha
  <2>2. SessoesOK'
    BY <1>9 DEF IInvSessoes, RegistrarFalha, TipoSessoes, SessoesOK, Responder, Travado, SemChamada,
       Origens, PassosChamada, StatusUsuario, TiposUsuario, TiposCorte, LinhaUsuario, LinhaSessao,
       Chamada
  <2>3. ChamadasOK'
    BY <1>9 DEF IInvSessoes, RegistrarFalha, TipoSessoes, SessoesOK, ChamadasOK, Responder, Travado,
       TiposUsuario, SemChamada, Origens, PassosChamada, StatusUsuario, TiposCorte, LinhaUsuario,
       LinhaSessao, Chamada
  <2>4. AlvosOK'
    BY <1>9 DEF IInvSessoes, RegistrarFalha, TipoSessoes, SessoesOK, ChamadasOK, AlvosOK, Responder,
       Travado, TiposUsuario, TiposCorte, SemChamada, Origens, PassosChamada, StatusUsuario,
       LinhaUsuario, LinhaSessao, Chamada
  <2>5. SessaoDepoisDoCorte'
    BY <1>9 DEF IInvSessoes, RegistrarFalha, TipoSessoes, SessoesOK, ChamadasOK, AlvosOK,
       SessaoDepoisDoCorte, Responder, Travado, TiposUsuario, TiposCorte, SemChamada, Origens,
       PassosChamada, StatusUsuario, LinhaUsuario, LinhaSessao, Chamada
  <2> QED BY <2>1, <2>2, <2>3, <2>4, <2>5 DEF IInvSessoes
<1>10. ASSUME NEW r \in Chamadas, AbrirSessao(r) PROVE IInvSessoes'
  <2> DEFINE u == rq[r].u
             n == IF rq[r].falhas = 0 THEN usuario[u].falhas ELSE 0
  <2>1. u \in Usuarios /\ rq[r].origem \in Origens /\ rq[r].corte \in Nat /\ usuario[u] \in LinhaUsuario
    BY <1>10 DEF IInvSessoes, TipoSessoes, Chamada, ChamadasOK, AbrirSessao
  <2>2. PICK s \in Sessoes : sessao[s].st = "livre" /\ sessao' = NovaSessao(s, u, rq[r].origem, rq[r].corte)
    BY <1>10 DEF AbrirSessao
  <2> DEFINE x == NovaSessao(s, u, rq[r].origem, rq[r].corte)[s]
  <2>3. /\ x \in LinhaSessao /\ x.st = "viva" /\ x.u = u /\ x.corte = corte[u]
        /\ sessao' = [sessao EXCEPT ![s] = x]
    BY <2>1, <2>2, NovaSessaoConhecida DEF IInvSessoes
  <2> HIDE DEF x
  <2>4. usuario' \in [Usuarios -> LinhaUsuario]
    <3>1. [usuario[u] EXCEPT !.falhas = n] \in LinhaUsuario
      BY <2>1, UsuarioTipo
    <3>2. usuario' = [usuario EXCEPT ![u] = [usuario[u] EXCEPT !.falhas = n]]
      BY <1>10, <2>1 DEF AbrirSessao, IInvSessoes, TipoSessoes, LinhaUsuario
    <3> QED
      BY <2>1, <3>1, <3>2 DEF IInvSessoes, TipoSessoes
  <2>5. sessao' \in [Sessoes -> LinhaSessao] /\ sessao'[s] = x /\ \A v \in Sessoes \ {s} : sessao'[v] = sessao[v]
    BY <2>3 DEF IInvSessoes, TipoSessoes
  <2>6. /\ rq' \in [Chamadas -> Chamada] /\ rq'[r].passo = "livre"
        /\ \A c \in Chamadas \ {r} : rq'[c] = rq[c]
    BY <1>10, SemChamadaTipo DEF IInvSessoes, TipoSessoes, AbrirSessao, Responder, SemChamada
  <2>7. UNCHANGED <<corte, ops>>
    BY <1>10 DEF AbrirSessao, Responder
  <2>8. TipoSessoes'
    BY <2>4, <2>5, <2>6, <2>7 DEF IInvSessoes, TipoSessoes
  <2>9. SessoesOK'
    BY <2>1, <2>3, <2>5 DEF IInvSessoes, SessoesOK
  <2>10. ChamadasOK'
    BY <2>2, <2>5, <2>6, <2>3 DEF IInvSessoes, ChamadasOK
  <2>11. AlvosOK'
    <3>1. ~Travado(u)
      BY <1>10 DEF AbrirSessao
    <3> QED
      BY <2>3, <2>5, <2>6, <3>1 DEF IInvSessoes, AlvosOK, Travado
  <2>12. SessaoDepoisDoCorte'
    BY <2>3, <2>5, <2>7 DEF IInvSessoes, SessaoDepoisDoCorte
  <2> QED
    BY <2>8, <2>9, <2>10, <2>11, <2>12 DEF IInvSessoes
<1>11. ASSUME NEW r \in Chamadas, Renovar(r) PROVE IInvSessoes'
  <2>1. TipoSessoes'
    <3>1. rq[r].s \in Sessoes /\ sessao \in [Sessoes -> LinhaSessao] /\ rq[r].chave + 1 \in Nat
      BY <1>11 DEF IInvSessoes, TipoSessoes, ChamadasOK, Chamada, Renovar
    <3>2. [sessao[rq[r].s] EXCEPT !.chave = rq[r].chave + 1, !.uso = "recente"] \in LinhaSessao
      BY <3>1, SessaoTipo
    <3>3. sessao' \in [Sessoes -> LinhaSessao]
      BY <1>11, <3>1, <3>2 DEF Renovar
    <3> QED
      BY <1>11, <3>3, ResponderTipo DEF IInvSessoes, TipoSessoes, Renovar
  <2>2. SessoesOK'
    BY <1>11 DEF IInvSessoes, Renovar, TipoSessoes, SessoesOK, Responder, SemChamada, Origens,
       PassosChamada, StatusUsuario, TiposUsuario, TiposCorte, LinhaUsuario, LinhaSessao, Chamada
  <2>3. ChamadasOK'
    BY <1>11 DEF IInvSessoes, Renovar, TipoSessoes, SessoesOK, ChamadasOK, Responder, TiposUsuario,
       SemChamada, Origens, PassosChamada, StatusUsuario, TiposCorte, LinhaUsuario, LinhaSessao, Chamada
  <2>4. AlvosOK'
    BY <1>11 DEF IInvSessoes, Renovar, TipoSessoes, SessoesOK, ChamadasOK, AlvosOK, Responder,
       TiposUsuario, TiposCorte, SemChamada, Origens, PassosChamada, StatusUsuario, LinhaUsuario,
       LinhaSessao, Chamada
  <2>5. SessaoDepoisDoCorte'
    BY <1>11 DEF IInvSessoes, Renovar, TipoSessoes, SessoesOK, ChamadasOK, AlvosOK,
       SessaoDepoisDoCorte, Responder, TiposUsuario, TiposCorte, SemChamada, Origens, PassosChamada,
       StatusUsuario, LinhaUsuario, LinhaSessao, Chamada
  <2> QED BY <2>1, <2>2, <2>3, <2>4, <2>5 DEF IInvSessoes
<1>12. ASSUME NEW r \in Chamadas, Tocar(r) PROVE IInvSessoes'
  <2>1. TipoSessoes'
    <3>1. rq[r].s \in Sessoes /\ sessao \in [Sessoes -> LinhaSessao]
      BY <1>12 DEF IInvSessoes, TipoSessoes, ChamadasOK, Chamada, Tocar
    <3>2. [sessao[rq[r].s] EXCEPT !.uso = "recente"] \in LinhaSessao
      BY <3>1, SessaoTipo
    <3>3. sessao' \in [Sessoes -> LinhaSessao]
      BY <1>12, <3>1, <3>2 DEF Tocar
    <3> QED
      BY <1>12, <3>3, ResponderTipo DEF IInvSessoes, TipoSessoes, Tocar
  <2>2. SessoesOK'
    BY <1>12 DEF IInvSessoes, Tocar, TipoSessoes, SessoesOK, Responder, SemChamada, Origens,
       PassosChamada, StatusUsuario, TiposUsuario, TiposCorte, LinhaUsuario, LinhaSessao, Chamada
  <2>3. ChamadasOK'
    BY <1>12 DEF IInvSessoes, Tocar, TipoSessoes, SessoesOK, ChamadasOK, Responder, TiposUsuario,
       SemChamada, Origens, PassosChamada, StatusUsuario, TiposCorte, LinhaUsuario, LinhaSessao, Chamada
  <2>4. AlvosOK'
    BY <1>12 DEF IInvSessoes, Tocar, TipoSessoes, SessoesOK, ChamadasOK, AlvosOK, Responder,
       TiposUsuario, TiposCorte, SemChamada, Origens, PassosChamada, StatusUsuario, LinhaUsuario,
       LinhaSessao, Chamada
  <2>5. SessaoDepoisDoCorte'
    BY <1>12 DEF IInvSessoes, Tocar, TipoSessoes, SessoesOK, ChamadasOK, AlvosOK, SessaoDepoisDoCorte,
       Responder, TiposUsuario, TiposCorte, SemChamada, Origens, PassosChamada, StatusUsuario,
       LinhaUsuario, LinhaSessao, Chamada
  <2> QED BY <2>1, <2>2, <2>3, <2>4, <2>5 DEF IInvSessoes
<1>13. ASSUME NEW r \in Chamadas, Revogar(r) PROVE IInvSessoes'
  <2>1. TipoSessoes'
    <3>1. rq[r].s \in Sessoes /\ sessao \in [Sessoes -> LinhaSessao]
      BY <1>13 DEF IInvSessoes, TipoSessoes, ChamadasOK, Chamada, Revogar
    <3>2. [sessao[rq[r].s] EXCEPT !.st = "revogada"] \in LinhaSessao
      BY <3>1, SessaoTipo
    <3>3. sessao' \in [Sessoes -> LinhaSessao]
      BY <1>13, <3>1, <3>2 DEF Revogar
    <3> QED
      BY <1>13, <3>3, ResponderTipo DEF IInvSessoes, TipoSessoes, Revogar
  <2>2. SessoesOK'
    <3>1. \A s \in Sessoes : sessao'[s].u = sessao[s].u /\ (sessao'[s].st # "livre" => sessao[s].st # "livre")
      BY <1>13 DEF IInvSessoes, TipoSessoes, LinhaSessao, ChamadasOK, Revogar
    <3> QED
      BY <3>1 DEF IInvSessoes, SessoesOK
  <2>3. ChamadasOK'
    BY <1>13 DEF IInvSessoes, Revogar, TipoSessoes, SessoesOK, ChamadasOK, Responder, TiposUsuario,
       SemChamada, Origens, PassosChamada, StatusUsuario, TiposCorte, LinhaUsuario, LinhaSessao, Chamada
  <2>4. AlvosOK'
    BY <1>13 DEF IInvSessoes, Revogar, TipoSessoes, SessoesOK, ChamadasOK, AlvosOK, Responder,
       TiposUsuario, TiposCorte, SemChamada, Origens, PassosChamada, StatusUsuario, LinhaUsuario,
       LinhaSessao, Chamada
  <2>5. SessaoDepoisDoCorte'
    BY <1>13 DEF IInvSessoes, Revogar, TipoSessoes, SessoesOK, ChamadasOK, AlvosOK,
       SessaoDepoisDoCorte, Responder, TiposUsuario, TiposCorte, SemChamada, Origens, PassosChamada,
       StatusUsuario, LinhaUsuario, LinhaSessao, Chamada
  <2> QED BY <2>1, <2>2, <2>3, <2>4, <2>5 DEF IInvSessoes
<1>14. ASSUME NEW r \in Chamadas, Cortar(r) PROVE IInvSessoes'
  <2>1. TipoSessoes'
    <3> DEFINE x == [rq[r] EXCEPT !.passo = "confirmar",
                                  !.alvos = IF rq[r].tipo \in TiposCorte
                                            THEN Alvos(rq[r].u, rq[r].s, rq[r].tipo) ELSE {}]
    <3>1. rq[r] \in Chamada /\ rq \in [Chamadas -> Chamada]
      BY DEF IInvSessoes, TipoSessoes
    <3>2. (IF rq[r].tipo \in TiposCorte THEN Alvos(rq[r].u, rq[r].s, rq[r].tipo) ELSE {}) \in SUBSET Sessoes
      BY DEF Alvos
    <3>3. \A A \in SUBSET Sessoes : [rq[r] EXCEPT !.passo = "confirmar", !.alvos = A] \in Chamada
      BY <3>1 DEF Chamada, PassosChamada
    <3>4. x \in Chamada
      BY <3>2, <3>3
    <3>5. rq' = [rq EXCEPT ![r] = x]
      BY <1>14, <3>1 DEF Cortar
    <3> HIDE DEF x
    <3>6. rq' \in [Chamadas -> Chamada]
      BY <3>1, <3>4, <3>5
    <3> QED
      BY <1>14, <3>6 DEF IInvSessoes, TipoSessoes, Cortar
  <2>2. SessoesOK'
    BY <1>14 DEF IInvSessoes, Cortar, TipoSessoes, SessoesOK, Alvos, TiposCorte, Travado, Origens,
       PassosChamada, StatusUsuario, TiposUsuario, LinhaUsuario, LinhaSessao, Chamada
  <2>3. ChamadasOK'
    BY <1>14 DEF IInvSessoes, Cortar, TipoSessoes, SessoesOK, ChamadasOK, Alvos, TiposCorte, Travado,
       TiposUsuario, Origens, PassosChamada, StatusUsuario, LinhaUsuario, LinhaSessao, Chamada
  <2>4. AlvosOK'
    BY <1>14 DEF IInvSessoes, Cortar, TipoSessoes, SessoesOK, ChamadasOK, AlvosOK, Alvos, TiposCorte,
       Travado, TiposUsuario, Origens, PassosChamada, StatusUsuario, LinhaUsuario, LinhaSessao, Chamada
  <2>5. SessaoDepoisDoCorte'
    BY <1>14 DEF IInvSessoes, Cortar, TipoSessoes, SessoesOK, ChamadasOK, AlvosOK, SessaoDepoisDoCorte,
       Alvos, TiposCorte, Travado, TiposUsuario, Origens, PassosChamada, StatusUsuario, LinhaUsuario,
       LinhaSessao, Chamada
  <2> QED BY <2>1, <2>2, <2>3, <2>4, <2>5 DEF IInvSessoes
<1>15. ASSUME NEW r \in Chamadas, Confirmar(r) PROVE IInvSessoes'
  <2> DEFINE c == rq[r]
             n == corte[c.u] + 1
  <2>1. /\ c \in Chamada /\ c.u \in Usuarios /\ c.tipo \in TiposUsuario /\ n \in Nat
        /\ c.s # Nada => sessao[c.s].u = c.u
    BY <1>15 DEF IInvSessoes, TipoSessoes, ChamadasOK, Confirmar
  <2>2. usuario' \in [Usuarios -> LinhaUsuario]
    <3>1. Mudado(c.u, c) \in LinhaUsuario
      BY <2>1, MudadoTipo DEF IInvSessoes
    <3> QED
      BY <1>15, <3>1 DEF IInvSessoes, TipoSessoes, Confirmar
  <2>3. /\ rq' \in [Chamadas -> Chamada] /\ rq'[r].passo = "livre"
        /\ \A d \in Chamadas \ {r} : rq'[d] = rq[d]
        /\ UNCHANGED ops
    BY <1>15, SemChamadaTipo DEF IInvSessoes, TipoSessoes, Confirmar, Responder, SemChamada
  <2>4. CASE c.tipo \in TiposCorte
    <3>1. corte' = [corte EXCEPT ![c.u] = n]
      BY <1>15, <2>4 DEF Confirmar
    <3>2. sessao' = [v \in Sessoes |-> IF v \in c.alvos THEN [sessao[v] EXCEPT !.st = "revogada"]
                                       ELSE IF v = c.s THEN [sessao[v] EXCEPT !.corte = n] ELSE sessao[v]]
      BY <1>15, <2>4 DEF Confirmar
    <3>3. \A v \in Sessoes : sessao[v] \in LinhaSessao
      BY DEF IInvSessoes, TipoSessoes
    <3>4. ASSUME NEW v \in Sessoes
          PROVE  /\ sessao'[v] \in LinhaSessao
                 /\ sessao'[v].u = sessao[v].u /\ sessao'[v].tardia = sessao[v].tardia
                 /\ (sessao'[v].st # "livre") <=> (sessao[v].st # "livre")
                 /\ sessao'[v].st = "viva" =>
                       /\ sessao[v].st = "viva" /\ v \notin c.alvos
                       /\ sessao'[v].corte = IF v = c.s THEN n ELSE sessao[v].corte
      <4>1. CASE v \in c.alvos
        <5>1. sessao'[v] = [sessao[v] EXCEPT !.st = "revogada"]
          BY <3>2, <4>1
        <5>2. sessao[v].st # "livre"
          BY <1>15, <4>1 DEF IInvSessoes, ChamadasOK, Confirmar
        <5> QED  BY <3>3, <4>1, <5>1, <5>2 DEF LinhaSessao
      <4>2. CASE v \notin c.alvos /\ v = c.s
        <5>1. sessao'[v] = [sessao[v] EXCEPT !.corte = n]
          BY <3>2, <4>2
        <5> QED  BY <2>1, <3>3, <4>2, <5>1 DEF LinhaSessao
      <4>3. CASE v \notin c.alvos /\ v # c.s
        <5>1. sessao'[v] = sessao[v]
          BY <3>2, <4>3
        <5> QED  BY <3>3, <4>3, <5>1
      <4> QED  BY <4>1, <4>2, <4>3
    <3> HIDE DEF c, n
    <3>5. sessao' \in [Sessoes -> LinhaSessao]
      BY <3>2, <3>4
    <3>6. corte' \in [Usuarios -> Nat] /\ corte'[c.u] = n /\ \A u \in Usuarios \ {c.u} : corte'[u] = corte[u]
      BY <2>1, <3>1 DEF IInvSessoes, TipoSessoes
    <3>7. TipoSessoes'
      BY <2>2, <2>3, <3>5, <3>6 DEF IInvSessoes, TipoSessoes
    <3>8. SessoesOK'
      BY <3>4 DEF IInvSessoes, SessoesOK
    <3>9. ChamadasOK'
      <4>1. ASSUME NEW d \in Chamadas \ {r}
            PROVE  rq'[d] = rq[d] /\ rq[d].s \in Sessoes \cup {Nada} /\ rq[d].alvos \in SUBSET Sessoes
        BY <2>3 DEF IInvSessoes, TipoSessoes, Chamada
      <4> QED
        BY <2>3, <3>4, <4>1 DEF IInvSessoes, ChamadasOK
    <3>10. AlvosOK'
      BY <2>3, <3>4 DEF IInvSessoes, AlvosOK
    <3>11. SessaoDepoisDoCorte'
      <4> SUFFICES ASSUME NEW v \in Sessoes, sessao'[v].st = "viva", sessao'[v].tardia # "sim"
                   PROVE  sessao'[v].corte = corte'[sessao'[v].u]
        BY DEF SessaoDepoisDoCorte
      <4>1. sessao[v].st = "viva" /\ sessao[v].u \in Usuarios /\ sessao[v].tardia = "nao"
        BY <3>3, <3>4 DEF IInvSessoes, SessoesOK, LinhaSessao
      <4>2. CASE sessao[v].u # c.u
        BY <2>1, <3>4, <3>6, <4>1, <4>2 DEF IInvSessoes, SessaoDepoisDoCorte, SessoesOK
      <4>3. CASE sessao[v].u = c.u
        <5>1. v = c.s
          BY <1>15, <2>4, <3>4, <4>1, <4>3 DEF IInvSessoes, AlvosOK, Confirmar, c
        <5> QED  BY <3>4, <3>6, <4>3, <5>1
      <4> QED  BY <4>2, <4>3
    <3> QED
      BY <3>7, <3>8, <3>9, <3>10, <3>11 DEF IInvSessoes
  <2>5. CASE c.tipo \notin TiposCorte
    <3>1. UNCHANGED <<corte, sessao>>
      BY <1>15, <2>5 DEF Confirmar
    <3>2. TipoSessoes'
      BY <2>2, <2>3, <3>1 DEF IInvSessoes, TipoSessoes
    <3>3. SessoesOK' /\ SessaoDepoisDoCorte'
      BY <3>1 DEF IInvSessoes, SessoesOK, SessaoDepoisDoCorte
    <3>4. ChamadasOK' /\ AlvosOK'
      BY <2>3, <3>1 DEF IInvSessoes, ChamadasOK, AlvosOK
    <3> QED
      BY <3>2, <3>3, <3>4 DEF IInvSessoes
  <2> QED
    BY <2>4, <2>5
<1>16. ASSUME NEW r \in Chamadas, Trocar(r) PROVE IInvSessoes'
  <2> DEFINE c == rq[r]
             antes == [sessao EXCEPT ![c.s].st = "revogada"]
  <2>1. c.u \in Usuarios /\ c.s \in Sessoes /\ sessao[c.s].st # "livre" /\ c.t \in Tenants \cup {Nada}
    BY <1>16 DEF IInvSessoes, TipoSessoes, Chamada, ChamadasOK, Trocar
  <2>2. PICK x \in Usuarios, s \in Sessoes :
           /\ sessao[s].st = "livre"
           /\ \/ UNCHANGED usuario
              \/ usuario' = [usuario EXCEPT ![x] =
                    [SemUsuario EXCEPT !.st = "ativo", !.tenant = c.t, !.raiz = Raiz(c.u),
                                       !.senha = usuario[c.u].senha, !.mfa = usuario[c.u].mfa]]
           /\ sessao' = [antes EXCEPT ![s] = NovaSessao(s, x, sessao[c.s].origem, corte[x])[s]]
    BY <1>16 DEF Trocar
  <2>3. /\ rq' \in [Chamadas -> Chamada] /\ rq'[r].passo = "livre"
        /\ \A d \in Chamadas \ {r} : rq'[d] = rq[d]
        /\ UNCHANGED <<corte, ops>>
    BY <1>16, SemChamadaTipo DEF IInvSessoes, TipoSessoes, Trocar, Responder, SemChamada
  <2>4. sessao[c.s] \in LinhaSessao /\ sessao[c.s].origem \in Origens /\ corte[x] \in Nat /\ usuario[c.u] \in LinhaUsuario
    BY <2>1 DEF IInvSessoes, TipoSessoes, LinhaSessao
  <2> DEFINE nova == NovaSessao(s, x, sessao[c.s].origem, corte[x])[s]
  <2>5. /\ nova \in LinhaSessao /\ nova.st = "viva" /\ nova.u = x /\ nova.corte = corte[x]
        /\ Travado(x) => nova.tardia = "sim"
    BY <2>4, NovaSessaoConhecida DEF IInvSessoes, Tardia
  <2> HIDE DEF nova
  <2>6. /\ [sessao[c.s] EXCEPT !.st = "revogada"] \in LinhaSessao
        /\ antes = [sessao EXCEPT ![c.s] = [sessao[c.s] EXCEPT !.st = "revogada"]]
    BY <2>1, <2>4, SessaoTipo DEF IInvSessoes, TipoSessoes
  <2>7. sessao' \in [Sessoes -> LinhaSessao] /\ sessao'[s] = nova /\ s # c.s
    BY <2>1, <2>2, <2>5, <2>6 DEF IInvSessoes, TipoSessoes, nova
  <2>8. /\ \A v \in Sessoes \ {s, c.s} : sessao'[v] = sessao[v]
        /\ sessao'[c.s].st = "revogada" /\ sessao'[c.s].u = sessao[c.s].u
    BY <2>1, <2>2, <2>4, <2>6, <2>7 DEF IInvSessoes, TipoSessoes, LinhaSessao
  <2>9. usuario' \in [Usuarios -> LinhaUsuario]
    <3>1. Raiz(c.u) \in Usuarios \cup {Nada}
      BY <2>1, <2>4 DEF Raiz, LinhaUsuario
    <3>2. [SemUsuario EXCEPT !.st = "ativo", !.tenant = c.t, !.raiz = Raiz(c.u),
                             !.senha = usuario[c.u].senha, !.mfa = usuario[c.u].mfa] \in LinhaUsuario
      BY <2>1, <2>4, <3>1 DEF SemUsuario, LinhaUsuario, StatusUsuario
    <3> QED
      BY <2>2, <3>2 DEF IInvSessoes, TipoSessoes
  <2>10. TipoSessoes'
    BY <2>3, <2>7, <2>9 DEF IInvSessoes, TipoSessoes
  <2>11. SessoesOK'
    BY <2>1, <2>5, <2>7, <2>8 DEF IInvSessoes, SessoesOK
  <2>12. ChamadasOK'
    <3>1. \A v \in Sessoes : sessao[v].st # "livre" => sessao'[v].st # "livre" /\ sessao'[v].u = sessao[v].u
      BY <2>1, <2>2, <2>7, <2>8
    <3> QED
      BY <2>3, <3>1 DEF IInvSessoes, TipoSessoes, Chamada, ChamadasOK
  <2>13. AlvosOK'
    BY <2>3, <2>5, <2>7, <2>8 DEF IInvSessoes, AlvosOK, Travado, TiposCorte
  <2>14. SessaoDepoisDoCorte'
    BY <2>3, <2>5, <2>7, <2>8 DEF IInvSessoes, SessaoDepoisDoCorte
  <2> QED
    BY <2>10, <2>11, <2>12, <2>13, <2>14 DEF IInvSessoes
<1> QED BY <1>1, <1>2, <1>3, <1>4, <1>5, <1>6, <1>7, <1>8, <1>9, <1>10, <1>11, <1>12, <1>13, <1>14,
           <1>15, <1>16 DEF NextSessoes

(***************************************************************************)
(* Theorems.                                                               *)
(***************************************************************************)
LEMMA Inicio == Init => IInv
<1> SUFFICES ASSUME Init PROVE IInv
  OBVIOUS
<1> USE NadaForaDaAssinatura, NadaForaDaConta, ErrosNaturais, LimitesNaturais DEF Init
<1>1. TipoAssinatura
  <2>1. contrato \in [Contratos -> LinhaContrato] /\ tenant \in [Tenants -> LinhaTenant]
    BY DEF InitAssinatura, LinhaContrato, LinhaTenant, SemTenant
  <2>2. evento \in [Eventos -> Evento] /\ pedido \in [Pedidos -> Pedido]
    BY SemPedidoTipo DEF InitAssinatura, Evento
  <2> QED
    BY <2>1, <2>2 DEF InitAssinatura, TipoAssinatura
<1>2. EventosOK /\ TenantsOK /\ ContratosOK /\ AprovacoesOK /\ UmTenantPorContrato
  BY DEF InitAssinatura, SemPedido, EventosOK, TenantsOK, ContratosOK, AprovacoesOK, Aprovando,
         UmTenantPorContrato, PassosDeEvento, PassosDeContrato, PassosDeTenant, PassosDeGestor
<1>3. EventoUmaVez
  BY DEF InitAssinatura, EventoUmaVez
<1>4. TipoSessoes
  <2>1. SemUsuario \in LinhaUsuario /\ SemSessao \in LinhaSessao /\ SemChamada \in Chamada
    BY DEF SemUsuario, LinhaUsuario, SemSessao, LinhaSessao, SemChamada, Chamada, StatusUsuario,
           Origens, TiposUsuario, PassosChamada
  <2> QED
    BY <2>1 DEF InitSessoes, TipoSessoes
<1>5. SessoesOK /\ ChamadasOK /\ AlvosOK /\ SessaoDepoisDoCorte
  BY DEF InitSessoes, SemSessao, SemChamada, SessoesOK, ChamadasOK, AlvosOK, SessaoDepoisDoCorte
<1> QED
  BY <1>1, <1>2, <1>3, <1>4, <1>5 DEF IInv, IInvAssinatura, IInvSessoes

LEMMA Passo == IInv /\ [Next]_vars => IInv'
<1> SUFFICES ASSUME IInv, [Next]_vars PROVE IInv'
  OBVIOUS
<1>1. CASE NextAssinatura /\ UNCHANGED varsSessoes
  <2>1. IInvAssinatura'
    BY <1>1, AssinaturaPasso DEF IInv
  <2>2. IInvSessoes'
    BY <1>1 DEF IInv, IInvSessoes, varsSessoes, TipoSessoes, SessoesOK, ChamadasOK, AlvosOK,
                SessaoDepoisDoCorte
  <2> QED
    BY <2>1, <2>2 DEF IInv
<1>2. CASE NextSessoes /\ UNCHANGED varsAssinatura
  <2>1. IInvSessoes'
    BY <1>2, SessoesPasso DEF IInv
  <2>2. IInvAssinatura'
    BY <1>2 DEF IInv, IInvAssinatura, varsAssinatura, TipoAssinatura, EventosOK, TenantsOK,
                ContratosOK, AprovacoesOK, Aprovando, EventoUmaVez, UmTenantPorContrato
  <2> QED
    BY <2>1, <2>2 DEF IInv
<1>3. CASE UNCHANGED vars
  BY <1>3 DEF IInv, vars, varsSessoes, IInvSessoes, TipoSessoes, SessoesOK, ChamadasOK, AlvosOK,
              SessaoDepoisDoCorte, IInvAssinatura, varsAssinatura, TipoAssinatura, EventosOK,
              TenantsOK, ContratosOK, AprovacoesOK, Aprovando, EventoUmaVez, UmTenantPorContrato
<1> QED
  BY <1>1, <1>2, <1>3 DEF Next

\* The inductive invariant holds in every reachable state.
THEOREM Invariante == Spec => []IInv
<1> QED  BY Inicio, Passo, PTL DEF Spec

\* Every row and every request in progress has its type (tenants/, auth/).
THEOREM TiposCorretos == Spec => []TypeOK
<1>1. IInv => TypeOK
  BY DEF IInv, IInvAssinatura, IInvSessoes, TypeOK
<1> QED  BY <1>1, Invariante, PTL

\* Payments delivered again, refused, cut short or processed together with
\* managers' requests leave one tenant for each contract and one effect for
\* each event; the sessions that a change of the user ended do not survive it
\* (process_payment_approved, claim_webhook_event, revoke_all_user_sessions).
THEOREM ContaSempreConfere == Spec => []ContaConfere
<1>1. IInvAssinatura => AprovadaTemTenant
  BY DEF IInvAssinatura, ContratosOK, AprovadaTemTenant
<1>2. IInv => ContaConfere
  BY <1>1 DEF IInv, IInvAssinatura, IInvSessoes, ContaConfere, ContratoConfere
<1> QED  BY <1>2, Invariante, PTL

\* A request that read a session before it was ended does not bring it back
\* (touch_session, rotate_session_tokens, switch_tenant).
LEMMA RevogadaPasso ==
    ASSUME IInv, [Next]_vars, NEW s \in Sessoes, sessao[s].st = "revogada"
    PROVE  sessao'[s].st = "revogada"
<1> USE DEF IInv, IInvSessoes, TipoSessoes
<1>1. CASE UNCHANGED sessao
  BY <1>1
<1>2. ASSUME NEW r \in Chamadas, AbrirSessao(r) PROVE sessao'[s].st = "revogada"
  BY <1>2 DEF AbrirSessao, NovaSessao
<1>3. ASSUME NEW r \in Chamadas, Renovar(r) \/ Tocar(r) \/ Revogar(r) PROVE sessao'[s].st = "revogada"
  BY <1>3 DEF Renovar, Tocar, Revogar, LinhaSessao
<1>4. ASSUME NEW r \in Chamadas, Confirmar(r) PROVE sessao'[s].st = "revogada"
  BY <1>4 DEF Confirmar, LinhaSessao
<1>5. ASSUME NEW r \in Chamadas, Trocar(r) PROVE sessao'[s].st = "revogada"
  BY <1>5 DEF Trocar, NovaSessao, LinhaSessao
<1>6. ASSUME NEW v \in Sessoes, NEW uso \in {"parada", "vencida"}, Parar(v, uso)
      PROVE  sessao'[s].st = "revogada"
  BY <1>6 DEF Parar, LinhaSessao
<1> QED
  BY <1>1, <1>2, <1>3, <1>4, <1>5, <1>6
     DEF Next, vars, varsSessoes, NextSessoes, LerLogin, LerRenovacao, LerUso, LerRevogacao,
         LerUsuario, CriarUsuario, LerTroca, RegistrarFalha, Cortar

THEOREM RevogadaSempreFica == Spec => RevogadaFica
<1>1. IInv /\ [Next]_vars => [\A s \in Sessoes : sessao[s].st = "revogada" => sessao'[s].st = "revogada"]_vars
  BY RevogadaPasso
<1> QED  BY <1>1, Invariante, PTL DEF Spec, RevogadaFica
=============================================================================

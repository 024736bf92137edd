--------------------------- MODULE MCContaTenant ---------------------------
(***************************************************************************)
(* Instance of SessoesUsuario for TLC.  A behaviour starts in one of two   *)
(* areas: contracts and payments, with any three events and no users, or   *)
(* users and sessions, with the events done and the tenants there.         *)
(***************************************************************************)
EXTENDS SessoesUsuario, TLC

CONSTANTS t1, t2, t3, u1, u2, u3, s1

InitPagamentos ==
    /\ InitAssinatura
    /\ \A e \in Eventos : evento[e].tipo = "atrasado" \/ evento[e].t = t1
    /\ \A e \in Eventos : evento[e].tipo # "atrasado" \/ evento[e].t = t2
    /\ usuario = [u \in Usuarios |-> SemUsuario]
    /\ sessao = [s \in Sessoes |-> SemSessao]
    /\ corte = [u \in Usuarios |-> 0]
    /\ rq = [r \in Chamadas |-> SemChamada]
    /\ ops = MaxOperacoes

\* A user of the tenant t1 and a manager of the platform, one of them with a
\* session, and a place for a support user.
InitContas ==
    /\ contrato = [k \in Contratos |-> [st |-> "pendente", tenant |-> Nada]]
    /\ tenant = [t \in Tenants |->
          CASE t = t1 -> [st |-> "ativo", slug |-> "pedido"]
            [] t = t2 -> [st |-> "inadimplente", slug |-> CHOOSE k \in Contratos : TRUE]
            [] OTHER -> SemTenant]
    /\ evento = [e \in Eventos |-> [tipo |-> "atrasado", k |-> CHOOSE k \in Contratos : TRUE,
                                    t |-> t1, feito |-> "sim"]]
    /\ efeitos = [e \in Eventos |-> 1]
    /\ criador = [t \in Tenants |-> Nada]
    /\ sobrepostos = {}
    /\ pedido = [r \in Pedidos |-> SemPedido]
    /\ erros = 0
    /\ usuario = [u \in Usuarios |->
          IF u = u3 THEN SemUsuario
          ELSE [SemUsuario EXCEPT !.st = "ativo", !.tenant = t1, !.mfa = "sim",
                                  !.falhas = LimiteFalhas - 1]]
    /\ \E u \in {u1, u2}, o \in Origens :
          sessao = [s \in Sessoes |->
              IF s = s1 THEN [SemSessao EXCEPT !.st = "viva", !.u = u, !.origem = o]
              ELSE SemSessao]
    /\ corte = [u \in Usuarios |-> 0]
    /\ rq = [r \in Chamadas |-> SemChamada]
    /\ ops = 0

InitMC == InitPagamentos \/ InitContas

\* The managers leave the tenants alone while people come and go.
UmaArea == (\E u \in Usuarios : usuario[u].st # "livre") => UNCHANGED pedido

SpecMC == InitMC /\ [][Next]_vars

SpecMCJusta ==
    /\ SpecMC
    /\ \A r \in Pedidos : WF_vars(Continuar(r) /\ UNCHANGED varsSessoes)
    /\ \A e \in Eventos : SF_vars((\E r \in Pedidos : Reclamar(r, e)) /\ UNCHANGED varsSessoes)
=============================================================================

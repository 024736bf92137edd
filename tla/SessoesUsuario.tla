--------------------------- MODULE SessoesUsuario ---------------------------
(***************************************************************************)
(* Users and their sessions (auth/), on top of the tenants whose status    *)
(* lets their people in.                                                   *)
(*                                                                         *)
(* A handler reads, decides and commits later.  Its UPDATEs name only the  *)
(* columns whose value it changed, so that two handlers of one row do not  *)
(* undo each other's other columns.  Handlers that change a user and end   *)
(* its sessions hold the user's row from the UPDATE to the commit.         *)
(***************************************************************************)
EXTENDS AssinaturaTenant

CONSTANTS
    Usuarios,       \* ids of auth.usuario (bound)
    Plataforma,     \* users with the profile gestor_saas
    Sessoes,        \* ids of auth.sessao_usuario (bound)
    Chamadas,       \* requests in progress at once (bound)
    LimiteFalhas,   \* failed logins that block a user (5 in the code)
    MaxOperacoes    \* requests started in a behaviour (bound)

ASSUME PlataformaUsuarios == Plataforma \subseteq Usuarios
ASSUME NadaForaDaConta == Nada \notin Usuarios \cup Sessoes
ASSUME LimitesNaturais == LimiteFalhas \in Nat \ {0} /\ MaxOperacoes \in Nat

VARIABLES
    usuario,       \* user -> row
    sessao,        \* session -> row
    corte,         \* history: user -> how often its sessions were ended
    rq,            \* requests in progress
    ops            \* requests started so far

varsSessoes == <<usuario, sessao, corte, rq, ops>>
vars == <<varsAssinatura, varsSessoes>>

SemUsuario == [st |-> "livre", tenant |-> Nada, raiz |-> Nada, excluido |-> "nao",
               senha |-> 0, falhas |-> 0, mfa |-> "nao"]
SemSessao == [st |-> "livre", u |-> Nada, chave |-> 0, origem |-> "web", uso |-> "recente",
              corte |-> 0, tardia |-> "nao"]
SemChamada == [passo |-> "livre", u |-> Nada, s |-> Nada, t |-> Nada, tipo |-> "nenhum",
               st |-> "livre", falhas |-> 0, chave |-> 0, corte |-> 0, origem |-> "web",
               alvos |-> {}]

TiposCorte == {"trocarSenha", "redefinirSenha", "inativar", "excluir", "ligarMfa", "desligarMfa"}
TiposUsuario == TiposCorte \cup {"reativar", "prepararMfa"}
StatusUsuario == {"ativo", "inativo", "bloqueado"}
Origens == {"web", "pwa_lider"}

LinhaUsuario == [st : StatusUsuario \cup {"livre"}, tenant : Tenants \cup {Nada},
                 raiz : Usuarios \cup {Nada}, excluido : {"nao", "sim"},
                 senha : Nat, falhas : Nat, mfa : {"nao", "pendente", "sim"}]
LinhaSessao == [st : {"livre", "viva", "revogada"}, u : Usuarios \cup {Nada}, chave : Nat,
                origem : Origens, uso : {"recente", "parada", "vencida"}, corte : Nat,
                tardia : {"nao", "sim"}]
PassosChamada == {"livre", "falhar", "abrir", "renovar", "revogar", "tocar", "cortar",
                  "confirmar", "trocar"}
Chamada == [passo : PassosChamada, u : Usuarios \cup {Nada}, s : Sessoes \cup {Nada},
            t : Tenants \cup {Nada}, tipo : TiposUsuario \cup {"nenhum"},
            st : StatusUsuario \cup {"livre"}, falhas : Nat, chave : Nat, corte : Nat,
            origem : Origens, alvos : SUBSET Sessoes]

TipoSessoes ==
    /\ usuario \in [Usuarios -> LinhaUsuario]
    /\ sessao \in [Sessoes -> LinhaSessao]
    /\ corte \in [Usuarios -> Nat]
    /\ rq \in [Chamadas -> Chamada]
    /\ ops \in 0 .. MaxOperacoes

TypeOK == TipoAssinatura /\ TipoSessoes

InitSessoes ==
    /\ usuario = [u \in Usuarios |-> SemUsuario]
    /\ sessao = [s \in Sessoes |-> SemSessao]
    /\ corte = [u \in Usuarios |-> 0]
    /\ rq = [r \in Chamadas |-> SemChamada]
    /\ ops = 0

(***************************************************************************)
(* What get_current_user and refresh ask of a session.                     *)
(***************************************************************************)
Existe(u) == usuario[u].st # "livre" /\ usuario[u].excluido = "nao"
Gestor(u) == u \in Plataforma \/ usuario[u].raiz # Nada
Entra(u) == Liberado(usuario[u].tenant) \/ Gestor(u)
Viva(s) == sessao[s].st = "viva" /\ sessao[s].uso # "vencida"
DeAtivo(s) == Viva(s) /\ Existe(sessao[s].u) /\ usuario[sessao[s].u].st = "ativo"
Parada(s) == sessao[s].uso = "parada" /\ sessao[s].origem # "pwa_lider"
Autenticada(s) == DeAtivo(s) /\ ~Parada(s) /\ Entra(sessao[s].u)

Chamar(r, c) ==
    /\ rq[r].passo = "livre"
    /\ ops < MaxOperacoes
    /\ ops' = ops + 1
    /\ rq' = [rq EXCEPT ![r] = c]
Responder(r) == rq' = [rq EXCEPT ![r] = SemChamada] /\ UNCHANGED ops

\* The row of u is held by a handler that changed it and has not committed.
Travado(u) == \E r \in Chamadas : rq[r].passo = "confirmar" /\ rq[r].u = u

(***************************************************************************)
(* Login.                                                                  *)
(***************************************************************************)
\* login up to the password: support users do not log in.
LerLogin(r, u, certa, origem) ==
    /\ Existe(u) /\ usuario[u].raiz = Nada
    /\ Liberado(usuario[u].tenant)
    /\ certa = "sim" => usuario[u].st = "ativo"
    /\ Chamar(r, [SemChamada EXCEPT !.passo = IF certa = "sim" THEN "abrir" ELSE "falhar",
                                    !.u = u, !.st = usuario[u].st, !.falhas = usuario[u].falhas,
                                    !.corte = corte[u], !.origem = origem])
    /\ UNCHANGED <<usuario, sessao, corte>>

\* register_login_failure, from the count it read.
RegistrarFalha(r) ==
    LET u == rq[r].u
        n == rq[r].falhas + 1
    IN /\ rq[r].passo = "falhar"
       /\ ~Travado(u)
       /\ usuario' = [usuario EXCEPT ![u].falhas = n,
                                     ![u].st = IF n >= LimiteFalhas /\ rq[r].st # "bloqueado"
                                               THEN "bloqueado" ELSE @]
       /\ Responder(r)
       /\ UNCHANGED <<sessao, corte>>

\* A session opened on a user that was read before its sessions were ended.
Tardia(u, lido) == lido # corte[u] \/ Travado(u)

NovaSessao(s, u, origem, lido) ==
    [sessao EXCEPT ![s] = [SemSessao EXCEPT !.st = "viva", !.u = u, !.origem = origem,
                                            !.corte = corte[u],
                                            !.tardia = IF Tardia(u, lido) THEN "sim" ELSE "nao"]]

\* The session and register_login_success, in one commit.
AbrirSessao(r) ==
    LET u == rq[r].u IN
    /\ rq[r].passo = "abrir"
    /\ ~Travado(u)
    /\ \E s \in Sessoes : /\ sessao[s].st = "livre"
                          /\ sessao' = NovaSessao(s, u, rq[r].origem, rq[r].corte)
    /\ usuario' = [usuario EXCEPT ![u].falhas = IF rq[r].falhas = 0 THEN @ ELSE 0]
    /\ Responder(r)
    /\ UNCHANGED corte

(***************************************************************************)
(* Refresh, use and end of a session.                                      *)
(***************************************************************************)
LerRenovacao(r, s) ==
    /\ DeAtivo(s)
    /\ Parada(s) \/ Entra(sessao[s].u)
    /\ Chamar(r, [SemChamada EXCEPT !.passo = IF Parada(s) THEN "revogar" ELSE "renovar",
                                    !.s = s, !.chave = sessao[s].chave])
    /\ UNCHANGED <<usuario, sessao, corte>>

\* rotate_session_tokens and touch_session: the older tokens stop working.
Renovar(r) ==
    /\ rq[r].passo = "renovar"
    /\ sessao' = [sessao EXCEPT ![rq[r].s].chave = rq[r].chave + 1, ![rq[r].s].uso = "recente"]
    /\ Responder(r)
    /\ UNCHANGED <<usuario, corte>>

\* get_current_user: an idle session is ended, another one touched.
LerUso(r, s) ==
    /\ DeAtivo(s)
    /\ Chamar(r, [SemChamada EXCEPT !.passo = IF Parada(s) THEN "revogar" ELSE "tocar", !.s = s])
    /\ UNCHANGED <<usuario, sessao, corte>>

\* Mutant of Tocar: touch_session writes the row as it was read.
TocarLinhaLida(r) ==
    /\ rq[r].passo = "tocar"
    /\ sessao' = [sessao EXCEPT ![rq[r].s].uso = "recente", ![rq[r].s].st = "viva"]
    /\ Responder(r)
    /\ UNCHANGED <<usuario, corte>>

Tocar(r) ==
    /\ rq[r].passo = "tocar"
    /\ sessao' = [sessao EXCEPT ![rq[r].s].uso = "recente"]
    /\ Responder(r)
    /\ UNCHANGED <<usuario, corte>>

\* logout, revoke_user_session: s ends the session v of the same user.
LerRevogacao(r, s, v) ==
    /\ Autenticada(s)
    /\ sessao[v].u = sessao[s].u /\ sessao[v].st = "viva"
    /\ Chamar(r, [SemChamada EXCEPT !.passo = "revogar", !.s = v])
    /\ UNCHANGED <<usuario, sessao, corte>>

Revogar(r) ==
    /\ rq[r].passo = "revogar"
    /\ sessao' = [sessao EXCEPT ![rq[r].s].st = "revogada"]
    /\ Responder(r)
    /\ UNCHANGED <<usuario, corte>>

\* Time passes without a request of the session.
Parar(s, uso) ==
    /\ sessao[s].st = "viva"
    /\ <<sessao[s].uso, uso>> \in {<<"recente", "parada">>, <<"parada", "vencida">>}
    /\ sessao' = [sessao EXCEPT ![s].uso = uso]
    /\ UNCHANGED <<usuario, corte, rq, ops>>

(***************************************************************************)
(* Changes of a user.                                                      *)
(***************************************************************************)
\* Requests of the user itself come from a session that is kept.
Proprios == {"trocarSenha", "prepararMfa", "ligarMfa", "desligarMfa"}

Permitido(u, s, tipo) ==
    /\ Existe(u)
    /\ IF tipo \in Proprios THEN s # Nada /\ sessao[s].u = u /\ Autenticada(s) ELSE s = Nada
    /\ tipo = "ligarMfa" => usuario[u].mfa # "nao"
    /\ tipo = "desligarMfa" => usuario[u].mfa = "sim"

LerUsuario(r, u, s, tipo) ==
    /\ Permitido(u, s, tipo)
    /\ Chamar(r, [SemChamada EXCEPT !.passo = "cortar", !.u = u, !.s = s, !.tipo = tipo,
                                    !.st = usuario[u].st, !.falhas = usuario[u].falhas])
    /\ UNCHANGED <<usuario, sessao, corte>>

\* revoke_all_user_sessions, revoke_other_user_sessions: the committed rows
\* that the statement finds.
Alvos(u, s, tipo) ==
    {v \in Sessoes : sessao[v].st = "viva" /\ sessao[v].u = u /\ v # s}

\* The user's row is written and locked, then its sessions.
Cortar(r) ==
    LET c == rq[r] IN
    /\ c.passo = "cortar"
    /\ ~Travado(c.u)
    /\ rq' = [rq EXCEPT ![r].passo = "confirmar",
                        ![r].alvos = IF c.tipo \in TiposCorte THEN Alvos(c.u, c.s, c.tipo) ELSE {}]
    /\ UNCHANGED <<usuario, sessao, corte, ops>>

\* set_password: a blocked user may come in again.
ComSenha(u, lido) ==
    [usuario[u] EXCEPT !.senha = @ + 1, !.falhas = IF lido.falhas = 0 THEN @ ELSE 0,
                       !.st = IF lido.st = "bloqueado" THEN "ativo" ELSE @]

\* update_user writes the status of the payload if it differs from the one read.
ComStatus(u, lido, st) == [usuario[u] EXCEPT !.st = IF lido.st = st THEN @ ELSE st]

Mudado(u, c) ==
    CASE c.tipo \in {"trocarSenha", "redefinirSenha"} -> ComSenha(u, c)
      [] c.tipo = "inativar" -> ComStatus(u, c, "inativo")
      [] c.tipo = "reativar" -> ComStatus(u, c, "ativo")
      [] c.tipo = "excluir" -> [ComStatus(u, c, "inativo") EXCEPT !.excluido = "sim"]
      [] c.tipo = "prepararMfa" -> [usuario[u] EXCEPT !.mfa = "pendente"]
      [] c.tipo = "ligarMfa" -> [usuario[u] EXCEPT !.mfa = "sim"]
      [] c.tipo = "desligarMfa" -> [usuario[u] EXCEPT !.mfa = "nao"]

Confirmar(r) ==
    LET c == rq[r]
        n == corte[c.u] + 1
    IN /\ c.passo = "confirmar"
       /\ usuario' = [usuario EXCEPT ![c.u] = Mudado(c.u, c)]
       /\ IF c.tipo \in TiposCorte
          THEN /\ corte' = [corte EXCEPT ![c.u] = n]
               /\ sessao' = [v \in Sessoes |->
                     IF v \in c.alvos THEN [sessao[v] EXCEPT !.st = "revogada"]
                     ELSE IF v = c.s THEN [sessao[v] EXCEPT !.corte = n] ELSE sessao[v]]
          ELSE UNCHANGED <<corte, sessao>>
       /\ Responder(r)

\* create_user.
CriarUsuario(u, t) ==
    /\ usuario[u].st = "livre"
    /\ ops < MaxOperacoes
    /\ ops' = ops + 1
    /\ usuario' = [usuario EXCEPT ![u] = [SemUsuario EXCEPT !.st = "ativo", !.tenant = t]]
    /\ UNCHANGED <<sessao, corte, rq>>

(***************************************************************************)
(* A manager of the platform goes to another tenant.                       *)
(***************************************************************************)
LerTroca(r, s, t) ==
    /\ Autenticada(s) /\ Gestor(sessao[s].u)
    /\ ~Livre(t)
    /\ Chamar(r, [SemChamada EXCEPT !.passo = "trocar", !.s = s, !.u = sessao[s].u, !.t = t])
    /\ UNCHANGED <<usuario, sessao, corte>>

Raiz(u) == IF usuario[u].raiz = Nada THEN u ELSE usuario[u].raiz
Suporte(x, u, t) == Existe(x) /\ usuario[x].tenant = t /\ Raiz(x) = Raiz(u)

\* switch_tenant ends the session and opens one of the support user, which
\* support_user_for_tenant finds or creates with the password of the source.
Trocar(r) ==
    LET c == rq[r]
        antes == [sessao EXCEPT ![c.s].st = "revogada"]
    IN /\ c.passo = "trocar"
       /\ \E x \in Usuarios, s \in Sessoes :
            /\ sessao[s].st = "livre"
            /\ IF \E y \in Usuarios : Suporte(y, c.u, c.t)
               THEN Suporte(x, c.u, c.t) /\ UNCHANGED usuario
               ELSE /\ usuario[x].st = "livre"
                    /\ usuario' = [usuario EXCEPT ![x] =
                          [SemUsuario EXCEPT !.st = "ativo", !.tenant = c.t, !.raiz = Raiz(c.u),
                                             !.senha = usuario[c.u].senha, !.mfa = usuario[c.u].mfa]]
            /\ sessao' = [antes EXCEPT ![s] = NovaSessao(s, x, sessao[c.s].origem, corte[x])[s]]
       /\ Responder(r)
       /\ UNCHANGED corte

(***************************************************************************)
(* Specification.                                                          *)
(***************************************************************************)
NextSessoes ==
    \/ \E r \in Chamadas, u \in Usuarios, c \in {"sim", "nao"}, o \in Origens : LerLogin(r, u, c, o)
    \/ \E r \in Chamadas, s \in Sessoes : LerRenovacao(r, s) \/ LerUso(r, s)
    \/ \E r \in Chamadas, s, v \in Sessoes : LerRevogacao(r, s, v)
    \/ \E r \in Chamadas, u \in Usuarios, s \in Sessoes \cup {Nada}, k \in TiposUsuario :
          LerUsuario(r, u, s, k)
    \/ \E u \in Usuarios, t \in Tenants : ~Livre(t) /\ CriarUsuario(u, t)
    \/ \E r \in Chamadas, s \in Sessoes, t \in Tenants : LerTroca(r, s, t)
    \/ \E s \in Sessoes, uso \in {"parada", "vencida"} : Parar(s, uso)
    \/ \E r \in Chamadas : \/ RegistrarFalha(r) \/ AbrirSessao(r) \/ Renovar(r) \/ Tocar(r)
                           \/ Revogar(r) \/ Cortar(r) \/ Confirmar(r) \/ Trocar(r)

Init == InitAssinatura /\ InitSessoes

Next ==
    \/ NextAssinatura /\ UNCHANGED varsSessoes
    \/ NextSessoes /\ UNCHANGED varsAssinatura

Spec == Init /\ [][Next]_vars

\* The provider repeats an event until it is answered, and a request goes on
\* to its end.
SpecJusta ==
    /\ Spec
    /\ \A r \in Pedidos : WF_vars(Continuar(r) /\ UNCHANGED varsSessoes)
    /\ \A e \in Eventos : SF_vars((\E r \in Pedidos : Reclamar(r, e)) /\ UNCHANGED varsSessoes)

-----------------------------------------------------------------------------
\* Ending the sessions of a user (a new password, the second factor, blocking,
\* removal) leaves none that was there: what lives after it was kept on
\* purpose, opened since, or by a login or a switch that was under way.
SessaoDepoisDoCorte ==
    \A s \in Sessoes : sessao[s].st = "viva" =>
        sessao[s].tardia = "sim" \/ sessao[s].corte = corte[sessao[s].u]

\* A session that was ended never comes back, whatever refresh or use of it
\* had read it before.
RevogadaFica ==
    [][\A s \in Sessoes : sessao[s].st = "revogada" => sessao'[s].st = "revogada"]_vars

\* CONTAS. What the payments leave, and what ends the sessions of a user.
ContaConfere == ContratoConfere /\ SessaoDepoisDoCorte

\* An event of an existing contract takes effect, whatever fails on the way.
TodoEventoAcontece ==
    \A e \in Eventos : (contrato[evento[e].k].st # "nenhum") ~> (evento[e].feito = "sim")

\* Refuted: sessions opened by a login that was verified with the old password.
SessaoComSenhaAtual ==
    \A s \in Sessoes : sessao[s].st = "viva" => sessao[s].tardia = "nao"

\* Refuted: only as many failed logins as the limit come before the block.
FalhasContadas ==
    [][\A u \in Usuarios, r \in Chamadas :
          (rq[r].passo = "falhar" /\ rq[r].u = u /\ rq'[r].passo = "livre") =>
             usuario'[u].falhas = usuario[u].falhas + 1]_vars
=============================================================================

------------------------ MODULE MesclaPessoasProofs ------------------------
(***************************************************************************)
(* Proofs about MesclaPessoas, for every number of people, leaderships,    *)
(* links, requests and operations.                                         *)
(*                                                                         *)
(* A person is merged once because a merged record stays removed, and it   *)
(* stays removed because only the registration of a new person revives a   *)
(* row: the strengthening says that a registration in progress holds a row *)
(* that nobody else has, and that a merge in progress does not.  An        *)
(* insertion closes no cycle because the people below a leadership are the *)
(* least closed set, before and after it.                                  *)
(*                                                                         *)
(* The second part is about AnunciosCampo, which the same instance checks, *)
(* for every number of plannings, points, materials, keys, edits and       *)
(* requests.  A planning follows its route, or its executions, because     *)
(* whoever holds the route's row is alone: an edit has every planning      *)
(* nobody started in its list, and an execution that is about to commit    *)
(* has computed its rows from those still there.                           *)
(***************************************************************************)
EXTENDS MesclaPessoas, AnunciosCampo, FiniteSetTheorems, TLAPS

\* A registration in progress has its row to itself; a merge has two people.
CadastroReservado ==
    \A r \in Requisicoes : req[r].passo = "cadastrar" =>
        /\ req[r].p \in Pessoas
        /\ pessoa[req[r].p] = "livre"
CadastroSozinho ==
    \A r, s \in Requisicoes :
        (req[r].passo = "cadastrar" /\ req[s].passo = "cadastrar" /\ req[r].p = req[s].p) => r = s
MesclaConhecida ==
    \A r \in Requisicoes : req[r].passo \in PassosMescla =>
        /\ req[r].p \in Pessoas
        /\ req[r].q \in Pessoas
        /\ req[r].p # req[r].q
        /\ pessoa[req[r].q] # "livre"
MescladaExcluida == \A p \in Pessoas : mescla[p] # Nada => pessoa[p] = "excluida"

Reservas == CadastroReservado /\ CadastroSozinho /\ MesclaConhecida

TipoDados ==
    /\ contatos \in [Pessoas -> SUBSET Valores]
    /\ titulo \in [Pessoas -> {"semEleitor", "semTitulo"} \cup Titulos]
    /\ suspeita \in [Pares -> Situacoes]
    /\ mescla \in [Pessoas -> Pessoas \cup {Nada}]
    /\ ficha \in [Requisicoes -> Ficha]

\* Everything but the bound on operations.
Cadastro == TipoHierarquia /\ TipoDados /\ Reservas /\ MescladaExcluida
TipoTarde == tarde \in [Requisicoes -> [Partes -> SUBSET Coisas]]
IInv == Cadastro /\ TipoTarde /\ ops \in 0 .. MaxOperacoes

(***************************************************************************)
(* Requests.                                                               *)
(***************************************************************************)
LEMMA OciosaTipo == Ociosa \in Requisicao
  BY DEF Ociosa, Requisicao, Passos, SemMuda, Mudanca

\* A request that starts: only its own record changes.
LEMMA NovaTipo ==
    ASSUME NEW a \in Passos, NEW p \in Pessoas \cup {Nada}, NEW q \in Pessoas \cup {Nada},
           NEW l \in Liderancas \cup {Nada}, NEW v \in Vinculos \cup {Nada},
           NEW x \in {"sim", "nao"}, NEW y \in {"sim", "nao"}
    PROVE  [passo |-> a, p |-> p, q |-> q, l |-> l, v |-> v,
            quer |-> x, lido |-> y, fresca |-> "sim", muda |-> SemMuda] \in Requisicao
  BY DEF Requisicao, SemMuda, Mudanca

LEMMA EnvelhecerQuadro ==
    ASSUME req \in [Requisicoes -> Requisicao]
    PROVE  /\ Envelhecer(req) \in [Requisicoes -> Requisicao]
           /\ \A s \in Requisicoes : /\ Envelhecer(req)[s].passo = req[s].passo
                                     /\ Envelhecer(req)[s].p = req[s].p
                                     /\ Envelhecer(req)[s].q = req[s].q
                                     /\ Envelhecer(req)[s].muda = req[s].muda
<1>1. ASSUME NEW s \in Requisicoes
      PROVE  /\ Envelhecer(req)[s] \in Requisicao
             /\ Envelhecer(req)[s].passo = req[s].passo
             /\ Envelhecer(req)[s].p = req[s].p
             /\ Envelhecer(req)[s].q = req[s].q
             /\ Envelhecer(req)[s].muda = req[s].muda
  <2>1. req[s] \in Requisicao  OBVIOUS
  <2> QED  BY <2>1 DEF Envelhecer, Requisicao
<1> QED  BY <1>1 DEF Envelhecer

\* What a step does to the requests: it starts some, ends some, ages some.
Conserva ==
    /\ req' \in [Requisicoes -> Requisicao]
    /\ \A s \in Requisicoes :
          \/ req'[s].passo = "ocioso"
          \/ /\ req'[s].passo = req[s].passo
             /\ req'[s].p = req[s].p /\ req'[s].q = req[s].q /\ req'[s].muda = req[s].muda

LEMMA TerminarConserva ==
    ASSUME req \in [Requisicoes -> Requisicao], NEW r \in Requisicoes,
           \/ req' = Terminar(r)
           \/ req' = [Envelhecer(req) EXCEPT ![r] = Ociosa]
    PROVE  Conserva /\ req'[r].passo = "ocioso"
<1>1. Ociosa \in Requisicao /\ Ociosa.passo = "ocioso"  BY OciosaTipo DEF Ociosa
<1>2. CASE req' = Terminar(r)
  BY <1>1, <1>2 DEF Terminar, Conserva
<1>3. CASE req' = [Envelhecer(req) EXCEPT ![r] = Ociosa]
  BY <1>1, <1>3, EnvelhecerQuadro DEF Conserva
<1> QED  BY <1>2, <1>3

LEMMA EnvelhecerConserva ==
    ASSUME req \in [Requisicoes -> Requisicao], req' = Envelhecer(req) \/ req' = req
    PROVE  Conserva
  BY EnvelhecerQuadro DEF Conserva

\* Requests that only end, and people that are not registered anew: the
\* reservations hold.
LEMMA ReservasSeguem ==
    ASSUME Reservas, Conserva,
           \A p \in Pessoas : pessoa'[p] = "livre" <=> pessoa[p] = "livre"
    PROVE  Reservas'
<1>1. CadastroReservado'  BY DEF Conserva, Reservas, CadastroReservado
<1>2. CadastroSozinho'  BY DEF Conserva, Reservas, CadastroSozinho
<1>3. MesclaConhecida'  BY DEF Conserva, Reservas, MesclaConhecida, PassosMescla
<1> QED  BY <1>1, <1>2, <1>3 DEF Reservas

\* Nothing about people, links and merges changes: so do the invariants.
LEMMA SemMescla ==
    ASSUME MescladaExcluida, mescla' = mescla,
           \A p \in Pessoas : pessoa[p] = "excluida" => pessoa'[p] = "excluida"
    PROVE  MescladaExcluida'
  BY DEF MescladaExcluida

(***************************************************************************)
(* The initial state and the steps that start a request.                   *)
(***************************************************************************)
LEMMA InicioIInv == Init => IInv
<1> SUFFICES ASSUME Init PROVE IInv
  OBVIOUS
<1>1. TipoHierarquia /\ TipoDados /\ ops \in 0 .. MaxOperacoes
  <2>1. req \in [Requisicoes -> Requisicao]
    BY OciosaTipo DEF Init, InitHierarquia
  <2>2. vinculo \in [Vinculos -> LinhaVinculo]
    BY DEF Init, InitHierarquia, Criadas, Vivas, SemVinculo, LinhaVinculo
  <2>3. /\ pessoa \in [Pessoas -> {"livre", "viva", "excluida"}]
        /\ lidera \in [Liderancas -> Pessoas \cup {Nada}]
        /\ indicou \in [Pessoas -> Pessoas \cup {Nada, "anonima"}]
    BY DEF Init, InitHierarquia, Vivas
  <2>4. ficha \in [Requisicoes -> Ficha]
    BY DEF Init, SemFicha, Ficha
  <2>5. /\ contatos \in [Pessoas -> SUBSET Valores]
        /\ titulo \in [Pessoas -> {"semEleitor", "semTitulo"} \cup Titulos]
        /\ suspeita \in [Pares -> Situacoes]
        /\ mescla \in [Pessoas -> Pessoas \cup {Nada}]
        /\ ops \in 0 .. MaxOperacoes
    BY OperacoesNaturais DEF Init
  <2> QED  BY <2>1, <2>2, <2>3, <2>4, <2>5 DEF TipoDados, TipoHierarquia
<1>3. Reservas
  <2>1. \A r \in Requisicoes : req[r].passo = "ocioso"
    BY DEF Init, InitHierarquia, Ociosa
  <2> QED  BY <2>1 DEF Reservas, CadastroReservado, CadastroSozinho, MesclaConhecida, PassosMescla
<1>4. MescladaExcluida  BY DEF Init, MescladaExcluida
<1>5. TipoTarde  BY DEF Init, TipoTarde, SemTarde
<1> QED  BY <1>1, <1>3, <1>4, <1>5 DEF IInv, Cadastro

\* A request that starts, other than a registration or a merge.
LEMMA ComecarQuadro ==
    ASSUME req \in [Requisicoes -> Requisicao], NEW r \in Requisicoes, NEW x \in Requisicao,
           x.passo \notin {"cadastrar"} \cup PassosMescla,
           req' = [req EXCEPT ![r] = x],
           Reservas, UNCHANGED pessoa
    PROVE  req' \in [Requisicoes -> Requisicao] /\ Reservas'
<1>1. req' \in [Requisicoes -> Requisicao]  OBVIOUS
<1>2. \A s \in Requisicoes : s # r => req'[s] = req[s]  OBVIOUS
<1>3. req'[r].passo \notin {"cadastrar"} \cup PassosMescla  OBVIOUS
<1>4. CadastroReservado'  BY <1>2, <1>3 DEF Reservas, CadastroReservado
<1>5. CadastroSozinho'  BY <1>2, <1>3 DEF Reservas, CadastroSozinho
<1>6. MesclaConhecida'  BY <1>2, <1>3 DEF Reservas, MesclaConhecida, PassosMescla
<1> QED  BY <1>1, <1>4, <1>5, <1>6 DEF Reservas

\* The four kinds of request that the hierarchy starts.
PedidoNovo(r) == \E x \in Requisicao : /\ x.passo \notin {"cadastrar"} \cup PassosMescla
                                       /\ req' = [req EXCEPT ![r] = x]

LEMMA PedidosHierarquia ==
    ASSUME NEW r \in Requisicoes, TipoHierarquia,
           \/ \E l \in Liderancas, p \in Pessoas, a \in {"sim", "nao"} : LerParaVincular(r, l, p, a)
           \/ \E v \in Vinculos, a \in {"sim", "nao"} : LerStatusVinculo(r, v, a)
           \/ \E p, q \in Pessoas : LerParaIndicar(r, p, q)
           \/ \E p \in Pessoas : LerParaLiderar(r, p)
    PROVE  PedidoNovo(r) /\ UNCHANGED varsHierarquia
<1>1. ASSUME NEW l \in Liderancas, NEW p \in Pessoas, NEW a \in {"sim", "nao"},
             LerParaVincular(r, l, p, a)
      PROVE  PedidoNovo(r)
  <2> DEFINE x == [Ociosa EXCEPT !.passo = "inserir", !.l = l, !.p = p, !.quer = a]
  <2>1. x \in Requisicao /\ x.passo = "inserir"  BY DEF Ociosa, Requisicao, Passos, SemMuda, Mudanca
  <2>2. req' = [req EXCEPT ![r] = x]  BY <1>1 DEF LerParaVincular
  <2> HIDE DEF x
  <2> QED  BY <2>1, <2>2 DEF PedidoNovo, PassosMescla
<1>2. ASSUME NEW v \in Vinculos, NEW a \in {"sim", "nao"}, LerStatusVinculo(r, v, a)
      PROVE  PedidoNovo(r)
  <2> DEFINE x == [Ociosa EXCEPT !.passo = "gravarStatus", !.v = v, !.quer = a,
                                 !.lido = vinculo[v].ativo]
  <2>1. vinculo[v].ativo \in {"sim", "nao"}  BY DEF TipoHierarquia, LinhaVinculo
  <2>2. x \in Requisicao /\ x.passo = "gravarStatus"
    BY <2>1 DEF Ociosa, Requisicao, Passos, SemMuda, Mudanca
  <2>3. req' = [req EXCEPT ![r] = x]  BY <1>2 DEF LerStatusVinculo
  <2> HIDE DEF x
  <2> QED  BY <2>2, <2>3 DEF PedidoNovo, PassosMescla
<1>3. ASSUME NEW p \in Pessoas, NEW q \in Pessoas, LerParaIndicar(r, p, q)
      PROVE  PedidoNovo(r)
  <2> DEFINE x == [Ociosa EXCEPT !.passo = "indicar", !.p = p, !.q = q]
  <2>1. x \in Requisicao /\ x.passo = "indicar"  BY DEF Ociosa, Requisicao, Passos, SemMuda, Mudanca
  <2>2. req' = [req EXCEPT ![r] = x]  BY <1>3 DEF LerParaIndicar
  <2> HIDE DEF x
  <2> QED  BY <2>1, <2>2 DEF PedidoNovo, PassosMescla
<1>4. ASSUME NEW p \in Pessoas, LerParaLiderar(r, p)
      PROVE  PedidoNovo(r)
  <2> DEFINE x == [Ociosa EXCEPT !.passo = "liderar", !.p = p]
  <2>1. x \in Requisicao /\ x.passo = "liderar"  BY DEF Ociosa, Requisicao, Passos, SemMuda, Mudanca
  <2>2. req' = [req EXCEPT ![r] = x]  BY <1>4 DEF LerParaLiderar
  <2> HIDE DEF x
  <2> QED  BY <2>1, <2>2 DEF PedidoNovo, PassosMescla
<1>5. UNCHANGED varsHierarquia
  BY DEF LerParaVincular, LerStatusVinculo, LerParaIndicar, LerParaLiderar
<1> QED  BY <1>1, <1>2, <1>3, <1>4, <1>5

(***************************************************************************)
(* The steps of the hierarchy.                                             *)
(***************************************************************************)
LEMMA ComecarHierarquiaSegue ==
    ASSUME Cadastro, ComecarHierarquia, UNCHANGED <<varsDados, ficha>>
    PROVE  Cadastro'
<1> USE DEF Cadastro
<1>1. TipoDados' /\ mescla' = mescla  BY DEF TipoDados, varsDados
<1>2. ASSUME NEW r \in Requisicoes, PedidoNovo(r), UNCHANGED varsHierarquia
      PROVE  Cadastro'
  <2>1. PICK x \in Requisicao : /\ x.passo \notin {"cadastrar"} \cup PassosMescla
                                /\ req' = [req EXCEPT ![r] = x]
    BY <1>2 DEF PedidoNovo, PassosMescla
  <2>2. req' \in [Requisicoes -> Requisicao] /\ Reservas'
    BY <2>1, <1>2, ComecarQuadro DEF TipoHierarquia, varsHierarquia
  <2>3. TipoHierarquia'  BY <1>2, <2>2 DEF TipoHierarquia, varsHierarquia
  <2>5. MescladaExcluida'  BY <1>1, <1>2, SemMescla DEF varsHierarquia
  <2> QED  BY <1>1, <2>2, <2>3, <2>5
<1>3. ASSUME NEW v \in Vinculos, ExcluirVinculo(v) PROVE Cadastro'
  <2>1. Conserva  BY <1>3, EnvelhecerConserva DEF ExcluirVinculo, TipoHierarquia
  <2>2. Reservas'  BY <1>3, <2>1, ReservasSeguem DEF ExcluirVinculo
  <2>3. SemVinculo \in LinhaVinculo /\ SemVinculo.ativo = "nao"
    BY DEF SemVinculo, LinhaVinculo
  <2>4. TipoHierarquia'
    BY <1>3, <2>1, <2>3 DEF ExcluirVinculo, TipoHierarquia, Conserva
  <2>6. MescladaExcluida'  BY <1>1, <1>3, SemMescla DEF ExcluirVinculo
  <2> QED  BY <1>1, <2>2, <2>4, <2>6
<1>4. ASSUME NEW l \in Liderancas, ExcluirLideranca(l) PROVE Cadastro'
  <2>1. Conserva  BY <1>4, EnvelhecerConserva DEF ExcluirLideranca, TipoHierarquia
  <2>2. Reservas'  BY <1>4, <2>1, ReservasSeguem DEF ExcluirLideranca
  <2>3. SemVinculo \in LinhaVinculo /\ SemVinculo.ativo = "nao"
    BY DEF SemVinculo, LinhaVinculo
  <2>4. TipoHierarquia'
    BY <1>4, <2>1, <2>3 DEF ExcluirLideranca, TipoHierarquia, Conserva
  <2>6. MescladaExcluida'  BY <1>1, <1>4, SemMescla DEF ExcluirLideranca
  <2> QED  BY <1>1, <2>2, <2>4, <2>6
<1>5. ASSUME NEW p \in Pessoas, Desativar(p) PROVE Cadastro'
  <2>1. /\ pessoa' = [pessoa EXCEPT ![p] = "excluida"] /\ pessoa[p] = "viva"
        /\ UNCHANGED <<lidera, vinculo, indicou, req>>
    BY <1>5 DEF Desativar, Vivas
  <2>2. Conserva  BY <2>1, EnvelhecerConserva DEF TipoHierarquia
  <2>3. Reservas'  BY <2>1, <2>2, ReservasSeguem DEF TipoHierarquia
  <2>4. TipoHierarquia'  BY <2>1 DEF TipoHierarquia
  <2>6. MescladaExcluida'  BY <1>1, <2>1, SemMescla DEF TipoHierarquia
  <2> QED  BY <1>1, <2>3, <2>4, <2>6
<1> QED  BY <1>2, <1>3, <1>4, <1>5, PedidosHierarquia DEF ComecarHierarquia

LEMMA GravarHierarquiaSegue ==
    ASSUME Cadastro, NEW r \in Requisicoes, GravarHierarquia(r),
           ficha' = [ficha EXCEPT ![r] = SemFicha], UNCHANGED varsDados
    PROVE  Cadastro'
<1> USE DEF Cadastro
<1>1. TipoDados' /\ mescla' = mescla
  <2>1. SemFicha \in Ficha  BY DEF SemFicha, Ficha
  <2> QED  BY <2>1 DEF TipoDados, varsDados
<1>2. Ociosa \in Requisicao  BY OciosaTipo
<1>3. ASSUME Conserva, UNCHANGED pessoa,
             vinculo' \in [Vinculos -> LinhaVinculo],
             lidera' \in [Liderancas -> Pessoas \cup {Nada}],
             indicou' \in [Pessoas -> Pessoas \cup {Nada, "anonima"}]
      PROVE  Cadastro'
  <2>1. TipoHierarquia'  BY <1>3 DEF TipoHierarquia, Conserva
  <2>3. Reservas'  BY <1>3, ReservasSeguem
  <2>4. MescladaExcluida'  BY <1>1, <1>3, SemMescla
  <2> QED  BY <1>1, <2>1, <2>3, <2>4
<1>4. req[r] \in Requisicao  BY DEF TipoHierarquia
<1>5. CASE InserirVinculo(r)
  <2>1. PICK v \in Vinculos : vinculo' = ComLinha(v, req[r].l, req[r].p, req[r].quer)
    BY <1>5 DEF InserirVinculo
  <2>2. vinculo' \in [Vinculos -> LinhaVinculo]
    BY <1>4, <2>1 DEF ComLinha, LinhaVinculo, Requisicao, TipoHierarquia
  <2>3. Conserva  BY <1>5, TerminarConserva DEF InserirVinculo, TipoHierarquia
  <2> QED  BY <1>3, <1>5, <2>1, <2>2, <2>3 DEF InserirVinculo, TipoHierarquia
<1>6. CASE GravarStatusVinculo(r)
  <2>1. /\ vinculo' = IF req[r].quer = req[r].lido THEN vinculo
                      ELSE [vinculo EXCEPT ![req[r].v].ativo = req[r].quer]
        /\ req' = [(IF vinculo' = vinculo THEN req ELSE Envelhecer(req)) EXCEPT ![r] = Ociosa]
        /\ UNCHANGED <<pessoa, lidera, indicou>>
    BY <1>6 DEF GravarStatusVinculo
  <2>2. vinculo' \in [Vinculos -> LinhaVinculo]
    <3>1. ASSUME NEW x \in Vinculos
          PROVE  [vinculo[x] EXCEPT !.ativo = req[r].quer] \in LinhaVinculo
      <4>1. req[r].quer \in {"sim", "nao"}  BY <1>4 DEF Requisicao
      <4>2. vinculo[x] \in LinhaVinculo  BY DEF TipoHierarquia
      <4> QED  BY <4>1, <4>2 DEF LinhaVinculo
    <3> QED  BY <2>1, <3>1 DEF TipoHierarquia
  <2>3. Conserva  BY <2>1, TerminarConserva DEF Terminar, TipoHierarquia
  <2> QED  BY <1>3, <2>1, <2>2, <2>3 DEF TipoHierarquia
<1>7. CASE Indicar(r)
  <2>1. indicou' \in [Pessoas -> Pessoas \cup {Nada, "anonima"}]
    BY <1>4, <1>7 DEF Indicar, TipoHierarquia, Requisicao
  <2>2. Conserva  BY <1>7, TerminarConserva DEF Indicar, TipoHierarquia
  <2> QED  BY <1>3, <1>7, <2>1, <2>2 DEF Indicar, TipoHierarquia
<1>8. CASE Recusar(r)
  <2>1. Conserva  BY <1>8, TerminarConserva DEF Recusar, TipoHierarquia
  <2> QED  BY <1>3, <1>8, <2>1 DEF Recusar, TipoHierarquia, varsHierarquia
<1>9. ASSUME NEW l \in Liderancas, DefinirLideranca(r, l) PROVE Cadastro'
  <2>1. Conserva  BY <1>9, TerminarConserva DEF DefinirLideranca, TipoHierarquia
  <2>2. lidera' \in [Liderancas -> Pessoas \cup {Nada}]
    BY <1>4, <1>9 DEF DefinirLideranca, TipoHierarquia, Requisicao
  <2> QED  BY <1>3, <1>9, <2>1, <2>2 DEF DefinirLideranca, TipoHierarquia
<1> QED  BY <1>5, <1>6, <1>7, <1>8, <1>9 DEF GravarHierarquia

(***************************************************************************)
(* The steps that register data.                                           *)
(***************************************************************************)
\* Requests of this module that start.
LEMMA PedidosDados ==
    ASSUME NEW p \in Pessoas, NEW l \in Liderancas \cup {Nada}, NEW q \in Pessoas \cup {Nada}
    PROVE  /\ [Ociosa EXCEPT !.passo = "cadastrar", !.p = p, !.l = l, !.q = q] \in Requisicao
           /\ [Ociosa EXCEPT !.passo = "contatar", !.p = p] \in Requisicao
           /\ [Ociosa EXCEPT !.passo = "contatos", !.p = p, !.q = q] \in Requisicao
<1>1. [Ociosa EXCEPT !.passo = "cadastrar", !.p = p, !.l = l, !.q = q] \in Requisicao
  BY DEF Ociosa, Requisicao, Passos, SemMuda, Mudanca
<1>2. [Ociosa EXCEPT !.passo = "contatar", !.p = p] \in Requisicao
  BY DEF Ociosa, Requisicao, Passos, SemMuda, Mudanca
<1>3. [Ociosa EXCEPT !.passo = "contatos", !.p = p, !.q = q] \in Requisicao
  BY DEF Ociosa, Requisicao, Passos, PassosMescla, SemMuda, Mudanca
<1> QED  BY <1>1, <1>2, <1>3

LEMMA LerCadastroSegue ==
    ASSUME Cadastro, NEW r \in Requisicoes, NEW p \in Pessoas, NEW S \in SUBSET Valores,
           NEW l \in Liderancas \cup {Nada}, NEW q \in Pessoas \cup {Nada},
           NEW t \in {"semEleitor", "semTitulo"} \cup Titulos, LerCadastro(r, p, l, q, S, t)
    PROVE  Cadastro'
<1> USE DEF Cadastro
<1> DEFINE x == [Ociosa EXCEPT !.passo = "cadastrar", !.p = p, !.l = l, !.q = q]
<1>1. x \in Requisicao  BY PedidosDados
<1>2. x.passo = "cadastrar" /\ x.p = p  BY DEF Ociosa
<1>3. /\ pessoa[p] = "livre"
      /\ \A s \in Requisicoes : req[s].passo = "cadastrar" => req[s].p # p
      /\ req' = [req EXCEPT ![r] = x]
      /\ ficha' = [ficha EXCEPT ![r] = [valores |-> S, titulo |-> t, vistos |-> Candidatos(p, S)]]
      /\ UNCHANGED <<varsHierarquia, varsDados>>
  BY DEF LerCadastro
<1> HIDE DEF x
<1>4. /\ req' \in [Requisicoes -> Requisicao]
      /\ req'[r] = x
      /\ \A s \in Requisicoes : s # r => req'[s] = req[s]
  BY <1>1, <1>3 DEF TipoHierarquia
<1>5. TipoHierarquia'  BY <1>3, <1>4 DEF TipoHierarquia, varsHierarquia
<1>6. TipoDados'
  <2>1. [valores |-> S, titulo |-> t, vistos |-> Candidatos(p, S)] \in Ficha
    BY DEF Ficha, Candidatos
  <2> QED  BY <1>3, <2>1 DEF TipoDados, varsDados
<1>8. Reservas'
  <2>1. pessoa' = pessoa  BY <1>3 DEF varsHierarquia
  <2>2. CadastroReservado'
    BY <1>2, <1>3, <1>4, <2>1 DEF Reservas, CadastroReservado
  <2>3. CadastroSozinho'  BY <1>2, <1>3, <1>4 DEF Reservas, CadastroSozinho
  <2>4. MesclaConhecida'  BY <1>2, <1>4, <2>1 DEF Reservas, MesclaConhecida, PassosMescla
  <2> QED  BY <2>2, <2>3, <2>4 DEF Reservas
<1>9. MescladaExcluida'  BY <1>3, SemMescla DEF varsHierarquia, varsDados
<1> QED  BY <1>5, <1>6, <1>8, <1>9

LEMMA LerContatoSegue ==
    ASSUME Cadastro, NEW r \in Requisicoes, NEW p \in Pessoas, NEW c \in Valores,
           LerContato(r, p, c)
    PROVE  Cadastro'
<1> USE DEF Cadastro
<1> DEFINE x == [Ociosa EXCEPT !.passo = "contatar", !.p = p]
           f == [SemFicha EXCEPT !.valores = {c}, !.vistos = Candidatos(p, {c})]
<1>1. x \in Requisicao  BY PedidosDados
<1>2. x.passo = "contatar"  BY DEF Ociosa
<1>3. f \in Ficha  BY DEF SemFicha, Ficha, Candidatos
<1>4. /\ req' = [req EXCEPT ![r] = x]
      /\ ficha' = [ficha EXCEPT ![r] = f]
      /\ UNCHANGED <<varsHierarquia, varsDados>>
  BY DEF LerContato
<1> HIDE DEF x, f
<1>5. req' \in [Requisicoes -> Requisicao] /\ Reservas'
  BY <1>1, <1>2, <1>4, ComecarQuadro DEF TipoHierarquia, varsHierarquia, PassosMescla
<1>6. TipoHierarquia'  BY <1>4, <1>5 DEF TipoHierarquia, varsHierarquia
<1>7. TipoDados'  BY <1>3, <1>4 DEF TipoDados, varsDados
<1>9. MescladaExcluida'  BY <1>4, SemMescla DEF varsHierarquia, varsDados
<1> QED  BY <1>5, <1>6, <1>7, <1>9

LEMMA LerMesclaSegue ==
    ASSUME Cadastro, NEW r \in Requisicoes, NEW p \in Pessoas, NEW s \in Pessoas,
           LerMescla(r, p, s)
    PROVE  Cadastro'
<1> USE DEF Cadastro
<1> DEFINE x == [Ociosa EXCEPT !.passo = "contatos", !.p = p, !.q = s]
<1>1. x \in Requisicao  BY PedidosDados
<1>2. x.passo = "contatos" /\ x.p = p /\ x.q = s  BY DEF Ociosa
<1>3. /\ pessoa[s] = "viva"
      /\ p # s
      /\ req' = [req EXCEPT ![r] = x]
      /\ UNCHANGED <<varsHierarquia, varsDados, ficha>>
  BY DEF LerMescla, Vivas
<1> HIDE DEF x
<1>4. /\ req' \in [Requisicoes -> Requisicao]
      /\ req'[r] = x
      /\ \A w \in Requisicoes : w # r => req'[w] = req[w]
  BY <1>1, <1>3 DEF TipoHierarquia
<1>5. TipoHierarquia'  BY <1>3, <1>4 DEF TipoHierarquia, varsHierarquia
<1>6. TipoDados'  BY <1>3 DEF TipoDados, varsDados
<1>8. Reservas'
  <2>1. pessoa' = pessoa  BY <1>3 DEF varsHierarquia
  <2>2. CadastroReservado'  BY <1>2, <1>4, <2>1 DEF Reservas, CadastroReservado
  <2>3. CadastroSozinho'  BY <1>2, <1>4 DEF Reservas, CadastroSozinho
  <2>4. MesclaConhecida'  BY <1>2, <1>3, <1>4, <2>1 DEF Reservas, MesclaConhecida, PassosMescla
  <2> QED  BY <2>2, <2>3, <2>4 DEF Reservas
<1>9. MescladaExcluida'  BY <1>3, SemMescla DEF varsHierarquia, varsDados
<1> QED  BY <1>5, <1>6, <1>8, <1>9

\* Voters and decisions about suspicions touch no person and no request.
LEMMA DadosSegue ==
    ASSUME Cadastro,
           \/ \E p \in Pessoas, t \in {"semTitulo"} \cup Titulos : DefinirEleitor(p, t)
           \/ \E s \in Pares, st \in {"pendente", "confirmada", "descartada"} : Resolver(s, st)
    PROVE  Cadastro'
<1> USE DEF Cadastro
<1>1. UNCHANGED <<varsHierarquia, req, contatos, mescla, ficha>>
  BY DEF DefinirEleitor, Resolver
<1>2. TipoHierarquia'  BY <1>1 DEF TipoHierarquia, varsHierarquia
<1>3. TipoDados'  BY <1>1 DEF TipoDados, DefinirEleitor, Resolver, Situacoes
<1>5. Reservas'
  <2>1. Conserva  BY <1>1, EnvelhecerConserva DEF TipoHierarquia
  <2> QED  BY <1>1, <2>1, ReservasSeguem DEF varsHierarquia
<1>6. MescladaExcluida'  BY <1>1, SemMescla DEF varsHierarquia
<1> QED  BY <1>2, <1>3, <1>5, <1>6

LEMMA SuspeitarTipo ==
    ASSUME TipoDados, NEW p \in Pessoas \cup {Nada}, NEW C
    PROVE  Suspeitar(p, C) \in [Pares -> Situacoes]
  BY DEF Suspeitar, TipoDados, Situacoes

LEMMA AdicionarContatoSegue ==
    ASSUME Cadastro, NEW r \in Requisicoes, AdicionarContato(r)
    PROVE  Cadastro'
<1> USE DEF Cadastro
<1>1. req[r] \in Requisicao /\ ficha[r] \in Ficha  BY DEF TipoHierarquia, TipoDados
<1>2. req[r].p \in Pessoas \cup {Nada} /\ ficha[r].valores \subseteq Valores
  BY <1>1 DEF Requisicao, Ficha
<1>3. /\ contatos' = [contatos EXCEPT ![req[r].p] = @ \cup ficha[r].valores]
      /\ suspeita' = Suspeitar(req[r].p, ficha[r].vistos)
      /\ req' = Terminar(r)
      /\ ficha' = [ficha EXCEPT ![r] = SemFicha]
      /\ UNCHANGED <<varsHierarquia, titulo, mescla>>
  BY DEF AdicionarContato
<1>4. Conserva  BY <1>3, TerminarConserva DEF TipoHierarquia
<1>5. TipoHierarquia'  BY <1>3, <1>4 DEF TipoHierarquia, Conserva, varsHierarquia
<1>6. TipoDados'
  <2>1. SemFicha \in Ficha  BY DEF SemFicha, Ficha
  <2>2. suspeita' \in [Pares -> Situacoes]  BY <1>2, <1>3, SuspeitarTipo
  <2>3. contatos' \in [Pessoas -> SUBSET Valores]  BY <1>2, <1>3 DEF TipoDados
  <2> QED  BY <1>3, <2>1, <2>2, <2>3 DEF TipoDados
<1>8. Reservas'  BY <1>3, <1>4, ReservasSeguem DEF varsHierarquia
<1>9. MescladaExcluida'  BY <1>3, SemMescla DEF varsHierarquia
<1> QED  BY <1>5, <1>6, <1>8, <1>9

LEMMA CadastrarSegue ==
    ASSUME Cadastro, NEW r \in Requisicoes, Cadastrar(r)
    PROVE  Cadastro'
<1> USE DEF Cadastro
<1> DEFINE p == req[r].p
           l == req[r].l
           f == ficha[r]
<1>1. req[r] \in Requisicao /\ f \in Ficha  BY DEF TipoHierarquia, TipoDados
<1>2. /\ l \in Liderancas \cup {Nada}
      /\ req[r].q \in Pessoas \cup {Nada}
      /\ f.valores \in SUBSET Valores
      /\ f.titulo \in {"semEleitor", "semTitulo"} \cup Titulos
  BY <1>1 DEF Requisicao, Ficha
<1>3. p \in Pessoas /\ pessoa[p] = "livre" /\ req[r].passo = "cadastrar"
  BY DEF Cadastrar, Reservas, CadastroReservado
<1>4. /\ pessoa' = [pessoa EXCEPT ![p] = "viva"]
      /\ indicou' = [indicou EXCEPT ![p] = req[r].q]
      /\ contatos' = [contatos EXCEPT ![p] = f.valores]
      /\ titulo' = [titulo EXCEPT ![p] = f.titulo]
      /\ suspeita' = Suspeitar(p, f.vistos)
      /\ req' = [Envelhecer(req) EXCEPT ![r] = Ociosa]
      /\ ficha' = [ficha EXCEPT ![r] = SemFicha]
      /\ UNCHANGED <<lidera, mescla>>
  BY DEF Cadastrar
<1>5. vinculo' \in [Vinculos -> LinhaVinculo]
  <2>1. CASE l = Nada
    <3>1. vinculo' = vinculo  BY <2>1 DEF Cadastrar
    <3> QED  BY <3>1 DEF TipoHierarquia
  <2>2. CASE l # Nada
    <3>1. PICK v \in Vinculos : vinculo' = ComLinha(v, l, p, "sim")
      BY <2>2 DEF Cadastrar
    <3>2. ComLinha(v, l, p, "sim") \in [Vinculos -> LinhaVinculo]
      BY <1>2, <1>3 DEF ComLinha, LinhaVinculo, TipoHierarquia
    <3> QED  BY <3>1, <3>2
  <2> QED  BY <2>1, <2>2
<1> HIDE DEF p, l, f
<1>6. Conserva /\ req'[r].passo = "ocioso"
  BY <1>4, TerminarConserva DEF TipoHierarquia
<1>7. TipoHierarquia'
  BY <1>2, <1>3, <1>4, <1>5, <1>6 DEF TipoHierarquia, Conserva
<1>8. TipoDados'
  <2>1. SemFicha \in Ficha  BY DEF SemFicha, Ficha
  <2>2. suspeita' \in [Pares -> Situacoes]  BY <1>3, <1>4, SuspeitarTipo
  <2> QED  BY <1>2, <1>3, <1>4, <2>1, <2>2 DEF TipoDados
<1>10. Reservas'
  <2>1. \A s \in Requisicoes \ {r} : req[s].passo = "cadastrar" => req[s].p # p
    BY <1>3 DEF Reservas, CadastroSozinho, p
  <2>2. CadastroReservado'
    <3> SUFFICES ASSUME NEW s \in Requisicoes, req'[s].passo = "cadastrar"
                 PROVE  req'[s].p \in Pessoas /\ pessoa'[req'[s].p] = "livre"
      BY DEF CadastroReservado
    <3>1. s # r /\ req[s].passo = "cadastrar" /\ req'[s].p = req[s].p
      BY <1>6 DEF Conserva
    <3>2. req[s].p \in Pessoas /\ pessoa[req[s].p] = "livre" /\ req[s].p # p
      BY <2>1, <3>1 DEF Reservas, CadastroReservado
    <3> QED  BY <1>4, <3>1, <3>2 DEF TipoHierarquia
  <2>3. CadastroSozinho'  BY <1>6 DEF Conserva, Reservas, CadastroSozinho
  <2>4. MesclaConhecida'
    <3>1. \A x \in Pessoas : pessoa[x] # "livre" => pessoa'[x] # "livre"
      BY <1>4 DEF TipoHierarquia
    <3> QED  BY <1>6, <3>1 DEF Conserva, Reservas, MesclaConhecida, PassosMescla
  <2> QED  BY <2>2, <2>3, <2>4 DEF Reservas
<1>11. MescladaExcluida'
  <2>1. \A x \in Pessoas : pessoa[x] = "excluida" => pessoa'[x] = "excluida"
    BY <1>3, <1>4 DEF TipoHierarquia
  <2> QED  BY <1>4, <2>1, SemMescla
<1> QED  BY <1>7, <1>8, <1>10, <1>11

\* What a merge that writes m has to move of a part.
Levado(k, m) ==
    CASE k = "contatos"   -> m.contatos
      [] k = "eleitor"    -> IF m.titulo \in {"linha", "numero"} THEN Titulos ELSE {}
      [] k = "lideranca"  -> m.lidera
      [] k = "hierarquia" -> m.vinculos
      [] k = "recebidas"  -> m.recebida
      [] k = "feitas"     -> m.feitas
      [] OTHER -> {}

\* A statement writes all of its part that the principal lacks, and nothing of
\* another part.
Declara(r) ==
    \E a \in PassosMescla, m \in Mudanca :
        /\ Seguir(r, a, m)
        /\ req[r].passo \in Partes
        /\ Rodadas(a) = Rodadas(req[r].passo) \cup {req[r].passo}
        /\ \A k \in Partes \ {req[r].passo} : Levado(k, m) = Levado(k, req[r].muda)
        /\ Falta(req[r].passo, req[r].p, req[r].q) \subseteq Levado(req[r].passo, m)

LEMMA DeclaraDe ==
    ASSUME NEW r \in Requisicoes, NEW a \in PassosMescla, NEW m \in Mudanca, NEW b \in Partes,
           req[r].passo = b, Seguir(r, a, m), Rodadas(a) = Rodadas(b) \cup {b},
           \A k \in Partes \ {b} : Levado(k, m) = Levado(k, req[r].muda),
           Falta(b, req[r].p, req[r].q) \subseteq Levado(b, m)
    PROVE  Declara(r)
  BY DEF Declara

LEMMA MesclarDeclara ==
    ASSUME TipoHierarquia, TipoDados, Reservas, NEW r \in Requisicoes, Mesclar(r), ~FecharMescla(r)
    PROVE  Declara(r)
<1> DEFINE p == req[r].p
           s == req[r].q
           n == req[r].muda
<1>1. n \in Mudanca  BY DEF TipoHierarquia, Requisicao
<1>2. p \in Pessoas /\ s \in Pessoas /\ p # s
  BY DEF Mesclar, FecharMescla, MoverContatos, MoverEleitor, MoverLideranca, MoverVinculos,
         MoverRecebida, MoverFeitas, Reservas, MesclaConhecida, PassosMescla
<1>3. CASE MoverContatos(r)
  <2> DEFINE m == [n EXCEPT !.contatos = contatos[s] \ contatos[p]]
  <2>1. m \in Mudanca  BY <1>1, <1>2 DEF Mudanca, TipoDados
  <2>2. req[r].passo = "contatos" /\ Seguir(r, "eleitor", m)  BY <1>3 DEF MoverContatos
  <2>3. \A k \in Partes \ {"contatos"} : Levado(k, m) = Levado(k, n)
    BY <1>1 DEF Levado, Mudanca, Partes, PassosMescla
  <2>4. Falta("contatos", p, s) \subseteq Levado("contatos", m)
    BY <1>1 DEF Falta, Levado, Mudanca
  <2>5. Rodadas("eleitor") = Rodadas("contatos") \cup {"contatos"}  BY DEF Rodadas
  <2> HIDE DEF m
  <2> QED  BY <2>1, <2>2, <2>3, <2>4, <2>5, DeclaraDe DEF Partes, PassosMescla
<1>4. CASE MoverEleitor(r)
  <2> DEFINE m == [n EXCEPT !.titulo = AcaoEleitor(p, s)]
  <2>1. AcaoEleitor(p, s) \in {"nada", "campos", "linha", "numero"}  BY DEF AcaoEleitor
  <2>2. m \in Mudanca  BY <1>1, <2>1 DEF Mudanca
  <2>3. req[r].passo = "eleitor" /\ Seguir(r, "lideranca", m)  BY <1>4 DEF MoverEleitor
  <2>4. \A k \in Partes \ {"eleitor"} : Levado(k, m) = Levado(k, n)
    BY <1>1 DEF Levado, Mudanca, Partes, PassosMescla
  <2>5. Falta("eleitor", p, s) \subseteq Levado("eleitor", m)
    <3>1. m.titulo = AcaoEleitor(p, s)  BY <1>1 DEF Mudanca
    <3>2. CASE TemTitulo(s) /\ ~TemTitulo(p)
      <4>1. AcaoEleitor(p, s) \in {"linha", "numero"}  BY <3>2 DEF AcaoEleitor, TemTitulo
      <4>2. titulo[s] \in Titulos  BY <1>2, <3>2 DEF TemTitulo, TipoDados
      <4> QED  BY <3>1, <3>2, <4>1, <4>2 DEF Falta, Levado
    <3>3. CASE ~(TemTitulo(s) /\ ~TemTitulo(p))  BY <3>3 DEF Falta
    <3> QED  BY <3>2, <3>3
  <2>6. Rodadas("lideranca") = Rodadas("eleitor") \cup {"eleitor"}  BY DEF Rodadas
  <2> HIDE DEF m
  <2> QED  BY <2>2, <2>3, <2>4, <2>5, <2>6, DeclaraDe DEF Partes, PassosMescla
<1>5. CASE MoverLideranca(r)
  <2> DEFINE L == {l \in Liderancas : lidera[l] = s}
             tem == \E l \in Liderancas : lidera[l] = p
  <2>1. PICK m : m = IF tem THEN [n EXCEPT !.desativa = L] ELSE [n EXCEPT !.lidera = L]
    OBVIOUS
  <2>2. m \in Mudanca  BY <1>1, <2>1 DEF Mudanca
  <2>3. req[r].passo = "lideranca" /\ Seguir(r, "hierarquia", m)
    BY <1>5, <2>1 DEF MoverLideranca
  <2>4. \A k \in Partes \ {"lideranca"} : Levado(k, m) = Levado(k, n)
    BY <1>1, <2>1 DEF Levado, Mudanca, Partes, PassosMescla
  <2>5. Falta("lideranca", p, s) \subseteq Levado("lideranca", m)
    <3>1. CASE tem  BY <3>1 DEF Falta
    <3>2. CASE ~tem  BY <1>1, <2>1, <3>2 DEF Falta, Levado, Mudanca
    <3> QED  BY <3>1, <3>2
  <2>6. Rodadas("hierarquia") = Rodadas("lideranca") \cup {"lideranca"}  BY DEF Rodadas
  <2> QED  BY <2>2, <2>3, <2>4, <2>5, <2>6, DeclaraDe DEF Partes, PassosMescla
<1>6. CASE MoverVinculos(r)
  <2>1. PICK D \in SUBSET Repetidos(p, s) :
            Seguir(r, "recebidas", [n EXCEPT !.vinculos = {v \in Vinculos : vinculo[v].sub = s} \ D])
    BY <1>6 DEF MoverVinculos
  <2> DEFINE M == {v \in Vinculos : vinculo[v].sub = s} \ D
             m == [n EXCEPT !.vinculos = M]
  <2>2. m \in Mudanca  BY <1>1 DEF Mudanca
  <2>3. req[r].passo = "hierarquia"  BY <1>6 DEF MoverVinculos
  <2>4. \A k \in Partes \ {"hierarquia"} : Levado(k, m) = Levado(k, n)
    BY <1>1 DEF Levado, Mudanca, Partes, PassosMescla
  <2>5. Falta("hierarquia", p, s) \subseteq Levado("hierarquia", m)
    BY <1>1 DEF Falta, Levado, Mudanca
  <2>6. Rodadas("recebidas") = Rodadas("hierarquia") \cup {"hierarquia"}  BY DEF Rodadas
  <2>7. Seguir(r, "recebidas", m)  BY <2>1
  <2> HIDE DEF m
  <2> QED  BY <2>2, <2>3, <2>4, <2>5, <2>6, <2>7, DeclaraDe DEF Partes, PassosMescla
<1>7. CASE MoverRecebida(r)
  <2>1. PICK m : m = IF indicou[s] = Nada THEN n ELSE [n EXCEPT !.recebida = {s}]
    OBVIOUS
  <2>2. m \in Mudanca  BY <1>1, <1>2, <2>1 DEF Mudanca
  <2>3. req[r].passo = "recebidas" /\ Seguir(r, "feitas", m)
    BY <1>7, <2>1 DEF MoverRecebida
  <2>4. \A k \in Partes \ {"recebidas"} : Levado(k, m) = Levado(k, n)
    BY <1>1, <2>1 DEF Levado, Mudanca, Partes, PassosMescla
  <2>5. Falta("recebidas", p, s) \subseteq Levado("recebidas", m)
    <3>1. CASE indicou[s] = Nada  BY <3>1 DEF Falta
    <3>2. CASE indicou[s] # Nada  BY <1>1, <2>1, <3>2 DEF Falta, Levado, Mudanca
    <3> QED  BY <3>1, <3>2
  <2>6. Rodadas("feitas") = Rodadas("recebidas") \cup {"recebidas"}
    BY DEF Rodadas, Partes, PassosMescla
  <2> QED  BY <2>2, <2>3, <2>4, <2>5, <2>6, DeclaraDe DEF Partes, PassosMescla
<1>8. CASE MoverFeitas(r)
  <2> DEFINE m == [n EXCEPT !.feitas = {q \in Pessoas : indicou[q] = s}]
  <2>1. m \in Mudanca  BY <1>1 DEF Mudanca
  <2>2. req[r].passo = "feitas" /\ Seguir(r, "fechar", m)  BY <1>8 DEF MoverFeitas
  <2>3. \A k \in Partes \ {"feitas"} : Levado(k, m) = Levado(k, n)
    BY <1>1 DEF Levado, Mudanca, Partes, PassosMescla
  <2>4. Falta("feitas", p, s) \subseteq Levado("feitas", m)
    BY <1>1 DEF Falta, Levado, Mudanca
  <2>5. Rodadas("fechar") = Rodadas("feitas") \cup {"feitas"}
    BY DEF Rodadas, Partes, PassosMescla
  <2> HIDE DEF m
  <2> QED  BY <2>1, <2>2, <2>3, <2>4, <2>5, DeclaraDe DEF Partes, PassosMescla
<1> QED  BY <1>3, <1>4, <1>5, <1>6, <1>7, <1>8 DEF Mesclar

LEMMA DeclararSegue ==
    ASSUME Cadastro, NEW r \in Requisicoes, Declara(r)
    PROVE  Cadastro'
<1> USE DEF Cadastro
<1>1. PICK a \in PassosMescla, m \in Mudanca : Seguir(r, a, m) /\ req[r].passo \in Partes
  BY DEF Declara
<1>2. req[r] \in Requisicao  BY DEF TipoHierarquia
<1>3. PICK x : x = [req[r] EXCEPT !.passo = a, !.muda = m]  OBVIOUS
<1>4. x \in Requisicao /\ x.passo = a /\ x.p = req[r].p /\ x.q = req[r].q
  BY <1>2, <1>3 DEF Requisicao, Passos
<1>5. /\ req' = [req EXCEPT ![r] = x]
      /\ UNCHANGED <<varsHierarquia, varsDados, ficha>>
  BY <1>1, <1>3 DEF Seguir
<1>6. /\ req' \in [Requisicoes -> Requisicao]
      /\ req'[r] = x
      /\ \A w \in Requisicoes : w # r => req'[w] = req[w]
  BY <1>4, <1>5 DEF TipoHierarquia
<1>7. TipoHierarquia'  BY <1>5, <1>6 DEF TipoHierarquia, varsHierarquia
<1>8. TipoDados'  BY <1>5 DEF TipoDados, varsDados
<1>9. Reservas'
  <2>1. pessoa' = pessoa  BY <1>5 DEF varsHierarquia
  <2>2. a # "cadastrar"  BY DEF PassosMescla
  <2>3. CadastroReservado'  BY <1>4, <1>6, <2>1, <2>2 DEF Reservas, CadastroReservado
  <2>4. CadastroSozinho'  BY <1>4, <1>6, <2>2 DEF Reservas, CadastroSozinho
  <2>5. MesclaConhecida'
    BY <1>1, <1>4, <1>6, <2>1 DEF Reservas, MesclaConhecida, Partes
  <2> QED  BY <2>3, <2>4, <2>5 DEF Reservas
<1>10. MescladaExcluida'  BY <1>5, SemMescla DEF varsHierarquia, varsDados
<1> QED  BY <1>7, <1>8, <1>9, <1>10

\* What a merge commits has the types of what it reads.
LEMMA MesclaTipos ==
    ASSUME TipoHierarquia, TipoDados, NEW p \in Pessoas, NEW s \in Pessoas, NEW m \in Mudanca
    PROVE  /\ ContatosMovidos(p, s, m) \in [Pessoas -> SUBSET Valores]
           /\ TitulosMovidos(p, s, m) \in [Pessoas -> {"semEleitor", "semTitulo"} \cup Titulos]
           /\ LiderancasMovidas(p, m) \in [Liderancas -> Pessoas \cup {Nada}]
           /\ VinculosMovidos(p, m.vinculos) \in [Vinculos -> LinhaVinculo]
           /\ IndicacoesMovidas(p, s, m) \in [Pessoas -> Pessoas \cup {Nada, "anonima"}]
           /\ SuspeitasFechadas(p, s) \in [Pares -> Situacoes]
<1>1. ContatosMovidos(p, s, m) \in [Pessoas -> SUBSET Valores]
  <2>1. m.contatos \in SUBSET Valores  BY DEF Mudanca
  <2>2. PICK g : g = [contatos EXCEPT ![p] = @ \cup m.contatos]  OBVIOUS
  <2>3. g \in [Pessoas -> SUBSET Valores]  BY <2>1, <2>2 DEF TipoDados
  <2>4. g[s] \ m.contatos \in SUBSET Valores  BY <2>3
  <2>5. ContatosMovidos(p, s, m) = [g EXCEPT ![s] = g[s] \ m.contatos]
    BY <2>2 DEF ContatosMovidos
  <2> QED  BY <2>3, <2>4, <2>5
<1>2. TitulosMovidos(p, s, m) \in [Pessoas -> {"semEleitor", "semTitulo"} \cup Titulos]
  BY DEF TitulosMovidos, TipoDados
<1>3. LiderancasMovidas(p, m) \in [Liderancas -> Pessoas \cup {Nada}]
  BY DEF LiderancasMovidas, TipoHierarquia
<1>4. VinculosMovidos(p, m.vinculos) \in [Vinculos -> LinhaVinculo]
  <2>1. ASSUME NEW v \in Vinculos PROVE [vinculo[v] EXCEPT !.sub = p] \in LinhaVinculo
    <3>1. vinculo[v] \in LinhaVinculo  BY DEF TipoHierarquia
    <3> QED  BY <3>1 DEF LinhaVinculo
  <2> QED  BY <2>1 DEF VinculosMovidos, TipoHierarquia
<1>5. IndicacoesMovidas(p, s, m) \in [Pessoas -> Pessoas \cup {Nada, "anonima"}]
  <2>1. indicou \in [Pessoas -> Pessoas \cup {Nada, "anonima"}]  BY DEF TipoHierarquia
  <2> QED  BY <2>1 DEF IndicacoesMovidas
<1>6. SuspeitasFechadas(p, s) \in [Pares -> Situacoes]
  BY DEF SuspeitasFechadas, TipoDados, Situacoes
<1> QED  BY <1>1, <1>2, <1>3, <1>4, <1>5, <1>6

LEMMA FecharSegue ==
    ASSUME Cadastro, NEW r \in Requisicoes, FecharMescla(r)
    PROVE  Cadastro'
<1> USE DEF Cadastro
<1> DEFINE p == req[r].p
           s == req[r].q
           m == req[r].muda
<1>1. p \in Pessoas /\ s \in Pessoas /\ pessoa[s] # "livre"
  BY DEF FecharMescla, Reservas, MesclaConhecida, PassosMescla
<1>2. m \in Mudanca  BY DEF TipoHierarquia, Requisicao
<1>3. /\ contatos' = ContatosMovidos(p, s, m)
      /\ titulo' = TitulosMovidos(p, s, m)
      /\ lidera' = LiderancasMovidas(p, m)
      /\ vinculo' = VinculosMovidos(p, m.vinculos)
      /\ indicou' = IndicacoesMovidas(p, s, m)
      /\ suspeita' = SuspeitasFechadas(p, s)
      /\ pessoa' = [pessoa EXCEPT ![s] = "excluida"]
      /\ mescla' = [mescla EXCEPT ![s] = p]
      /\ req' = [Envelhecer(req) EXCEPT ![r] = Ociosa]
      /\ UNCHANGED ficha
  BY DEF FecharMescla
<1> HIDE DEF p, s, m
<1>4. Conserva  BY <1>3, TerminarConserva DEF TipoHierarquia
<1>5. TipoHierarquia'
  <2>1. /\ vinculo' \in [Vinculos -> LinhaVinculo]
        /\ lidera' \in [Liderancas -> Pessoas \cup {Nada}]
        /\ indicou' \in [Pessoas -> Pessoas \cup {Nada, "anonima"}]
    BY <1>1, <1>2, <1>3, MesclaTipos
  <2>2. pessoa' \in [Pessoas -> {"livre", "viva", "excluida"}]  BY <1>3 DEF TipoHierarquia
  <2> QED  BY <1>4, <2>1, <2>2 DEF TipoHierarquia, Conserva
<1>6. TipoDados'
  <2>1. /\ contatos' \in [Pessoas -> SUBSET Valores]
        /\ titulo' \in [Pessoas -> {"semEleitor", "semTitulo"} \cup Titulos]
        /\ suspeita' \in [Pares -> Situacoes]
    BY <1>1, <1>2, <1>3, MesclaTipos
  <2>2. mescla' \in [Pessoas -> Pessoas \cup {Nada}]  BY <1>1, <1>3 DEF TipoDados
  <2> QED  BY <1>3, <2>1, <2>2 DEF TipoDados
<1>7. Reservas'
  <2>1. \A x \in Pessoas : pessoa'[x] = "livre" <=> pessoa[x] = "livre"
    BY <1>1, <1>3 DEF TipoHierarquia
  <2> QED  BY <1>4, <2>1, ReservasSeguem
<1>8. MescladaExcluida'
  BY <1>1, <1>3 DEF MescladaExcluida, TipoHierarquia, TipoDados
<1> QED  BY <1>5, <1>6, <1>7, <1>8

\* The history of a merge is of things of the registry.
LEMMA TardeSegue ==
    ASSUME Cadastro, Cadastro', TipoTarde, AnotarTarde,
           \A r \in Requisicoes : req'[r].passo \in PassosMescla /\ req[r].passo \in PassosMescla
              => req'[r].p = req[r].p /\ req'[r].q = req[r].q
    PROVE  TipoTarde'
<1>1. ASSUME NEW r \in Requisicoes, NEW k \in Partes,
             req'[r].passo \in PassosMescla, k \in Rodadas(req[r].passo)
      PROVE  Falta(k, req[r].p, req[r].q)' \in SUBSET Coisas
  <2>1. req[r].passo \in PassosMescla  BY <1>1 DEF Rodadas, PassosMescla
  <2>2. req'[r].p \in Pessoas /\ req'[r].q \in Pessoas
    BY <1>1 DEF Cadastro, Reservas, MesclaConhecida
  <2>3. contatos'[req'[r].q] \subseteq Valores  BY <2>2 DEF Cadastro, TipoDados
  <2>4. TemTitulo(req[r].q)' => titulo'[req'[r].q] \in Titulos
    BY <2>2 DEF Cadastro, TipoDados, TemTitulo
  <2> QED  BY <2>2, <2>3, <2>4 DEF Falta, Coisas
<1> QED  BY <1>1 DEF TipoTarde, AnotarTarde

(***************************************************************************)
(* The theorems.                                                           *)
(***************************************************************************)
\* A merge that a step lets be: it ends, or starts, or is as it was.
Prossegue(r) ==
    \/ req'[r].passo \notin PassosMescla
    \/ req'[r].passo = "contatos" /\ req[r].passo = "ocioso"
    \/ /\ req'[r].passo = req[r].passo
       /\ req'[r].p = req[r].p /\ req'[r].q = req[r].q /\ req'[r].muda = req[r].muda

TodasProsseguem == \A r \in Requisicoes : Prossegue(r)

LEMMA ConservaSegue == ASSUME Conserva PROVE \A r \in Requisicoes : Prossegue(r)
  BY DEF Conserva, Prossegue, PassosMescla

LEMMA InicioSegue ==
    ASSUME req \in [Requisicoes -> Requisicao], NEW r \in Requisicoes, NEW x,
           req' = [req EXCEPT ![r] = x],
           x.passo \notin PassosMescla \/ (x.passo = "contatos" /\ req[r].passo = "ocioso")
    PROVE  \A t \in Requisicoes : Prossegue(t)
  BY DEF Prossegue

LEMMA ComecarMesclas ==
    ASSUME Cadastro, Comecar
    PROVE  TodasProsseguem
<1>1. req \in [Requisicoes -> Requisicao]  BY DEF Cadastro, TipoHierarquia
<1>2. ASSUME NEW r \in Requisicoes, PedidoNovo(r) PROVE TodasProsseguem
  <2>1. PICK x \in Requisicao : /\ x.passo \notin {"cadastrar"} \cup PassosMescla
                                /\ req' = [req EXCEPT ![r] = x]
    BY <1>2 DEF PedidoNovo
  <2> QED  BY <1>1, <2>1, InicioSegue DEF TodasProsseguem
<1>3. ASSUME req' = Envelhecer(req) \/ req' = req PROVE TodasProsseguem
  BY <1>1, <1>3, EnvelhecerConserva, ConservaSegue DEF TodasProsseguem
<1>4. CASE ComecarHierarquia
  <2>1. ASSUME NEW v \in Vinculos, ExcluirVinculo(v) PROVE TodasProsseguem
    BY <1>3, <2>1 DEF ExcluirVinculo
  <2>2. ASSUME NEW l \in Liderancas, ExcluirLideranca(l) PROVE TodasProsseguem
    BY <1>3, <2>2 DEF ExcluirLideranca
  <2>3. ASSUME NEW p \in Pessoas, Desativar(p) PROVE TodasProsseguem
    BY <1>3, <2>3 DEF Desativar
  <2>4. ASSUME NEW r \in Requisicoes,
               \/ \E l \in Liderancas, p \in Pessoas, a \in {"sim", "nao"} : LerParaVincular(r, l, p, a)
               \/ \E v \in Vinculos, a \in {"sim", "nao"} : LerStatusVinculo(r, v, a)
               \/ \E p, q \in Pessoas : LerParaIndicar(r, p, q)
               \/ \E p \in Pessoas : LerParaLiderar(r, p)
        PROVE  TodasProsseguem
    <3>1. TipoHierarquia  BY DEF Cadastro
    <3>2. PedidoNovo(r)  BY <2>4, <3>1, PedidosHierarquia
    <3> QED  BY <1>2, <3>2
  <2> QED  BY <1>4, <2>1, <2>2, <2>3, <2>4, Zenon DEF ComecarHierarquia
<1>5. ASSUME NEW r \in Requisicoes, NEW p \in Pessoas, NEW S \in SUBSET Valores,
             NEW l \in Liderancas \cup {Nada}, NEW q \in Pessoas \cup {Nada},
             NEW t \in {"semEleitor", "semTitulo"} \cup Titulos,
             LerCadastro(r, p, l, q, S, t)
      PROVE  TodasProsseguem
  <2> DEFINE x == [Ociosa EXCEPT !.passo = "cadastrar", !.p = p, !.l = l, !.q = q]
  <2>1. x.passo \notin PassosMescla  BY DEF Ociosa, PassosMescla
  <2>2. req' = [req EXCEPT ![r] = x]  BY <1>5 DEF LerCadastro
  <2> HIDE DEF x
  <2> QED  BY <1>1, <2>1, <2>2, InicioSegue DEF TodasProsseguem
<1>6. ASSUME NEW r \in Requisicoes, NEW p \in Pessoas, NEW c \in Valores, LerContato(r, p, c)
      PROVE  TodasProsseguem
  <2> DEFINE x == [Ociosa EXCEPT !.passo = "contatar", !.p = p]
  <2>1. x.passo \notin PassosMescla  BY DEF Ociosa, PassosMescla
  <2>2. req' = [req EXCEPT ![r] = x]  BY <1>6 DEF LerContato
  <2> HIDE DEF x
  <2> QED  BY <1>1, <2>1, <2>2, InicioSegue DEF TodasProsseguem
<1>7. ASSUME NEW r \in Requisicoes, NEW p \in Pessoas, NEW s \in Pessoas, LerMescla(r, p, s)
      PROVE  TodasProsseguem
  <2> DEFINE x == [Ociosa EXCEPT !.passo = "contatos", !.p = p, !.q = s]
  <2>1. x.passo = "contatos"  BY DEF Ociosa
  <2>2. req' = [req EXCEPT ![r] = x] /\ req[r].passo = "ocioso"  BY <1>7 DEF LerMescla
  <2> HIDE DEF x
  <2> QED  BY <1>1, <2>1, <2>2, InicioSegue DEF TodasProsseguem
<1>8. CASE \/ \E p \in Pessoas, t \in {"semTitulo"} \cup Titulos : DefinirEleitor(p, t)
           \/ \E s \in Pares, st \in {"pendente", "confirmada", "descartada"} : Resolver(s, st)
  <2>1. req' = req  BY <1>8 DEF DefinirEleitor, Resolver
  <2> QED  BY <1>3, <2>1
<1> QED  BY <1>4, <1>5, <1>6, <1>7, <1>8, Zenon DEF Comecar

LEMMA GravarMesclas ==
    ASSUME Cadastro, NEW r \in Requisicoes, Gravar(r), ~Declara(r)
    PROVE  \A t \in Requisicoes : Prossegue(t)
<1>1. req \in [Requisicoes -> Requisicao] /\ TipoHierarquia /\ TipoDados /\ Reservas
  BY DEF Cadastro, TipoHierarquia
<1>2. Mesclar(r) => FecharMescla(r)  BY <1>1, MesclarDeclara
<1>3. req' = Terminar(r) \/ req' = [Envelhecer(req) EXCEPT ![r] = Ociosa]
  <2>1. CASE GravarStatusVinculo(r)  BY <2>1 DEF GravarStatusVinculo, Terminar
  <2>2. CASE ~GravarStatusVinculo(r)
    BY <1>2, <2>2 DEF Gravar, GravarHierarquia, InserirVinculo, Indicar, Recusar,
                      DefinirLideranca, Cadastrar, AdicionarContato, FecharMescla
  <2> QED  BY <2>1, <2>2
<1> QED  BY <1>1, <1>3, TerminarConserva, ConservaSegue

LEMMA PassoCadastro ==
    ASSUME Cadastro, Comecar \/ \E r \in Requisicoes : Gravar(r)
    PROVE  Cadastro'
<1>1. CASE Comecar
  <2>1. CASE ComecarHierarquia /\ UNCHANGED <<varsDados, ficha>>
    BY <2>1, ComecarHierarquiaSegue
  <2>2. ASSUME NEW r \in Requisicoes, NEW p \in Pessoas, NEW S \in SUBSET Valores,
               NEW l \in Liderancas \cup {Nada}, NEW q \in Pessoas \cup {Nada},
               NEW t \in {"semEleitor", "semTitulo"} \cup Titulos,
               LerCadastro(r, p, l, q, S, t)
        PROVE  Cadastro'
    BY <2>2, LerCadastroSegue
  <2>3. ASSUME NEW r \in Requisicoes, NEW p \in Pessoas, NEW c \in Valores,
               LerContato(r, p, c)
        PROVE  Cadastro'
    BY <2>3, LerContatoSegue
  <2>4. CASE \/ \E p \in Pessoas, t \in {"semTitulo"} \cup Titulos : DefinirEleitor(p, t)
             \/ \E s \in Pares, st \in {"pendente", "confirmada", "descartada"} : Resolver(s, st)
    BY <2>4, DadosSegue
  <2>5. ASSUME NEW r \in Requisicoes, NEW p \in Pessoas, NEW s \in Pessoas,
               LerMescla(r, p, s)
        PROVE  Cadastro'
    BY <2>5, LerMesclaSegue
  <2> QED  BY <1>1, <2>1, <2>2, <2>3, <2>4, <2>5 DEF Comecar
<1>2. ASSUME NEW r \in Requisicoes, Gravar(r) PROVE Cadastro'
  <2>1. CASE /\ GravarHierarquia(r)
             /\ ficha' = [ficha EXCEPT ![r] = SemFicha]
             /\ UNCHANGED varsDados
    BY <2>1, GravarHierarquiaSegue
  <2>2. CASE Cadastrar(r)  BY <2>2, CadastrarSegue
  <2>3. CASE AdicionarContato(r)  BY <2>3, AdicionarContatoSegue
  <2>4. CASE Mesclar(r)
    <3>1. CASE FecharMescla(r)  BY <3>1, FecharSegue
    <3>2. CASE ~FecharMescla(r)
      <4>1. Declara(r)  BY <2>4, <3>2, MesclarDeclara DEF Cadastro
      <4> QED  BY <4>1, DeclararSegue
    <3> QED  BY <3>1, <3>2
  <2> QED  BY <1>2, <2>1, <2>2, <2>3, <2>4 DEF Gravar
<1> QED  BY <1>1, <1>2

\* A step, for the merges under way: one of them runs a statement, or all go on.
LEMMA PassoMesclas ==
    ASSUME Cadastro, Next
    PROVE  /\ Cadastro'
           /\ (\A t \in Requisicoes : Prossegue(t)) \/ (\E r \in Requisicoes : Declara(r))
<1>1. CASE Comecar  BY <1>1, ComecarMesclas, PassoCadastro DEF TodasProsseguem
<1>2. ASSUME NEW r \in Requisicoes, Gravar(r)
      PROVE  /\ Cadastro'
             /\ (\A t \in Requisicoes : Prossegue(t)) \/ Declara(r)
  BY <1>2, GravarMesclas, PassoCadastro
<1> QED  BY <1>1, <1>2 DEF Next

LEMMA DeclaraQuadro ==
    ASSUME Cadastro, NEW r \in Requisicoes, NEW a, NEW m, Seguir(r, a, m)
    PROVE  /\ req'[r].passo = a /\ req'[r].p = req[r].p /\ req'[r].q = req[r].q
           /\ req'[r].muda = m
           /\ \A t \in Requisicoes : t # r => req'[t] = req[t]
           /\ UNCHANGED <<varsHierarquia, varsDados>>
<1>1. req[r] \in Requisicao /\ req \in [Requisicoes -> Requisicao]
  BY DEF Cadastro, TipoHierarquia
<1>2. PICK x : x = [req[r] EXCEPT !.passo = a, !.muda = m]  OBVIOUS
<1>3. x.passo = a /\ x.p = req[r].p /\ x.q = req[r].q /\ x.muda = m
  BY <1>1, <1>2 DEF Requisicao
<1>4. req' = [req EXCEPT ![r] = x]  BY <1>2 DEF Seguir
<1> QED  BY <1>1, <1>3, <1>4 DEF Seguir

LEMMA PassoIInv == IInv /\ [Next]_vars => IInv'
<1> SUFFICES ASSUME IInv, [Next]_vars PROVE IInv'
  OBVIOUS
<1>1. Cadastro /\ TipoTarde  BY DEF IInv
<1>2. CASE Next
  <2>1. ops' \in 0 .. MaxOperacoes  BY <1>2, OperacoesNaturais DEF IInv, Next
  <2>2. Cadastro'  BY <1>1, <1>2, PassoMesclas
  <2>3. ASSUME NEW t \in Requisicoes, req'[t].passo \in PassosMescla, req[t].passo \in PassosMescla
        PROVE  req'[t].p = req[t].p /\ req'[t].q = req[t].q
    <3>1. CASE Prossegue(t)  BY <2>3, <3>1 DEF Prossegue, PassosMescla
    <3>2. ASSUME NEW r \in Requisicoes, Declara(r) PROVE req'[t].p = req[t].p /\ req'[t].q = req[t].q
      <4>1. PICK a \in PassosMescla, m \in Mudanca : Seguir(r, a, m)  BY <3>2 DEF Declara
      <4> QED  BY <1>1, <4>1, DeclaraQuadro
    <3> QED  BY <1>1, <1>2, <3>1, <3>2, PassoMesclas
  <2>4. TipoTarde'  BY <1>1, <1>2, <2>2, <2>3, TardeSegue DEF Next
  <2> QED  BY <2>1, <2>2, <2>4 DEF IInv
<1>3. CASE UNCHANGED vars
  <2>1. Conserva
    BY <1>1, <1>3, EnvelhecerConserva DEF vars, Cadastro, TipoHierarquia
  <2>2. Reservas'
    BY <1>1, <1>3, <2>1, ReservasSeguem DEF vars, varsHierarquia, Cadastro
  <2>3. TipoHierarquia' /\ TipoDados' /\ TipoTarde'
    BY <1>1, <1>3 DEF vars, varsHierarquia, varsDados, Cadastro, TipoHierarquia, TipoDados,
                      TipoTarde
  <2>4. MescladaExcluida'
    BY <1>1, <1>3 DEF vars, varsHierarquia, varsDados, Cadastro, MescladaExcluida
  <2> QED  BY <1>3, <2>2, <2>3, <2>4 DEF vars, IInv, Cadastro
<1> QED  BY <1>2, <1>3

LEMMA SempreIInv == Spec => []IInv
  BY InicioIInv, PassoIInv, PTL DEF Spec

\* Every state of the registry is a set of rows of the tables' types.
THEOREM TipoSempre == Spec => []TypeOK
<1>1. IInv => TypeOK  BY DEF IInv, Cadastro, TypeOK, TipoHierarquia, TipoDados, TipoTarde
<1> QED  BY <1>1, SempreIInv, PTL

\* Only the commit of a merge writes what merges leave.
LEMMA SoMesclarMescla ==
    ASSUME Next
    PROVE  mescla' = mescla \/ \E r \in Requisicoes : FecharMescla(r)
<1> SUFFICES ASSUME ~ \E r \in Requisicoes : FecharMescla(r) PROVE mescla' = mescla
  OBVIOUS
<1>1. CASE Comecar
  <2>1. ASSUME ComecarHierarquia /\ UNCHANGED <<varsDados, ficha>> PROVE mescla' = mescla
    BY <2>1 DEF varsDados
  <2>2. ASSUME NEW r \in Requisicoes, NEW a \in Pessoas, NEW S \in SUBSET Valores,
               NEW l \in Liderancas \cup {Nada}, NEW q \in Pessoas \cup {Nada},
               NEW t \in {"semEleitor", "semTitulo"} \cup Titulos,
               LerCadastro(r, a, l, q, S, t)
        PROVE  mescla' = mescla
    BY <2>2 DEF LerCadastro, varsDados
  <2>3. ASSUME NEW r \in Requisicoes, NEW a \in Pessoas, NEW c \in Valores,
               LerContato(r, a, c)
        PROVE  mescla' = mescla
    BY <2>3 DEF LerContato, varsDados
  <2>4. ASSUME NEW a \in Pessoas, NEW t \in {"semTitulo"} \cup Titulos,
               DefinirEleitor(a, t)
        PROVE  mescla' = mescla
    BY <2>4 DEF DefinirEleitor
  <2>5. ASSUME NEW s \in Pares, NEW st \in {"pendente", "confirmada", "descartada"},
               Resolver(s, st)
        PROVE  mescla' = mescla
    BY <2>5 DEF Resolver
  <2>6. ASSUME NEW r \in Requisicoes, NEW a, NEW s, LerMescla(r, a, s)
        PROVE  mescla' = mescla
    BY <2>6 DEF LerMescla, varsDados
  <2> QED  BY <1>1, <2>1, <2>2, <2>3, <2>4, <2>5, <2>6, Zenon DEF Comecar
<1>2. ASSUME NEW r \in Requisicoes, Gravar(r) PROVE mescla' = mescla
  <2>1. CASE Mesclar(r)
    BY <2>1 DEF Mesclar, MoverContatos, MoverEleitor, MoverLideranca, MoverVinculos,
                MoverRecebida, MoverFeitas, Seguir, varsDados
  <2>2. CASE ~Mesclar(r)
    BY <1>2, <2>2 DEF Gravar, Cadastrar, AdicionarContato, varsDados
  <2> QED  BY <2>1, <2>2
<1> QED  BY <1>1, <1>2 DEF Next

\* A merge is final: no request, however old its reads, merges the record again,
\* undoes the merge or brings the record back.
THEOREM MescladaUmaVezSempre == Spec => MescladaUmaVez
<1>1. IInv /\ IInv' /\ [Next]_vars =>
        [\A p \in Pessoas : mescla[p] # Nada => mescla'[p] = mescla[p] /\ pessoa'[p] = "excluida"]_vars
  <2> SUFFICES ASSUME IInv, IInv', Next, NEW p \in Pessoas, mescla[p] # Nada
               PROVE  mescla'[p] = mescla[p] /\ pessoa'[p] = "excluida"
    OBVIOUS
  <2>1. mescla'[p] = mescla[p]
    <3>1. CASE \E r \in Requisicoes : FecharMescla(r)
      <4>1. PICK r \in Requisicoes : FecharMescla(r)  BY <3>1
      <4>2. mescla[req[r].q] = Nada /\ mescla' = [mescla EXCEPT ![req[r].q] = req[r].p]
        BY <4>1 DEF FecharMescla, MesclaCabe
      <4> QED  BY <4>2 DEF IInv, Cadastro, TipoDados
    <3> QED  BY <3>1, SoMesclarMescla
  <2>2. pessoa'[p] = "excluida"
    BY <2>1 DEF IInv, Cadastro, MescladaExcluida
  <2> QED  BY <2>1, <2>2
<1> QED  BY <1>1, SempreIInv, PassoIInv, PTL DEF Spec, MescladaUmaVez

(***************************************************************************)
(* What a merge takes along.  Of every part whose statement has run, the   *)
(* source has nothing that the principal lacks but what the merge is going *)
(* to move and what others brought in behind the statement.                *)
(***************************************************************************)
Abrangida(r) ==
    \A k \in Rodadas(req[r].passo) :
        Falta(k, req[r].p, req[r].q) \subseteq Levado(k, req[r].muda) \cup tarde[r][k]
Abrangidas == \A r \in Requisicoes : req[r].passo \in PassosMescla => Abrangida(r)

LEMMA RodadasPartes == \A a : Rodadas(a) \subseteq Partes
  BY DEF Rodadas, Partes, PassosMescla

LEMMA AbrangidasSeguem ==
    ASSUME IInv, Abrangidas, Next
    PROVE  Abrangidas'
<1> SUFFICES ASSUME NEW r \in Requisicoes, req'[r].passo \in PassosMescla,
                    NEW k \in Rodadas(req'[r].passo)
             PROVE  Falta(k, req[r].p, req[r].q)' \subseteq Levado(k, req'[r].muda) \cup tarde'[r][k]
  BY DEF Abrangidas, Abrangida
<1>1. Cadastro  BY DEF IInv
<1>2. k \in Partes  BY RodadasPartes
<1>3. k \in Rodadas(req[r].passo) =>
        tarde'[r][k] = tarde[r][k] \cup (Falta(k, req[r].p, req[r].q)' \ Falta(k, req[r].p, req[r].q))
  BY <1>2 DEF Next, AnotarTarde
<1>4. k \in Rodadas(req[r].passo) =>
        Falta(k, req[r].p, req[r].q) \subseteq Levado(k, req[r].muda) \cup tarde[r][k]
  <2>1. k \in Rodadas(req[r].passo) => req[r].passo \in PassosMescla
    BY DEF Rodadas, PassosMescla
  <2> QED  BY <2>1 DEF Abrangidas, Abrangida
<1>5. CASE Prossegue(r)
  <2>1. CASE req'[r].passo = "contatos"  BY <2>1 DEF Rodadas
  <2>2. CASE req'[r].passo # "contatos"
    <3>1. req'[r].passo = req[r].passo /\ req'[r].muda = req[r].muda  BY <1>5, <2>2 DEF Prossegue
    <3> QED  BY <1>3, <1>4, <3>1
  <2> QED  BY <2>1, <2>2
<1>6. ASSUME NEW t \in Requisicoes, Declara(t)
      PROVE  Falta(k, req[r].p, req[r].q)' \subseteq Levado(k, req'[r].muda) \cup tarde'[r][k]
  <2>1. PICK a \in PassosMescla, m \in Mudanca :
            /\ Seguir(t, a, m)
            /\ Rodadas(a) = Rodadas(req[t].passo) \cup {req[t].passo}
            /\ \A j \in Partes \ {req[t].passo} : Levado(j, m) = Levado(j, req[t].muda)
            /\ Falta(req[t].passo, req[t].p, req[t].q) \subseteq Levado(req[t].passo, m)
    BY <1>6 DEF Declara
  <2>2. /\ req'[t].passo = a /\ req'[t].p = req[t].p /\ req'[t].q = req[t].q
        /\ req'[t].muda = m
        /\ \A w \in Requisicoes : w # t => req'[w] = req[w]
        /\ UNCHANGED <<varsHierarquia, varsDados>>
    BY <1>1, <2>1, DeclaraQuadro
  <2>3. CASE r # t  BY <1>3, <1>4, <2>2, <2>3
  <2>4. CASE r = t
    <3>1. Falta(k, req[r].p, req[r].q)' = Falta(k, req[r].p, req[r].q)
      <4>1. PICK p, s : p = req[r].p /\ s = req[r].q  OBVIOUS
      <4>2. /\ req'[r].p = p /\ req'[r].q = s
            /\ contatos' = contatos /\ titulo' = titulo /\ lidera' = lidera
            /\ vinculo' = vinculo /\ indicou' = indicou
        BY <2>2, <2>4, <4>1 DEF varsHierarquia, varsDados
      <4> QED  BY <4>1, <4>2 DEF Falta, Repetidos, TemTitulo
    <3>2. CASE k = req[t].passo  BY <2>1, <2>2, <2>4, <3>1, <3>2
    <3>3. CASE k # req[t].passo
      <4>1. k \in Rodadas(req[r].passo)  BY <2>1, <2>2, <2>4, <3>3
      <4>2. Levado(k, req'[r].muda) = Levado(k, req[r].muda)
        BY <1>2, <2>1, <2>2, <2>4, <3>3
      <4> QED  BY <1>3, <1>4, <4>1, <4>2
    <3> QED  BY <3>2, <3>3
  <2> QED  BY <2>3, <2>4
<1> QED  BY <1>1, <1>5, <1>6, PassoMesclas

\* The commit moves what the statements wrote and leaves nothing else behind.
LEMMA FecharLeva ==
    ASSUME Cadastro, NEW r \in Requisicoes, FecharMescla(r), NEW p, NEW s, NEW k \in Partes,
           p = req[r].p, s = req[r].q
    PROVE  Falta(k, p, s)' \subseteq Falta(k, p, s) \ Levado(k, req[r].muda)
<1> USE DEF Cadastro
<1> DEFINE m == req[r].muda
<1>1. p \in Pessoas /\ s \in Pessoas /\ p # s
  BY DEF FecharMescla, Reservas, MesclaConhecida, PassosMescla
<1>2. m \in Mudanca  BY DEF TipoHierarquia, Requisicao
<1>3. /\ contatos' = ContatosMovidos(p, s, m)
      /\ titulo' = TitulosMovidos(p, s, m)
      /\ lidera' = LiderancasMovidas(p, m)
      /\ vinculo' = VinculosMovidos(p, m.vinculos)
      /\ indicou' = IndicacoesMovidas(p, s, m)
  BY DEF FecharMescla
<1> HIDE DEF m
<1>4. CASE k = "contatos"
  <2>1. contatos'[s] = contatos[s] \ m.contatos /\ contatos'[p] = contatos[p] \cup m.contatos
    BY <1>1, <1>3 DEF ContatosMovidos, TipoDados
  <2> QED  BY <1>4, <2>1 DEF Falta, Levado, m
<1>5. CASE k = "eleitor"
  <2>1. CASE m.titulo \in {"linha", "numero"}
    <3>1. titulo'[s] \in {"semEleitor", "semTitulo"}
      BY <1>1, <1>3, <2>1 DEF TitulosMovidos, TipoDados
    <3> QED  BY <1>5, <3>1 DEF Falta, TemTitulo
  <2>2. CASE m.titulo \notin {"linha", "numero"}
    <3>1. titulo' = titulo  BY <1>3, <2>2 DEF TitulosMovidos
    <3>2. Levado(k, m) = {}  BY <1>5, <2>2 DEF Levado
    <3> QED  BY <1>5, <3>1, <3>2 DEF Falta, TemTitulo, m
  <2> QED  BY <2>1, <2>2
<1>6. CASE k = "lideranca"
  <2>1. CASE \E l \in Liderancas : lidera'[l] = p  BY <1>6, <2>1 DEF Falta
  <2>2. CASE ~ \E l \in Liderancas : lidera'[l] = p
    <3>1. \A l \in Liderancas : l \notin m.lidera /\ lidera'[l] = lidera[l]
      BY <1>3, <2>2 DEF LiderancasMovidas
    <3>2. Levado(k, m) = m.lidera  BY <1>6 DEF Levado
    <3> QED  BY <1>6, <2>2, <3>1, <3>2 DEF Falta, m
  <2> QED  BY <2>1, <2>2
<1>7. CASE k = "hierarquia"
  <2>1. ASSUME NEW v \in Falta(k, p, s)'
        PROVE  v \in Falta(k, p, s) \ Levado(k, m)
    <3>1. /\ v \in Vinculos /\ vinculo'[v].sub = s
          /\ \A w \in Vinculos : ~(vinculo'[w].sub = p /\ vinculo'[w].sup = vinculo'[v].sup)
      BY <1>7, <2>1 DEF Falta, Repetidos
    <3>2. v \notin m.vinculos
      <4>1. vinculo[v] \in LinhaVinculo  BY <3>1 DEF TipoHierarquia
      <4>2. [vinculo[v] EXCEPT !.sub = p].sub = p  BY <4>1 DEF LinhaVinculo
      <4> QED  BY <1>1, <1>3, <3>1, <4>2 DEF VinculosMovidos
    <3>3. vinculo'[v] = vinculo[v]  BY <1>3, <3>1, <3>2 DEF VinculosMovidos
    <3>4. ASSUME NEW w \in Vinculos, vinculo[w].sub = p, vinculo[w].sup = vinculo[v].sup
          PROVE  FALSE
      <4>1. vinculo[w] \in LinhaVinculo  BY DEF TipoHierarquia
      <4>2. [vinculo[w] EXCEPT !.sub = p].sub = p /\ [vinculo[w] EXCEPT !.sub = p].sup = vinculo[w].sup
        BY <4>1 DEF LinhaVinculo
      <4>3. vinculo'[w].sub = p /\ vinculo'[w].sup = vinculo[w].sup
        BY <1>3, <3>4, <4>2 DEF VinculosMovidos
      <4> QED  BY <3>1, <3>3, <3>4, <4>3
    <3>5. v \in Falta(k, p, s)  BY <1>7, <3>1, <3>3, <3>4 DEF Falta, Repetidos
    <3> QED  BY <1>7, <3>2, <3>5 DEF Levado
  <2> QED  BY <2>1 DEF m
<1>8. CASE k \in {"recebidas", "feitas"}
  <2>1. "anonima" # s /\ "anonima" # Nada /\ p # Nada /\ s # Nada
    BY <1>1, AnonimaNaoEhPessoa, NadaForaDoCadastro
  <2>2. CASE m.recebida # {}
    <3>1. indicou'[s] = Nada /\ indicou'[p] = IF indicou[s] = s THEN "anonima" ELSE indicou[s]
      BY <1>1, <1>3, <2>2 DEF IndicacoesMovidas
    <3>2. \A q \in Pessoas \ {p, s} :
             indicou'[q] = IF q \in m.feitas /\ indicou[q] = s THEN p ELSE indicou[q]
      BY <1>3, <2>2 DEF IndicacoesMovidas
    <3>3. CASE k = "recebidas"  BY <3>1, <3>3 DEF Falta
    <3>4. CASE k = "feitas"
      <4>1. ASSUME NEW q \in Pessoas, indicou'[q] = s
            PROVE  indicou[q] = s /\ q \notin m.feitas
        BY <1>1, <2>1, <3>1, <3>2, <4>1
      <4> QED  BY <3>4, <4>1 DEF Falta, Levado, m
    <3> QED  BY <1>8, <3>3, <3>4
  <2>3. CASE m.recebida = {}
    <3>1. \A q \in Pessoas :
             indicou'[q] = IF q \in m.feitas /\ indicou[q] = s
                           THEN (IF q = p THEN "anonima" ELSE p) ELSE indicou[q]
      BY <1>3, <2>3 DEF IndicacoesMovidas
    <3>2. CASE k = "recebidas"
      <4>1. indicou'[p] = Nada => indicou[p] = Nada  BY <1>1, <2>1, <3>1
      <4>2. indicou'[s] # Nada => indicou[s] # Nada  BY <1>1, <2>1, <3>1
      <4>3. Levado(k, m) = {}  BY <2>3, <3>2 DEF Levado
      <4> QED  BY <3>2, <4>1, <4>2, <4>3 DEF Falta, m
    <3>3. CASE k = "feitas"
      <4>1. ASSUME NEW q \in Pessoas, indicou'[q] = s
            PROVE  indicou[q] = s /\ q \notin m.feitas
        BY <1>1, <2>1, <3>1, <4>1
      <4> QED  BY <3>3, <4>1 DEF Falta, Levado, m
    <3> QED  BY <1>8, <3>2, <3>3
  <2> QED  BY <2>2, <2>3
<1> QED  BY <1>4, <1>5, <1>6, <1>7, <1>8 DEF Partes, PassosMescla

\* However many statements of others come in between, a merged record keeps
\* nothing that the other one lacks but what was committed behind the statement
\* that would have moved it.
THEOREM MesclaSempreLevaTudo == Spec => MesclaLevaTudo
<1>1. IInv /\ Abrangidas /\ [Next]_vars => Abrangidas'
  <2> SUFFICES ASSUME IInv, Abrangidas, [Next]_vars PROVE Abrangidas'
    OBVIOUS
  <2>1. CASE UNCHANGED vars
    BY <2>1 DEF vars, varsHierarquia, varsDados, Abrangidas, Abrangida, Falta, Repetidos, TemTitulo
  <2> QED  BY <2>1, AbrangidasSeguem
<1>2. Init => Abrangidas
  <2> SUFFICES ASSUME Init PROVE Abrangidas
    OBVIOUS
  <2>1. \A r \in Requisicoes : req[r].passo \notin PassosMescla
    BY DEF Init, InitHierarquia, Ociosa, PassosMescla
  <2> QED  BY <2>1 DEF Abrangidas
<1>3. IInv /\ Abrangidas /\ [Next]_vars =>
        [\A r \in Requisicoes, p, s \in Pessoas :
          (/\ req[r].passo = "fechar" /\ req[r].p = p /\ req[r].q = s
           /\ req'[r] = Ociosa /\ mescla[s] = Nada /\ mescla'[s] = p)
          => \A k \in Partes : Falta(k, p, s)' \subseteq tarde[r][k]]_vars
  <2> SUFFICES ASSUME IInv, Abrangidas, Next, NEW r \in Requisicoes, NEW p \in Pessoas,
                      NEW s \in Pessoas, NEW k \in Partes,
                      req[r].passo = "fechar", req[r].p = p, req[r].q = s,
                      req'[r] = Ociosa, mescla[s] = Nada, mescla'[s] = p
               PROVE  Falta(k, p, s)' \subseteq tarde[r][k]
    OBVIOUS
  <2>1. Cadastro /\ p # Nada  BY NadaForaDoCadastro DEF IInv
  <2>2. PICK t \in Requisicoes : FecharMescla(t)  BY <2>1, SoMesclarMescla
  <2>3. t = r
    <3>1. req' = [Envelhecer(req) EXCEPT ![t] = Ociosa]  BY <2>2 DEF FecharMescla
    <3>2. r # t => req'[r] = Envelhecer(req)[r]
      BY <2>1, <3>1, EnvelhecerQuadro DEF Cadastro, TipoHierarquia
    <3>3. Envelhecer(req)[r].passo = "fechar"
      BY <2>1, EnvelhecerQuadro DEF Cadastro, TipoHierarquia
    <3> QED  BY <3>2, <3>3 DEF Ociosa
  <2>4. Falta(k, p, s)' \subseteq Falta(k, p, s) \ Levado(k, req[r].muda)
    BY <2>1, <2>2, <2>3, FecharLeva
  <2>5. Falta(k, p, s) \subseteq Levado(k, req[r].muda) \cup tarde[r][k]
    <3>1. k \in Rodadas(req[r].passo)  BY DEF Rodadas
    <3> QED  BY <3>1 DEF Abrangidas, Abrangida, PassosMescla
  <2> QED  BY <2>4, <2>5
<1> QED  BY <1>1, <1>2, <1>3, SempreIInv, PTL DEF Spec, MesclaLevaTudo

(***************************************************************************)
(* Insertions of links and the recursive query.                            *)
(***************************************************************************)
\* A link that exists puts a person under somebody; what an insertion checked
\* holds until the hierarchy changes.
LinksDePessoas == \A v \in Vinculos : vinculo[v] = SemVinculo \/ vinculo[v].sub \in Pessoas
InsercoesOK ==
    \A r \in Requisicoes : req[r].passo = "inserir" =>
        /\ req[r].l \in Liderancas
        /\ req[r].p \in Pessoas
        /\ req[r].fresca = "sim" => ~FechaCiclo(req[r].l, req[r].p)
Frescas == LinksDePessoas /\ InsercoesOK

\* The people below a leadership are the least closed set.
LEMMA AbaixoFecha ==
    ASSUME LinksDePessoas, NEW l \in Liderancas
    PROVE  FechadoSob(Descendentes(l), l)
<1>1. \A k \in Liderancas : Subordinadas(k) \subseteq Pessoas
  BY DEF LinksDePessoas, Subordinadas, Ativos, SemVinculo
<1>2. Subordinadas(l) \subseteq Descendentes(l)
  BY <1>1 DEF Descendentes, FechadoSob
<1>3. ASSUME NEW m \in Criadas, lidera[m] \in Descendentes(l)
      PROVE  Subordinadas(m) \subseteq Descendentes(l)
  BY <1>1, <1>3 DEF Descendentes, FechadoSob, Criadas
<1> QED  BY <1>2, <1>3 DEF FechadoSob

LEMMA AbaixoMenor ==
    ASSUME NEW l, NEW S \in SUBSET Pessoas, FechadoSob(S, l)
    PROVE  Descendentes(l) \subseteq S
  BY DEF Descendentes

LEMMA AbaixoTransitiva ==
    ASSUME LinksDePessoas, NEW j \in Liderancas, NEW k \in Criadas,
           lidera[k] \in Descendentes(j)
    PROVE  Descendentes(k) \subseteq Descendentes(j)
<1>1. FechadoSob(Descendentes(j), j)  BY AbaixoFecha
<1>2. FechadoSob(Descendentes(j), k)  BY <1>1 DEF FechadoSob
<1>3. Descendentes(j) \in SUBSET Pessoas  BY DEF Descendentes
<1> QED  BY <1>2, <1>3, AbaixoMenor

\* A link above p in l that the query let through: nobody is below a leadership
\* of its own afterwards.
LEMMA InsercaoSemCiclo ==
    ASSUME LinksDePessoas, SemCiclo, NEW l \in Liderancas, NEW p \in Pessoas,
           ~FechaCiclo(l, p), UNCHANGED lidera,
           \A m \in Liderancas :
              Subordinadas(m)' \subseteq Subordinadas(m) \cup (IF m = l THEN {p} ELSE {})
    PROVE  SemCiclo'
<1>1. Criadas' = Criadas /\ Criadas \subseteq Liderancas  BY DEF Criadas
<1>2. /\ lidera[l] # p
      /\ \A k \in Criadas : lidera[k] = p => lidera[l] \notin Descendentes(k)
  BY DEF FechaCiclo
<1>3. SUFFICES ASSUME NEW m \in Criadas, lidera[m] \in Descendentes(m)'
               PROVE  FALSE
  BY <1>1 DEF SemCiclo
<1> DEFINE Dele == {k \in Criadas : lidera[k] = p}
           Novos == {p} \cup UNION {Descendentes(k) : k \in Dele}
<1>4. PICK S : S = Descendentes(m) \cup
                   (IF m = l \/ lidera[l] \in Descendentes(m) THEN Novos ELSE {})
  OBVIOUS
<1>5. S \in SUBSET Pessoas  BY <1>4 DEF Descendentes
<1>6. FechadoSob(Descendentes(m), m) /\ \A k \in Dele : FechadoSob(Descendentes(k), k)
  BY <1>1, AbaixoFecha
<1>7. FechadoSob(S, m)'
  <2>1. Subordinadas(m)' \subseteq S
    BY <1>1, <1>6, <1>4 DEF FechadoSob
  <2>2. ASSUME NEW k \in Criadas, lidera[k] \in S
        PROVE  Subordinadas(k)' \subseteq S
    <3>1. CASE lidera[k] \in Descendentes(m)
      <4>1. Subordinadas(k) \subseteq Descendentes(m)
        BY <1>6, <3>1 DEF FechadoSob
      <4> QED  BY <1>1, <1>4, <3>1, <4>1
    <3>2. CASE lidera[k] \notin Descendentes(m)
      <4>1. Novos \subseteq S /\ lidera[k] \in Novos  BY <1>4, <2>2, <3>2
      <4>2. k # l /\ Subordinadas(k) \subseteq Novos
        <5>1. CASE lidera[k] = p
          BY <1>2, <1>6, <5>1 DEF FechadoSob
        <5>2. CASE lidera[k] # p
          <6>1. PICK j \in Dele : lidera[k] \in Descendentes(j)  BY <4>1, <5>2
          <6>2. Subordinadas(k) \subseteq Descendentes(j)
            BY <1>6, <6>1 DEF FechadoSob
          <6> QED  BY <1>2, <6>1, <6>2
        <5> QED  BY <5>1, <5>2
      <4> QED  BY <1>1, <4>1, <4>2
    <3> QED  BY <3>1, <3>2
  <2> QED  BY <1>1, <2>1, <2>2 DEF FechadoSob
<1>8. lidera[m] \in S
  <2>1. Descendentes(m)' \subseteq S  BY <1>5, <1>7 DEF Descendentes
  <2> QED  BY <1>3, <2>1
<1>9. lidera[m] \notin Descendentes(m)  BY DEF SemCiclo
<1>10. CASE lidera[m] = p
  BY <1>2, <1>8, <1>9, <1>10, <1>4
<1>11. CASE lidera[m] # p
  <2>1. PICK j \in Dele : lidera[m] \in Descendentes(j)  BY <1>8, <1>9, <1>11, <1>4
  <2>2. Descendentes(m) \subseteq Descendentes(j)
    BY <1>1, <2>1, AbaixoTransitiva
  <2>3. lidera[l] \in Descendentes(j)
    BY <1>8, <1>9, <1>4, <2>1, <2>2
  <2> QED  BY <1>2, <2>1, <2>3
<1> QED  BY <1>10, <1>11

LEMMA InserirSemCiclo ==
    ASSUME Cadastro, Frescas, NEW r \in Requisicoes, InserirVinculo(r),
           req[r].fresca = "sim", SemCiclo
    PROVE  SemCiclo'
<1> PICK l, p : l = req[r].l /\ p = req[r].p  OBVIOUS
<1>1. l \in Liderancas /\ p \in Pessoas /\ ~FechaCiclo(l, p) /\ UNCHANGED lidera
  BY DEF InserirVinculo, Frescas, InsercoesOK
<1>2. PICK v \in Vinculos : /\ vinculo[v] = SemVinculo
                            /\ vinculo' = ComLinha(v, l, p, req[r].quer)
  BY DEF InserirVinculo, Novo, Existe
<1>3. ASSUME NEW m \in Liderancas
      PROVE  Subordinadas(m)' \subseteq Subordinadas(m) \cup (IF m = l THEN {p} ELSE {})
  <2>1. \A w \in Vinculos : w # v => vinculo'[w] = vinculo[w]
    BY <1>2 DEF ComLinha, Cadastro, TipoHierarquia
  <2>2. vinculo'[v] = [sup |-> l, sub |-> p, ativo |-> req[r].quer]
    BY <1>2 DEF ComLinha, Cadastro, TipoHierarquia
  <2>3. ASSUME NEW x \in Subordinadas(m)'
        PROVE  x \in Subordinadas(m) \cup (IF m = l THEN {p} ELSE {})
    <3>1. PICK w \in Vinculos : /\ vinculo'[w].ativo = "sim" /\ vinculo'[w].sup = m
                                /\ x = vinculo'[w].sub
      BY <2>3 DEF Subordinadas, Ativos
    <3>2. CASE w = v  BY <2>2, <3>1, <3>2
    <3>3. CASE w # v  BY <2>1, <3>1, <3>3 DEF Subordinadas, Ativos
    <3> QED  BY <3>2, <3>3
  <2> QED  BY <2>3
<1> QED  BY <1>1, <1>3, InsercaoSemCiclo DEF Frescas

\* The query sees leaderships and links only.
LEMMA QueryIgual ==
    ASSUME UNCHANGED <<lidera, vinculo>>, NEW l, NEW p, ~FechaCiclo(l, p)
    PROVE  ~FechaCiclo(l, p)'
  BY DEF FechaCiclo, Descendentes, FechadoSob, Criadas, Subordinadas, Ativos

\* The hierarchy changes, and every insertion under way is old ...
Envelhece ==
    \A s \in Requisicoes : req'[s].passo = "inserir" =>
        /\ req[s].passo = "inserir" /\ req'[s].fresca = "nao"
        /\ req'[s].l = req[s].l /\ req'[s].p = req[s].p
\* ... or it does not, and an insertion is as it was or has just been checked.
Preserva ==
    /\ UNCHANGED <<lidera, vinculo>>
    /\ \A s \in Requisicoes : req'[s].passo = "inserir" =>
          \/ req'[s] = req[s]
          \/ \E l \in Liderancas, p \in Pessoas :
                req'[s].l = l /\ req'[s].p = p /\ ~FechaCiclo(l, p)

LEMMA FrescasSeguem ==
    ASSUME Frescas, LinksDePessoas', Envelhece \/ Preserva
    PROVE  Frescas'
<1>1. SUFFICES ASSUME NEW s \in Requisicoes, req'[s].passo = "inserir"
               PROVE  /\ req'[s].l \in Liderancas
                      /\ req'[s].p \in Pessoas
                      /\ req'[s].fresca = "sim" => ~FechaCiclo(req[s].l, req[s].p)'
  BY DEF Frescas, InsercoesOK
<1>2. CASE Envelhece
  BY <1>1, <1>2 DEF Envelhece, Frescas, InsercoesOK
<1>3. CASE Preserva
  <2>1. PICK l, p : l = req'[s].l /\ p = req'[s].p  OBVIOUS
  <2>2. l \in Liderancas /\ p \in Pessoas /\ (req'[s].fresca = "sim" => ~FechaCiclo(l, p))
    BY <1>1, <1>3, <2>1 DEF Preserva, Frescas, InsercoesOK
  <2>3. ~FechaCiclo(l, p) => ~FechaCiclo(l, p)'  BY <1>3, QueryIgual DEF Preserva
  <2> QED  BY <2>1, <2>2, <2>3
<1> QED  BY <1>2, <1>3

LEMMA EnvelhecerEnvelhece ==
    ASSUME req \in [Requisicoes -> Requisicao],
           \/ req' = Envelhecer(req)
           \/ \E r \in Requisicoes : req' = [Envelhecer(req) EXCEPT ![r] = Ociosa]
    PROVE  Envelhece
<1>1. ASSUME NEW s \in Requisicoes
      PROVE  /\ Envelhecer(req)[s].l = req[s].l /\ Envelhecer(req)[s].p = req[s].p
             /\ Envelhecer(req)[s].passo = req[s].passo
             /\ req[s].passo = "inserir" => Envelhecer(req)[s].fresca = "nao"
  <2>1. req[s] \in Requisicao  OBVIOUS
  <2> QED  BY <2>1 DEF Envelhecer, Requisicao
<1>2. Ociosa.passo = "ocioso"  BY DEF Ociosa
<1>3. DOMAIN Envelhecer(req) = Requisicoes  BY DEF Envelhecer
<1> QED  BY <1>1, <1>2, <1>3 DEF Envelhece

\* A request that starts or ends and is no insertion.
LEMMA OutroPreserva ==
    ASSUME req \in [Requisicoes -> Requisicao], NEW r \in Requisicoes, NEW x,
           req' = [req EXCEPT ![r] = x], x.passo # "inserir", UNCHANGED <<lidera, vinculo>>
    PROVE  Preserva
  BY DEF Preserva
LEMMA PreservaLinks == ASSUME LinksDePessoas, UNCHANGED vinculo PROVE LinksDePessoas'
  BY DEF LinksDePessoas

LEMMA ComLinhaLinks ==
    ASSUME LinksDePessoas, TipoHierarquia, NEW v \in Vinculos, NEW l, NEW p \in Pessoas, NEW a,
           vinculo' = ComLinha(v, l, p, a)
    PROVE  LinksDePessoas'
<1>1. vinculo'[v] = [sup |-> l, sub |-> p, ativo |-> a]  BY DEF ComLinha, TipoHierarquia
<1>2. vinculo'[v].sub = p  BY <1>1
<1>3. \A w \in Vinculos : w # v => vinculo'[w] = vinculo[w]  BY DEF ComLinha, TipoHierarquia
<1> QED  BY <1>2, <1>3 DEF LinksDePessoas

LEMMA ComecarHierarquiaFrescas ==
    ASSUME Cadastro, Frescas, ComecarHierarquia
    PROVE  Frescas'
<1>1. req \in [Requisicoes -> Requisicao] /\ vinculo \in [Vinculos -> LinhaVinculo]
  BY DEF Cadastro, TipoHierarquia
<1>2. LinksDePessoas  BY DEF Frescas
<1>3. ASSUME NEW r \in Requisicoes, NEW l \in Liderancas, NEW p \in Pessoas,
             NEW a \in {"sim", "nao"}, LerParaVincular(r, l, p, a)
      PROVE  Frescas'
  <2> DEFINE x == [Ociosa EXCEPT !.passo = "inserir", !.l = l, !.p = p, !.quer = a]
  <2>1. x.l = l /\ x.p = p  BY DEF Ociosa
  <2>2. /\ req' = [req EXCEPT ![r] = x]
        /\ ~FechaCiclo(l, p)
        /\ UNCHANGED <<lidera, vinculo>>
    BY <1>3 DEF LerParaVincular, varsHierarquia
  <2> HIDE DEF x
  <2>3. Preserva  BY <1>1, <2>1, <2>2 DEF Preserva
  <2> QED  BY <1>2, <2>2, <2>3, FrescasSeguem, PreservaLinks
<1>4. ASSUME NEW r \in Requisicoes, NEW v \in Vinculos, NEW a \in {"sim", "nao"},
             LerStatusVinculo(r, v, a)
      PROVE  Frescas'
  <2> DEFINE x == [Ociosa EXCEPT !.passo = "gravarStatus", !.v = v, !.quer = a,
                                 !.lido = vinculo[v].ativo]
  <2>1. x.passo # "inserir"  BY DEF Ociosa
  <2>2. req' = [req EXCEPT ![r] = x] /\ UNCHANGED <<lidera, vinculo>>
    BY <1>4 DEF LerStatusVinculo, varsHierarquia
  <2> HIDE DEF x
  <2> QED  BY <1>1, <1>2, <2>1, <2>2, OutroPreserva, FrescasSeguem, PreservaLinks
<1>5. ASSUME NEW r \in Requisicoes, NEW p \in Pessoas, NEW q \in Pessoas,
             LerParaIndicar(r, p, q)
      PROVE  Frescas'
  <2> DEFINE x == [Ociosa EXCEPT !.passo = "indicar", !.p = p, !.q = q]
  <2>1. x.passo # "inserir"  BY DEF Ociosa
  <2>2. req' = [req EXCEPT ![r] = x] /\ UNCHANGED <<lidera, vinculo>>
    BY <1>5 DEF LerParaIndicar, varsHierarquia
  <2> HIDE DEF x
  <2> QED  BY <1>1, <1>2, <2>1, <2>2, OutroPreserva, FrescasSeguem, PreservaLinks
<1>6. ASSUME NEW r \in Requisicoes, NEW p \in Pessoas, LerParaLiderar(r, p)
      PROVE  Frescas'
  <2> DEFINE x == [Ociosa EXCEPT !.passo = "liderar", !.p = p]
  <2>1. x.passo # "inserir"  BY DEF Ociosa
  <2>2. req' = [req EXCEPT ![r] = x] /\ UNCHANGED <<lidera, vinculo>>
    BY <1>6 DEF LerParaLiderar, varsHierarquia
  <2> HIDE DEF x
  <2> QED  BY <1>1, <1>2, <2>1, <2>2, OutroPreserva, FrescasSeguem, PreservaLinks
<1>7. ASSUME NEW v \in Vinculos, ExcluirVinculo(v) PROVE Frescas'
  <2>1. Envelhece  BY <1>1, <1>7, EnvelhecerEnvelhece DEF ExcluirVinculo
  <2>2. LinksDePessoas'  BY <1>1, <1>2, <1>7 DEF ExcluirVinculo, LinksDePessoas
  <2> QED  BY <2>1, <2>2, FrescasSeguem
<1>8. ASSUME NEW l \in Liderancas, ExcluirLideranca(l) PROVE Frescas'
  <2>1. Envelhece  BY <1>1, <1>8, EnvelhecerEnvelhece DEF ExcluirLideranca
  <2>2. LinksDePessoas'  BY <1>1, <1>2, <1>8 DEF ExcluirLideranca, LinksDePessoas
  <2> QED  BY <2>1, <2>2, FrescasSeguem
<1>9. ASSUME NEW p \in Pessoas, Desativar(p) PROVE Frescas'
  <2>1. Preserva /\ UNCHANGED vinculo  BY <1>9 DEF Desativar, Preserva
  <2> QED  BY <1>2, <2>1, FrescasSeguem, PreservaLinks
<1> QED  BY <1>3, <1>4, <1>5, <1>6, <1>7, <1>8, <1>9 DEF ComecarHierarquia

LEMMA ComecarDadosFrescas ==
    ASSUME Cadastro, Frescas, Comecar, ~ComecarHierarquia
    PROVE  Frescas'
<1>1. req \in [Requisicoes -> Requisicao]  BY DEF Cadastro, TipoHierarquia
<1>2. LinksDePessoas  BY DEF Frescas
<1>3. ASSUME NEW r \in Requisicoes, NEW x, x.passo # "inserir",
             req' = [req EXCEPT ![r] = x], UNCHANGED varsHierarquia
      PROVE  Frescas'
  BY <1>1, <1>2, <1>3, OutroPreserva, FrescasSeguem, PreservaLinks DEF varsHierarquia
<1>4. ASSUME NEW r \in Requisicoes, NEW p \in Pessoas, NEW S \in SUBSET Valores,
             NEW l \in Liderancas \cup {Nada}, NEW q \in Pessoas \cup {Nada},
             NEW t \in {"semEleitor", "semTitulo"} \cup Titulos,
             LerCadastro(r, p, l, q, S, t)
      PROVE  Frescas'
  <2> DEFINE x == [Ociosa EXCEPT !.passo = "cadastrar", !.p = p, !.l = l, !.q = q]
  <2>1. x.passo # "inserir"  BY DEF Ociosa
  <2>2. req' = [req EXCEPT ![r] = x] /\ UNCHANGED varsHierarquia  BY <1>4 DEF LerCadastro
  <2> HIDE DEF x
  <2> QED  BY <1>3, <2>1, <2>2
<1>5. ASSUME NEW r \in Requisicoes, NEW p \in Pessoas, NEW c \in Valores, LerContato(r, p, c)
      PROVE  Frescas'
  <2> DEFINE x == [Ociosa EXCEPT !.passo = "contatar", !.p = p]
  <2>1. x.passo # "inserir"  BY DEF Ociosa
  <2>2. req' = [req EXCEPT ![r] = x] /\ UNCHANGED varsHierarquia  BY <1>5 DEF LerContato
  <2> HIDE DEF x
  <2> QED  BY <1>3, <2>1, <2>2
<1>6. ASSUME NEW r \in Requisicoes, NEW p \in Pessoas, NEW s \in Pessoas, LerMescla(r, p, s)
      PROVE  Frescas'
  <2> DEFINE x == [Ociosa EXCEPT !.passo = "contatos", !.p = p, !.q = s]
  <2>1. x.passo # "inserir"  BY DEF Ociosa
  <2>2. req' = [req EXCEPT ![r] = x] /\ UNCHANGED varsHierarquia  BY <1>6 DEF LerMescla
  <2> HIDE DEF x
  <2> QED  BY <1>3, <2>1, <2>2
<1>7. CASE \/ \E p \in Pessoas, t \in {"semTitulo"} \cup Titulos : DefinirEleitor(p, t)
           \/ \E s \in Pares, st \in {"pendente", "confirmada", "descartada"} : Resolver(s, st)
  <2>1. UNCHANGED <<varsHierarquia, req>>  BY <1>7 DEF DefinirEleitor, Resolver
  <2>2. Preserva  BY <2>1 DEF varsHierarquia, Preserva
  <2> QED  BY <1>2, <2>1, <2>2, FrescasSeguem, PreservaLinks DEF varsHierarquia
<1> QED  BY <1>4, <1>5, <1>6, <1>7 DEF Comecar

LEMMA GravarFrescas ==
    ASSUME Cadastro, Frescas, NEW r \in Requisicoes, Gravar(r)
    PROVE  Frescas'
<1>1. req \in [Requisicoes -> Requisicao] /\ vinculo \in [Vinculos -> LinhaVinculo]
  BY DEF Cadastro, TipoHierarquia
<1>2. LinksDePessoas /\ TipoHierarquia  BY DEF Frescas, Cadastro
<1>3. Ociosa.passo # "inserir"  BY DEF Ociosa
<1>4. ASSUME req' = Terminar(r), UNCHANGED <<lidera, vinculo>>
      PROVE  Frescas'
  <2>1. Preserva  BY <1>1, <1>3, <1>4, OutroPreserva DEF Terminar
  <2> QED  BY <1>2, <1>4, <2>1, FrescasSeguem, PreservaLinks
<1>5. ASSUME req' = [Envelhecer(req) EXCEPT ![r] = Ociosa], LinksDePessoas'
      PROVE  Frescas'
  BY <1>1, <1>5, EnvelhecerEnvelhece, FrescasSeguem
<1>6. CASE InserirVinculo(r)
  <2>1. req[r].p \in Pessoas  BY <1>6 DEF InserirVinculo, Frescas, InsercoesOK
  <2>2. PICK v \in Vinculos : vinculo' = ComLinha(v, req[r].l, req[r].p, req[r].quer)
    BY <1>6 DEF InserirVinculo
  <2>3. LinksDePessoas'
    <3>1. PICK l, p, a : l = req[r].l /\ p = req[r].p /\ a = req[r].quer  OBVIOUS
    <3> QED  BY <1>2, <2>1, <2>2, <3>1, ComLinhaLinks
  <2> QED  BY <1>5, <1>6, <2>3 DEF InserirVinculo
<1>7. CASE GravarStatusVinculo(r)
  <2>1. /\ Existe(req[r].v)
        /\ vinculo' = IF req[r].quer = req[r].lido THEN vinculo
                      ELSE [vinculo EXCEPT ![req[r].v].ativo = req[r].quer]
        /\ req' = [(IF vinculo' = vinculo THEN req ELSE Envelhecer(req)) EXCEPT ![r] = Ociosa]
        /\ UNCHANGED lidera
    BY <1>7 DEF GravarStatusVinculo
  <2>2. CASE vinculo' = vinculo
    BY <1>4, <2>1, <2>2 DEF Terminar
  <2>3. CASE vinculo' # vinculo
    <3>1. LinksDePessoas'
      <4>1. PICK v, a : v = req[r].v /\ a = req[r].quer  OBVIOUS
      <4>2. vinculo' = [vinculo EXCEPT ![v].ativo = a] /\ vinculo[v] # SemVinculo
        BY <2>1, <2>3, <4>1 DEF Existe
      <4>3. \A w \in Vinculos : w # v => vinculo'[w] = vinculo[w]  BY <1>1, <4>2
      <4>4. CASE v \in Vinculos
        <5>1. vinculo'[v] = [vinculo[v] EXCEPT !.ativo = a]  BY <1>1, <4>2, <4>4
        <5>2. vinculo[v] \in LinhaVinculo  BY <1>1, <4>4
        <5>3. vinculo'[v].sub = vinculo[v].sub  BY <5>1, <5>2 DEF LinhaVinculo
        <5> QED  BY <1>2, <4>2, <4>3, <4>4, <5>3 DEF LinksDePessoas
      <4>5. CASE v \notin Vinculos
        BY <1>2, <4>3, <4>5 DEF LinksDePessoas
      <4> QED  BY <4>4, <4>5
    <3> QED  BY <1>5, <2>1, <2>3, <3>1
  <2> QED  BY <2>2, <2>3
<1>8. CASE Indicar(r)  BY <1>4, <1>8 DEF Indicar
<1>9. CASE Recusar(r)  BY <1>4, <1>9 DEF Recusar, varsHierarquia
<1>10. ASSUME NEW l \in Liderancas, DefinirLideranca(r, l) PROVE Frescas'
  BY <1>2, <1>5, <1>10, PreservaLinks DEF DefinirLideranca
<1>11. CASE Cadastrar(r)
  <2>1. PICK l, p : l = req[r].l /\ p = req[r].p  OBVIOUS
  <2>2. p \in Pessoas  BY <1>11, <2>1 DEF Cadastrar, Cadastro, Reservas, CadastroReservado
  <2>3. vinculo' = vinculo \/ \E v \in Vinculos : vinculo' = ComLinha(v, l, p, "sim")
    BY <1>11, <2>1 DEF Cadastrar
  <2>4. LinksDePessoas'
    BY <1>2, <2>2, <2>3, PreservaLinks, ComLinhaLinks
  <2> QED  BY <1>5, <1>11, <2>4 DEF Cadastrar
<1>12. CASE AdicionarContato(r)
  BY <1>4, <1>12 DEF AdicionarContato, varsHierarquia
<1>13. CASE FecharMescla(r)
  <2>1. PICK p, m : p = req[r].p /\ m = req[r].muda  OBVIOUS
  <2>2. p \in Pessoas
    BY <1>13, <2>1 DEF FecharMescla, Cadastro, Reservas, MesclaConhecida, PassosMescla
  <2>3. vinculo' = VinculosMovidos(p, m.vinculos)  BY <1>13, <2>1 DEF FecharMescla
  <2>4. LinksDePessoas'
    <3>1. SUFFICES ASSUME NEW v \in Vinculos
                   PROVE  vinculo'[v] = SemVinculo \/ vinculo'[v].sub \in Pessoas
      BY DEF LinksDePessoas
    <3>2. CASE v \in m.vinculos
      <4>1. vinculo'[v] = [vinculo[v] EXCEPT !.sub = p]  BY <2>3, <3>2 DEF VinculosMovidos
      <4>2. vinculo[v] \in LinhaVinculo  BY <1>1
      <4> QED  BY <2>2, <4>1, <4>2 DEF LinhaVinculo
    <3>3. CASE v \notin m.vinculos
      BY <1>2, <2>3, <3>3 DEF VinculosMovidos, LinksDePessoas
    <3> QED  BY <3>2, <3>3
  <2> QED  BY <1>5, <1>13, <2>4 DEF FecharMescla
<1>14. CASE Mesclar(r) /\ ~FecharMescla(r)
  <2>1. Declara(r)  BY <1>14, MesclarDeclara DEF Cadastro
  <2>2. PICK a \in PassosMescla, m \in Mudanca : Seguir(r, a, m)  BY <2>1 DEF Declara
  <2>3. PICK x : x = [req[r] EXCEPT !.passo = a, !.muda = m]  OBVIOUS
  <2>4. x.passo # "inserir"
    <3>1. req[r] \in Requisicao  BY <1>1
    <3>2. x.passo = a  BY <2>3, <3>1 DEF Requisicao
    <3> QED  BY <3>2 DEF PassosMescla
  <2>5. req' = [req EXCEPT ![r] = x] /\ UNCHANGED <<lidera, vinculo>>
    BY <2>2, <2>3 DEF Seguir, varsHierarquia
  <2>6. Preserva  BY <1>1, <2>4, <2>5, OutroPreserva
  <2> QED  BY <1>2, <2>5, <2>6, FrescasSeguem, PreservaLinks
<1> QED  BY <1>6, <1>7, <1>8, <1>9, <1>10, <1>11, <1>12, <1>13, <1>14 DEF Gravar, GravarHierarquia

LEMMA PassoFrescas == IInv /\ Frescas /\ [Next]_vars => Frescas'
<1> SUFFICES ASSUME IInv, Frescas, [Next]_vars PROVE Frescas'
  OBVIOUS
<1>1. Cadastro  BY DEF IInv
<1>2. CASE Comecar  BY <1>1, <1>2, ComecarHierarquiaFrescas, ComecarDadosFrescas
<1>3. ASSUME NEW r \in Requisicoes, Gravar(r) PROVE Frescas'  BY <1>1, <1>3, GravarFrescas
<1>4. CASE UNCHANGED vars
  <2>1. Preserva /\ UNCHANGED vinculo  BY <1>4 DEF vars, varsHierarquia, Preserva
  <2> QED  BY <2>1, FrescasSeguem, PreservaLinks DEF Frescas
<1> QED  BY <1>2, <1>3, <1>4 DEF Next

\* The query finds every chain of leaderships: a link inserted by a request whose
\* check is not older than the last change of the hierarchy closes no cycle.
THEOREM InsercaoNuncaFechaCiclo == Spec => InsercaoNaoFechaCiclo
<1>1. Init => Frescas
  <2> SUFFICES ASSUME Init PROVE Frescas
    OBVIOUS
  <2>1. LinksDePessoas  BY DEF Init, InitHierarquia, LinksDePessoas, SemVinculo, Vivas
  <2>2. \A r \in Requisicoes : req[r].passo = "ocioso"
    BY DEF Init, InitHierarquia, Ociosa
  <2> QED  BY <2>1, <2>2 DEF Frescas, InsercoesOK
<1>2. IInv /\ Frescas =>
        [\A r \in Requisicoes :
          (InserirVinculo(r) /\ req[r].fresca = "sim" /\ SemCiclo) => SemCiclo']_<<varsHierarquia, req>>
  BY InserirSemCiclo DEF IInv
<1> QED  BY <1>1, <1>2, SempreIInv, PassoFrescas, PTL DEF Spec, InsercaoNaoFechaCiclo

(***************************************************************************)
(* Field work (AnunciosCampo): the balances of one point.                  *)
(***************************************************************************)
\* A point's status says what was left there.
PontoOK(pt) ==
    /\ \A m \in Materiais : Saldo(pt, m) >= 0
    /\ pt.status \in {"nenhum", "PENDENTE"} => pt.inst = Zero /\ pt.rec = Zero /\ pt.ext = Zero
    /\ pt.status \notin {"nenhum", "PENDENTE"} => pt.inst # Zero
    /\ pt.status \in {"INSTALADO", "RECOLHIDO_PARCIALMENTE"} => EmCampo(pt)
    /\ pt.status = "RECOLHIDO" => ~EmCampo(pt)

\* What an execution makes of the point "antes".
Sucede(pt, antes) ==
    /\ pt.status \notin {"nenhum", "PENDENTE"} /\ PontoOK(pt)
    /\ antes.status # "nenhum" => pt.versao = antes.versao
    /\ \A m \in Materiais : /\ pt.inst[m] >= antes.inst[m]
                            /\ pt.rec[m] >= antes.rec[m]
                            /\ pt.ext[m] >= antes.ext[m]

LEMMA ZeroConta == Zero \in Quantias /\ \A m \in Materiais : Zero[m] = 0
  BY DEF Zero, Quantias

LEMMA SemPontoOK == SemPonto \in Ponto /\ PontoOK(SemPonto) /\ SemPonto.status = "nenhum"
  BY ZeroConta, EdicoesNaturais DEF SemPonto, Ponto, PontoOK, Versoes, StatusPonto, Saldo, Adicionado

\* A point copied from the route is a pending one.
LEMMA CopiaOK ==
  ASSUME NEW v \in Versoes
  PROVE  /\ PontoDoModelo(v) \in Ponto /\ PontoOK(PontoDoModelo(v))
         /\ PontoDoModelo(v).status = "PENDENTE"
  <1> DEFINE x == PontoDoModelo(v)
  <1>1. /\ x.status = "PENDENTE" /\ x.inst = Zero /\ x.rec = Zero /\ x.ext = Zero
        /\ x \in Ponto
    BY ZeroConta DEF PontoDoModelo, SemPonto, Ponto, StatusPonto
  <1> HIDE DEF x
  <1>2. \A m \in Materiais : Saldo(x, m) = 0
    BY <1>1, ZeroConta DEF Saldo
  <1>3. PontoOK(x)
    BY <1>1, <1>2 DEF PontoOK
  <1> QED BY <1>1, <1>3 DEF x

\* Functions of quantities that differ differ at a material.
LEMMA Diferentes ==
  ASSUME NEW f \in Quantias, f # Zero
  PROVE  \E m \in Materiais : f[m] > 0
  <1>1. SUFFICES ASSUME \A m \in Materiais : ~(f[m] > 0) PROVE FALSE
    OBVIOUS
  <1>2. \A m \in Materiais : f[m] = 0
    BY <1>1 DEF Quantias
  <1> QED BY <1>2 DEF Quantias, Zero

LEMMA Instalado ==
  ASSUME NEW pt \in Ponto, PontoOK(pt), pt.status = "PENDENTE", NEW n \in Quantias, n # Zero
  PROVE  LET x == [pt EXCEPT !.status = "INSTALADO", !.inst = Mais(@, n)]
         IN x \in Ponto /\ Sucede(x, pt)
  <1> DEFINE x == [pt EXCEPT !.status = "INSTALADO", !.inst = Mais(@, n)]
  <1>1. /\ pt.inst = Zero /\ pt.rec = Zero /\ pt.ext = Zero
        /\ pt.inst \in Quantias /\ pt.rec \in Quantias /\ pt.ext \in Quantias
        /\ pt.versao \in Versoes \cup {Adicionado}
    BY DEF PontoOK, Ponto
  <1>2. Mais(pt.inst, n) \in Quantias /\ \A m \in Materiais : Mais(pt.inst, n)[m] = n[m]
    BY <1>1, ZeroConta DEF Mais, Quantias
  <1>3. x.status = "INSTALADO" /\ x.versao = pt.versao /\ x.inst = Mais(pt.inst, n)
        /\ x.rec = Zero /\ x.ext = Zero
    BY <1>1 DEF Ponto
  <1>4. x \in Ponto
    BY <1>2 DEF Ponto, StatusPonto
  <1> HIDE DEF x
  <1>5. \A m \in Materiais : Saldo(x, m) = n[m] /\ n[m] \in Nat
    BY <1>2, <1>3, ZeroConta DEF Saldo, Quantias
  <1>6. PICK m \in Materiais : n[m] > 0
    BY Diferentes
  <1>7. EmCampo(x) /\ x.inst # Zero
    BY <1>2, <1>3, <1>5, <1>6, ZeroConta DEF EmCampo
  <1>8. PontoOK(x)
    BY <1>3, <1>5, <1>7 DEF PontoOK
  <1>9. \A k \in Materiais : /\ x.inst[k] >= pt.inst[k] /\ x.rec[k] >= pt.rec[k]
                             /\ x.ext[k] >= pt.ext[k]
    BY <1>1, <1>2, <1>3, ZeroConta DEF Quantias
  <1>10. Sucede(x, pt)
    BY <1>3, <1>8, <1>9 DEF Sucede
  <1> QED BY <1>4, <1>10 DEF x

LEMMA InstaladoManual ==
  ASSUME NEW pt \in Ponto, PontoOK(pt), pt.status = "nenhum", NEW n \in Quantias, n # Zero
  PROVE  LET x == [SemPonto EXCEPT !.status = "INSTALADO", !.versao = Adicionado, !.inst = n]
         IN x \in Ponto /\ Sucede(x, pt)
  <1> DEFINE x == [SemPonto EXCEPT !.status = "INSTALADO", !.versao = Adicionado, !.inst = n]
  <1>1. pt.inst = Zero /\ pt.rec = Zero /\ pt.ext = Zero
    BY DEF PontoOK
  <1>2. x.status = "INSTALADO" /\ x.inst = n /\ x.rec = Zero /\ x.ext = Zero
    BY DEF SemPonto
  <1>3. x \in Ponto
    BY ZeroConta DEF SemPonto, Ponto, StatusPonto
  <1> HIDE DEF x
  <1>4. \A m \in Materiais : Saldo(x, m) = n[m] /\ n[m] \in Nat
    BY <1>2, ZeroConta DEF Saldo, Quantias
  <1>5. PICK m \in Materiais : n[m] > 0
    BY Diferentes
  <1>6. EmCampo(x) /\ x.inst # Zero
    BY <1>2, <1>4, <1>5, ZeroConta DEF EmCampo
  <1>7. PontoOK(x)
    BY <1>2, <1>4, <1>6 DEF PontoOK
  <1>8. \A k \in Materiais : /\ x.inst[k] >= pt.inst[k] /\ x.rec[k] >= pt.rec[k]
                             /\ x.ext[k] >= pt.ext[k]
    BY <1>1, <1>2, ZeroConta DEF Quantias
  <1>9. Sucede(x, pt)
    BY <1>2, <1>7, <1>8 DEF Sucede
  <1> QED BY <1>3, <1>9 DEF x

LEMMA Retirado ==
  ASSUME NEW pt \in Ponto, PontoOK(pt),
         pt.status \in {"INSTALADO", "RECOLHIDO_PARCIALMENTE", "COM_EXTRAVIO"},
         NEW r \in Quantias, NEW e \in Quantias,
         \A m \in Materiais : r[m] + e[m] <= Saldo(pt, m)
  PROVE  LET somado == [pt EXCEPT !.rec = Mais(@, r), !.ext = Mais(@, e)]
             x == [somado EXCEPT !.status = SituacaoDaRetirada(somado)]
         IN x \in Ponto /\ Sucede(x, pt)
  <1> DEFINE somado == [pt EXCEPT !.rec = Mais(@, r), !.ext = Mais(@, e)]
  <1> DEFINE x == [somado EXCEPT !.status = SituacaoDaRetirada(somado)]
  <1>1. /\ pt.inst # Zero
        /\ pt.inst \in Quantias /\ pt.rec \in Quantias /\ pt.ext \in Quantias
        /\ pt.versao \in Versoes \cup {Adicionado} /\ pt.status \in StatusPonto
    BY DEF PontoOK, Ponto
  <1>2. /\ Mais(pt.rec, r) \in Quantias /\ \A m \in Materiais : Mais(pt.rec, r)[m] = pt.rec[m] + r[m]
        /\ Mais(pt.ext, e) \in Quantias /\ \A m \in Materiais : Mais(pt.ext, e)[m] = pt.ext[m] + e[m]
    BY <1>1 DEF Mais, Quantias
  <1>3. /\ somado \in Ponto /\ somado.inst = pt.inst /\ somado.versao = pt.versao
        /\ somado.rec = Mais(pt.rec, r) /\ somado.ext = Mais(pt.ext, e)
    BY <1>1, <1>2 DEF Ponto
  <1>4. SituacaoDaRetirada(somado) \in {"COM_EXTRAVIO", "RECOLHIDO", "RECOLHIDO_PARCIALMENTE"}
    BY DEF SituacaoDaRetirada
  <1> HIDE DEF somado
  <1>5. /\ x \in Ponto /\ x.inst = pt.inst /\ x.versao = pt.versao
        /\ x.rec = Mais(pt.rec, r) /\ x.ext = Mais(pt.ext, e)
        /\ x.status = SituacaoDaRetirada(somado)
    BY <1>3, <1>4 DEF Ponto, StatusPonto
  <1> HIDE DEF x
  <1>6. \A m \in Materiais : Saldo(x, m) = Saldo(somado, m) /\ Saldo(x, m) >= 0
    BY <1>1, <1>2, <1>3, <1>5 DEF Saldo, Quantias
  <1>7. EmCampo(x) <=> EmCampo(somado)
    BY <1>6 DEF EmCampo
  <1>8. PontoOK(x)
    <2>1. x.status = "RECOLHIDO_PARCIALMENTE" => EmCampo(x)
      BY <1>5, <1>7 DEF SituacaoDaRetirada
    <2>2. x.status = "RECOLHIDO" => ~EmCampo(x)
      BY <1>5, <1>7 DEF SituacaoDaRetirada
    <2> QED BY <1>1, <1>4, <1>5, <1>6, <2>1, <2>2 DEF PontoOK
  <1>9. \A k \in Materiais : /\ x.inst[k] >= pt.inst[k] /\ x.rec[k] >= pt.rec[k]
                             /\ x.ext[k] >= pt.ext[k]
    BY <1>1, <1>2, <1>5 DEF Quantias
  <1>10. Sucede(x, pt)
    BY <1>4, <1>5, <1>8, <1>9 DEF Sucede
  <1> QED BY <1>5, <1>10 DEF x, somado

\* The count of update_operation_statuses counts the points that have something to
\* install or to withdraw.
LEMMA Pendencia ==
  ASSUME NEW pt \in Ponto, PontoOK(pt)
  PROVE  Pendente(pt) <=> pt.status # "nenhum" /\ ~(pt.inst # Zero /\ ~EmCampo(pt))
  BY DEF Pendente, PontoOK, Ponto, StatusPonto

LEMMA Conclusao ==
  ASSUME NEW pts \in [Posicoes -> Ponto], \A o \in Posicoes : PontoOK(pts[o])
  PROVE  SituacaoDoPlano(pts) =
             IF \A o \in {l \in Posicoes : pts[l].status # "nenhum"} :
                    pts[o].inst # Zero /\ ~EmCampo(pts[o])
             THEN "CONCLUIDA" ELSE "EM_EXECUCAO"
  <1>1. \A o \in Posicoes :
           Pendente(pts[o]) <=> pts[o].status # "nenhum" /\ ~(pts[o].inst # Zero /\ ~EmCampo(pts[o]))
    BY Pendencia
  <1> QED BY <1>1 DEF SituacaoDoPlano

(***************************************************************************)
(* The inductive invariant of field work.                                  *)
(***************************************************************************)
PassosExecucao == {"plano", "rota", "executar", "confirmar"}
PassosLista == {"travarPontos", "travarPlanos", "sincronizar"}
PassosEdicao == PassosLista \cup {"substituir"}
ComAlvo == PassosExecucao \cup {"copiar", "gravar"}
Trabalhados == {"EM_EXECUCAO", "CONCLUIDA"}

\* What a request works on, at each statement.
FormaDe(q) ==
    /\ alvo[q] \in Planejamentos <=> pc[q] \in ComAlvo
    /\ pc[q] \in PassosExecucao => chave[q] \in Chaves
    /\ pc[q] \in {"plano", "rota", "executar"} /\ oper[q] \in {"instalar", "retirar"} =>
           local[q] \in Posicoes
    /\ pc[q] \in PassosEdicao <=> oper[q] \in {"nome", "pontos"}
    /\ pc[q] = "gravar" => novo[q] \in StatusPlano
    /\ pc[q] \in PassosEdicao => Feitas < MaxEdicoes

\* A request that creates a planning, which is not there, has it for itself.
AlvoDe(q) ==
    alvo[q] \in Planejamentos =>
        /\ pc[q] = "copiar" <=> ~ExisteCampo(alvo[q])
        /\ pc[q] = "copiar" => \A s \in Outras(q) : alvo[s] # alvo[q]

\* The locks are kept apart.
TravasDe(q) ==
    \A s \in Outras(q) :
        /\ TemRota(q) => ~TemRota(s) /\ ~TemCopia(s)
        /\ \A p \in Planejamentos : ~(TemPlano(q, p) /\ TemPlano(s, p))

\* An edit synchronizes every planning that follows the route, and none that was
\* started; a copy has the header of the route it copies the points of.
ListaDe(q) ==
    /\ pc[q] \in PassosLista =>
          \A p \in Planejamentos : NaoIniciado(p) /\ plano[p].quem # "revivido" => p \in ids[q]
    /\ pc[q] = "sincronizar" => \A p \in ids[q] : NaoIniciado(p)
    /\ pc[q] = "copiar" => lido[q] = modelo.nome

\* An update that writes the status of a started planning has read it there.
GravarDe(q) ==
    pc[q] = "gravar" /\ novo[q] \in Trabalhados => ExecucoesDe(alvo[q]) # {}

\* An execution about to commit has computed its rows from those still there.
ConfirmarDe(q) ==
    pc[q] = "confirmar" =>
        /\ local[q] \in Posicoes
        /\ Liberado(alvo[q])
        /\ novo[q] = SituacaoDoPlano([ponto[alvo[q]] EXCEPT ![local[q]] = linha[q]])
        /\ Sucede(linha[q], ponto[alvo[q]][local[q]])

PedidosCampo ==
    \A q \in RequisicoesCampo : /\ FormaDe(q) /\ AlvoDe(q) /\ TravasDe(q)
                                /\ ListaDe(q) /\ GravarDe(q) /\ ConfirmarDe(q)

TabelasCampo ==
    /\ \A k \in Chaves : execucao[k].tipo = "nenhuma" => execucao[k].plano = NadaCampo
    /\ \A p \in Planejamentos, o \in Posicoes : PontoOK(ponto[p][o])
    /\ \A p \in Planejamentos :
          /\ ~ExisteCampo(p) => Pontos(p) = {} /\ ExecucoesDe(p) = {}
          /\ plano[p].status \in Trabalhados \/ plano[p].quem = "execucao" => ExecucoesDe(p) # {}
          /\ ExecucoesDe(p) = {} => \A o \in Pontos(p) : ponto[p][o].status = "PENDENTE"

IInvCampo == TypeOKCampo /\ PedidosCampo /\ TabelasCampo /\ PlanejamentoConfere

(***************************************************************************)
(* Steps: a request goes on and the tables stay, or it ends.               *)
(***************************************************************************)
Entra(q) ==
    \/ IniciarExecucao(q) \/ IniciarManual(q) \/ CopiarCabecalho(q) \/ LerPlanejamento(q)
    \/ EditarNome(q) \/ EditarPontos(q) \/ TravarPlano(q) \/ TravarRota(q)
    \/ Instalar(q) \/ Retirar(q) \/ InstalarManual(q)
    \/ SubstituirPontos(q) \/ TravarPontos(q) \/ TravarPlanos(q)

Grava(q) == \/ Confirmar(q) \/ CopiarPontos(q) \/ GravarPlanejamento(q)
            \/ SincronizarNome(q) \/ SincronizarPontos(q)

LEMMA PassosCampoSao ==
  ASSUME NEW q \in RequisicoesCampo, Iniciar(q) \/ Travar(q) \/ Concluir(q) \/ QuebrarImpasse(q)
  PROVE  \/ Entra(q) /\ UNCHANGED tabelas
         \/ Libera(q) /\ (Grava(q) \/ UNCHANGED tabelas)
  <1>1. IniciarExecucao(q) \/ IniciarManual(q) \/ CopiarCabecalho(q) \/ LerPlanejamento(q)
        \/ EditarNome(q) \/ EditarPontos(q) => UNCHANGED tabelas
    BY DEF IniciarExecucao, IniciarManual, CopiarCabecalho, LerPlanejamento, EditarNome,
           EditarPontos, tabelas
  <1>2. TravarPlano(q) \/ TravarRota(q) \/ SubstituirPontos(q) \/ TravarPontos(q)
        \/ TravarPlanos(q) => UNCHANGED tabelas
    BY DEF TravarPlano, TravarRota, SubstituirPontos, TravarPontos, TravarPlanos, tabelas
  <1>3. Instalar(q) \/ Retirar(q) \/ InstalarManual(q) => UNCHANGED tabelas
    BY DEF Instalar, Retirar, InstalarManual, Preparar, tabelas
  <1>4. Grava(q) => Libera(q)
    BY DEF Grava, Confirmar, CopiarPontos, GravarPlanejamento, SincronizarNome, SincronizarPontos
  <1>5. RecusarCampo(q) \/ QuebrarImpasse(q) => Libera(q) /\ UNCHANGED tabelas
    BY DEF RecusarCampo, QuebrarImpasse
  <1> QED BY <1>1, <1>2, <1>3, <1>4, <1>5
          DEF Iniciar, Travar, Concluir, Executar, Entra, Grava

\* A step of a request leaves every other request as it is.
Alheia(s) ==
    /\ pc'[s] = pc[s] /\ oper'[s] = oper[s] /\ chave'[s] = chave[s] /\ alvo'[s] = alvo[s]
    /\ local'[s] = local[s] /\ linha'[s] = linha[s] /\ novo'[s] = novo[s]
    /\ lido'[s] = lido[s] /\ ids'[s] = ids[s]

LEMMA AlheiasFicam ==
  ASSUME TypeOKCampo, NEW q \in RequisicoesCampo, Entra(q) \/ Libera(q), NEW s \in Outras(q)
  PROVE  Alheia(s)
  <1> USE DEF TypeOKCampo, Outras, Alheia, Recebe, Segue, Listar, Preparar, pedido
  <1>1. CASE Libera(q)
    BY <1>1 DEF Libera
  <1>2. CASE IniciarExecucao(q)
    BY <1>2 DEF IniciarExecucao
  <1>3. CASE IniciarManual(q)
    BY <1>3 DEF IniciarManual
  <1>4. CASE CopiarCabecalho(q)
    BY <1>4 DEF CopiarCabecalho
  <1>5. CASE LerPlanejamento(q)
    BY <1>5 DEF LerPlanejamento
  <1>6. CASE EditarNome(q)
    BY <1>6 DEF EditarNome
  <1>7. CASE EditarPontos(q)
    BY <1>7 DEF EditarPontos
  <1>8. CASE TravarPlano(q)
    BY <1>8 DEF TravarPlano
  <1>9. CASE TravarRota(q)
    BY <1>9 DEF TravarRota
  <1>10. CASE Instalar(q)
    BY <1>10 DEF Instalar
  <1>11. CASE Retirar(q)
    BY <1>11 DEF Retirar
  <1>12. CASE InstalarManual(q)
    BY <1>12 DEF InstalarManual
  <1>13. CASE SubstituirPontos(q)
    BY <1>13 DEF SubstituirPontos
  <1>14. CASE TravarPontos(q)
    BY <1>14 DEF TravarPontos
  <1>15. CASE TravarPlanos(q)
    BY <1>15 DEF TravarPlanos
  <1> QED BY <1>1, <1>2, <1>3, <1>4, <1>5, <1>6, <1>7, <1>8, <1>9, <1>10, <1>11, <1>12,
             <1>13, <1>14, <1>15 DEF Entra

LEMMA LiberaDeixa ==
  ASSUME TypeOKCampo, NEW q \in RequisicoesCampo, Libera(q)
  PROVE  /\ pc'[q] = "livre" /\ oper'[q] = "nenhuma" /\ alvo'[q] = NadaCampo /\ ids'[q] = {}
         /\ pc' \in [RequisicoesCampo -> PassosCampo]
         /\ oper' \in [RequisicoesCampo -> Operacoes]
         /\ chave' \in [RequisicoesCampo -> Chaves \cup {NadaCampo}]
         /\ alvo' \in [RequisicoesCampo -> Planejamentos \cup {NadaCampo}]
         /\ local' \in [RequisicoesCampo -> Posicoes \cup {NadaCampo}]
         /\ linha' \in [RequisicoesCampo -> Ponto]
         /\ novo' \in [RequisicoesCampo -> StatusPlano \cup {"nada"}]
         /\ lido' \in [RequisicoesCampo -> Versoes]
         /\ ids' \in [RequisicoesCampo -> SUBSET Planejamentos]
  BY SemPontoOK, EdicoesNaturais DEF TypeOKCampo, Libera, PassosCampo, Operacoes, Versoes

(***************************************************************************)
(* A request that goes on.                                                 *)
(***************************************************************************)
LEMMA FeitasTipo ==
  ASSUME TypeOKCampo
  PROVE  Feitas \in Versoes /\ Feitas \in Nat
  BY EdicoesNaturais DEF TypeOKCampo, Modelo, Feitas, Versoes

\* An edit in progress has a version left for it.
LEMMA EdicaoCabe ==
  ASSUME TypeOKCampo, Feitas + Cardinality(Editando) < MaxEdicoes
  PROVE  Feitas < MaxEdicoes
  <1>1. Cardinality(Editando) \in Nat
    BY RequisicoesCampoContaveis, FS_Subset, FS_CardinalityType DEF Editando
  <1> QED BY <1>1, FeitasTipo, EdicoesNaturais

\* The rows that an execution is going to leave.
LEMMA PrepararDeixa ==
  ASSUME TypeOKCampo, NEW q \in RequisicoesCampo, alvo[q] \in Planejamentos,
         NEW o \in Posicoes, NEW pt \in Ponto, Preparar(q, o, pt),
         Sucede(pt, ponto[alvo[q]][o]), Liberado(alvo[q])
  PROVE  /\ local' \in [RequisicoesCampo -> Posicoes \cup {NadaCampo}]
         /\ linha' \in [RequisicoesCampo -> Ponto]
         /\ novo' \in [RequisicoesCampo -> StatusPlano \cup {"nada"}]
         /\ pc' \in [RequisicoesCampo -> PassosCampo]
         /\ pc'[q] = "confirmar"
         /\ ConfirmarDe(q)'
  <1>1. /\ local'[q] = o /\ linha'[q] = pt /\ pc'[q] = "confirmar" /\ alvo' = alvo
        /\ novo'[q] = SituacaoDoPlano([ponto[alvo[q]] EXCEPT ![o] = pt])
        /\ ponto' = ponto /\ plano' = plano
    BY DEF TypeOKCampo, Preparar, tabelas
  <1>2. SituacaoDoPlano([ponto[alvo[q]] EXCEPT ![o] = pt]) \in StatusPlano
    BY DEF SituacaoDoPlano, StatusPlano
  <1>3. ConfirmarDe(q)'
    BY <1>1 DEF ConfirmarDe, Liberado
  <1> QED BY <1>1, <1>2, <1>3 DEF TypeOKCampo, Preparar, PassosCampo

LEMMA InstalarDeixa ==
  ASSUME TypeOKCampo, TabelasCampo, NEW q \in RequisicoesCampo, FormaDe(q), Instalar(q)
  PROVE  /\ local' \in [RequisicoesCampo -> Posicoes \cup {NadaCampo}]
         /\ linha' \in [RequisicoesCampo -> Ponto]
         /\ novo' \in [RequisicoesCampo -> StatusPlano \cup {"nada"}]
         /\ pc' \in [RequisicoesCampo -> PassosCampo]
         /\ pc'[q] = "confirmar"
         /\ ConfirmarDe(q)'
         /\ UNCHANGED <<oper, chave, alvo, lido, ids>>
  <1>1. alvo[q] \in Planejamentos /\ local[q] \in Posicoes
    BY DEF FormaDe, Instalar, ComAlvo, PassosExecucao
  <1>2. ponto[alvo[q]][local[q]] \in Ponto /\ PontoOK(ponto[alvo[q]][local[q]])
    BY <1>1 DEF TypeOKCampo, TabelasCampo
  <1>3. PICK n \in [Materiais -> AInstalar] \ {Zero} :
           Preparar(q, local[q], [ponto[alvo[q]][local[q]] EXCEPT !.status = "INSTALADO",
                                                                 !.inst = Mais(@, n)])
    BY DEF Instalar
  <1>4. n \in Quantias /\ n # Zero
    BY QuantidadesNaturais DEF Quantias
  <1> DEFINE x == [ponto[alvo[q]][local[q]] EXCEPT !.status = "INSTALADO", !.inst = Mais(@, n)]
  <1>5. ponto[alvo[q]][local[q]].status = "PENDENTE" /\ Liberado(alvo[q])
    BY DEF Instalar
  <1>6. x \in Ponto /\ Sucede(x, ponto[alvo[q]][local[q]])
    BY <1>2, <1>4, <1>5, Instalado
  <1>7. Preparar(q, local[q], x)
    BY <1>3
  <1>8. UNCHANGED <<oper, chave, alvo, lido, ids>>
    BY <1>7 DEF Preparar
  <1> HIDE DEF x
  <1> QED BY <1>1, <1>5, <1>6, <1>7, <1>8, PrepararDeixa

LEMMA RetirarDeixa ==
  ASSUME TypeOKCampo, TabelasCampo, NEW q \in RequisicoesCampo, FormaDe(q), Retirar(q)
  PROVE  /\ local' \in [RequisicoesCampo -> Posicoes \cup {NadaCampo}]
         /\ linha' \in [RequisicoesCampo -> Ponto]
         /\ novo' \in [RequisicoesCampo -> StatusPlano \cup {"nada"}]
         /\ pc' \in [RequisicoesCampo -> PassosCampo]
         /\ pc'[q] = "confirmar"
         /\ ConfirmarDe(q)'
         /\ UNCHANGED <<oper, chave, alvo, lido, ids>>
  <1>1. alvo[q] \in Planejamentos /\ local[q] \in Posicoes
    BY DEF FormaDe, Retirar, ComAlvo, PassosExecucao
  <1> DEFINE pt == ponto[alvo[q]][local[q]]
  <1>2. pt \in Ponto /\ PontoOK(pt)
    BY <1>1 DEF TypeOKCampo, TabelasCampo
  <1>3. PICK r \in [Materiais -> ARetirar], e \in [Materiais -> ARetirar] :
           /\ \A m \in Materiais : r[m] + e[m] <= Saldo(pt, m)
           /\ LET somado == [pt EXCEPT !.rec = Mais(@, r), !.ext = Mais(@, e)]
              IN Preparar(q, local[q], [somado EXCEPT !.status = SituacaoDaRetirada(somado)])
    BY DEF Retirar
  <1>4. r \in Quantias /\ e \in Quantias
    BY QuantidadesNaturais DEF Quantias
  <1>5. /\ pt.status \in {"INSTALADO", "RECOLHIDO_PARCIALMENTE", "COM_EXTRAVIO"}
        /\ Liberado(alvo[q])
    BY DEF Retirar, Liberado
  <1> DEFINE somado == [pt EXCEPT !.rec = Mais(@, r), !.ext = Mais(@, e)]
  <1> DEFINE x == [somado EXCEPT !.status = SituacaoDaRetirada(somado)]
  <1>6. Preparar(q, local[q], x)
    BY <1>3
  <1>7. \A m \in Materiais : r[m] + e[m] <= Saldo(pt, m)
    BY <1>3
  <1> HIDE DEF pt
  <1>8. x \in Ponto /\ Sucede(x, pt)
    BY <1>2, <1>7, <1>4, <1>5, Retirado
  <1> HIDE DEF x
  <1>9. UNCHANGED <<oper, chave, alvo, lido, ids>>
    BY <1>6 DEF Preparar
  <1>10. Sucede(x, ponto[alvo[q]][local[q]])
    BY <1>8 DEF pt
  <1> QED BY <1>1, <1>5, <1>8, <1>6, <1>9, <1>10, PrepararDeixa

LEMMA InstalarManualDeixa ==
  ASSUME TypeOKCampo, TabelasCampo, NEW q \in RequisicoesCampo, FormaDe(q), InstalarManual(q)
  PROVE  /\ local' \in [RequisicoesCampo -> Posicoes \cup {NadaCampo}]
         /\ linha' \in [RequisicoesCampo -> Ponto]
         /\ novo' \in [RequisicoesCampo -> StatusPlano \cup {"nada"}]
         /\ pc' \in [RequisicoesCampo -> PassosCampo]
         /\ pc'[q] = "confirmar"
         /\ ConfirmarDe(q)'
         /\ UNCHANGED <<oper, chave, alvo, lido, ids>>
  <1>1. alvo[q] \in Planejamentos /\ Liberado(alvo[q])
    BY DEF FormaDe, InstalarManual, ComAlvo, PassosExecucao
  <1>2. PICK o \in Ultima(alvo[q]), n \in [Materiais -> AInstalar] \ {Zero} :
           Preparar(q, o, [SemPonto EXCEPT !.status = "INSTALADO", !.versao = Adicionado,
                                           !.inst = n])
    BY DEF InstalarManual
  <1>3. n \in Quantias /\ n # Zero
    BY QuantidadesNaturais DEF Quantias
  <1>4. o \in Posicoes /\ ponto[alvo[q]][o].status = "nenhum"
    <2>1. o \in Posicoes /\ \A l \in Pontos(alvo[q]) : o > l
      BY DEF Ultima
    <2>2. o \in Nat
      BY <2>1, PosicoesOrdenadas
    <2> QED BY <2>1, <2>2 DEF Pontos
  <1>5. ponto[alvo[q]][o] \in Ponto /\ PontoOK(ponto[alvo[q]][o])
    BY <1>1, <1>4 DEF TypeOKCampo, TabelasCampo
  <1> DEFINE x == [SemPonto EXCEPT !.status = "INSTALADO", !.versao = Adicionado, !.inst = n]
  <1>6. x \in Ponto /\ Sucede(x, ponto[alvo[q]][o])
    BY <1>5, <1>3, <1>4, InstaladoManual
  <1>7. Preparar(q, o, x)
    BY <1>2
  <1> HIDE DEF x
  <1>8. UNCHANGED <<oper, chave, alvo, lido, ids>>
    BY <1>7 DEF Preparar
  <1> QED BY <1>1, <1>4, <1>6, <1>7, <1>8, PrepararDeixa

LEMMA EntraTipo ==
  ASSUME TypeOKCampo, TabelasCampo, NEW q \in RequisicoesCampo, FormaDe(q), Entra(q),
         UNCHANGED tabelas
  PROVE  TypeOKCampo'
  <1> USE DEF TypeOKCampo, Recebe, Segue, Listar, pedido, tabelas, PassosCampo, Operacoes
  <1>1. CASE IniciarExecucao(q)
    BY <1>1 DEF IniciarExecucao, Oferecidas
  <1>2. CASE IniciarManual(q)
    BY <1>2 DEF IniciarManual, Oferecidas
  <1>3. CASE CopiarCabecalho(q)
    BY <1>3 DEF CopiarCabecalho, Modelo
  <1>4. CASE LerPlanejamento(q)
    BY <1>4 DEF LerPlanejamento
  <1>5. CASE EditarNome(q)
    BY <1>5 DEF EditarNome
  <1>6. CASE EditarPontos(q)
    BY <1>6 DEF EditarPontos
  <1>7. CASE TravarPlano(q) \/ TravarRota(q)
    BY <1>7 DEF TravarPlano, TravarRota
  <1>8. CASE Instalar(q)
    BY <1>8, InstalarDeixa
  <1>9. CASE Retirar(q)
    BY <1>9, RetirarDeixa
  <1>10. CASE InstalarManual(q)
    BY <1>10, InstalarManualDeixa
  <1>11. CASE SubstituirPontos(q)
    BY <1>11 DEF SubstituirPontos
  <1>12. CASE TravarPontos(q)
    BY <1>12 DEF TravarPontos
  <1>13. CASE TravarPlanos(q)
    BY <1>13 DEF TravarPlanos, Revalidados
  <1> QED BY <1>1, <1>2, <1>3, <1>4, <1>5, <1>6, <1>7, <1>8, <1>9, <1>10, <1>11, <1>12, <1>13
          DEF Entra

\* What does not depend on the other requests.
LEMMA EntraPropria ==
  ASSUME TypeOKCampo, TabelasCampo, NEW q \in RequisicoesCampo,
         FormaDe(q), AlvoDe(q), ListaDe(q), GravarDe(q), Entra(q), UNCHANGED tabelas
  PROVE  (FormaDe(q) /\ ListaDe(q) /\ GravarDe(q) /\ ConfirmarDe(q))'
  <1>1. Feitas' = Feitas
    BY DEF Feitas, tabelas
  <1> USE DEF TypeOKCampo, Recebe, Segue, pedido, tabelas, PassosExecucao, PassosEdicao,
              PassosLista, ComAlvo, Trabalhados
  <1>2. CASE IniciarExecucao(q)
    <2>1. \E o \in {"instalar", "retirar"} : \E k \in Chaves : \E p \in Planejamentos :
             \E l \in Posicoes :
                /\ Recebe(q, "plano", o, p)
                /\ chave' = [chave EXCEPT ![q] = k] /\ local' = [local EXCEPT ![q] = l]
      <3> HIDE DEF TypeOKCampo, Recebe
      <3> QED BY <1>2 DEF IniciarExecucao, Oferecidas
    <2>2. PICK o \in {"instalar", "retirar"}, k \in Chaves, p \in Planejamentos, l \in Posicoes :
                /\ Recebe(q, "plano", o, p)
                /\ chave' = [chave EXCEPT ![q] = k] /\ local' = [local EXCEPT ![q] = l]
      <3> HIDE DEF TypeOKCampo, Recebe
      <3> QED BY <2>1
    <2> QED BY <2>2, <1>1 DEF FormaDe, ListaDe, GravarDe, ConfirmarDe
  <1>3. CASE IniciarManual(q)
    <2>1. PICK k \in Chaves, p \in Planejamentos :
             /\ pc' = [pc EXCEPT ![q] = "rota"] /\ oper' = [oper EXCEPT ![q] = "manual"]
             /\ alvo' = [alvo EXCEPT ![q] = p] /\ chave' = [chave EXCEPT ![q] = k]
      BY <1>3 DEF IniciarManual, Oferecidas
    <2> QED BY <2>1, <1>1 DEF FormaDe, ListaDe, GravarDe, ConfirmarDe
  <1>4. CASE CopiarCabecalho(q)
    <2>1. PICK p \in Planejamentos :
             /\ pc' = [pc EXCEPT ![q] = "copiar"] /\ oper' = [oper EXCEPT ![q] = "planejar"]
             /\ alvo' = [alvo EXCEPT ![q] = p] /\ lido' = [lido EXCEPT ![q] = modelo.nome]
      BY <1>4 DEF CopiarCabecalho
    <2> QED BY <2>1, <1>1 DEF FormaDe, ListaDe, GravarDe, ConfirmarDe
  <1>5. CASE LerPlanejamento(q)
    <2>1. PICK p \in Planejamentos, s \in StatusPlano :
             /\ s \in Permitidos(plano[p].status) /\ ExisteCampo(p)
             /\ pc' = [pc EXCEPT ![q] = "gravar"] /\ oper' = [oper EXCEPT ![q] = "alterar"]
             /\ alvo' = [alvo EXCEPT ![q] = p] /\ novo' = [novo EXCEPT ![q] = s]
      BY <1>5 DEF LerPlanejamento
    <2>2. plano[p] \in Plano
      OBVIOUS
    <2>3. s \in Trabalhados => plano[p].status \in Trabalhados
      BY <2>1, <2>2 DEF Permitidos, Plano, StatusPlano, ExisteCampo
    <2>4. s \in Trabalhados => ExecucoesDe(p) # {}
      BY <2>3 DEF TabelasCampo
    <2>5. ExecucoesDe(p)' = ExecucoesDe(p)
      BY DEF ExecucoesDe
    <2> QED BY <2>1, <2>4, <2>5, <1>1 DEF FormaDe, ListaDe, GravarDe, ConfirmarDe
  <1>6. ASSUME NEW n \in PassosLista, Listar(q, n), n # "sincronizar",
               oper'[q] \in {"nome", "pontos"}, alvo'[q] \notin Planejamentos, Feitas < MaxEdicoes
        PROVE  (FormaDe(q) /\ ListaDe(q) /\ GravarDe(q) /\ ConfirmarDe(q))'
    <2>1. /\ pc'[q] = n /\ ids'[q] = {p \in Planejamentos : NaoIniciado(p)}
      BY <1>6 DEF Listar
    <2>2. \A p \in Planejamentos : NaoIniciado(p)' <=> NaoIniciado(p)
      BY DEF NaoIniciado, ExecucoesDe
    <2> QED BY <1>6, <2>1, <2>2, <1>1 DEF FormaDe, ListaDe, GravarDe, ConfirmarDe
  <1>7. CASE EditarNome(q)
    <2>1. alvo'[q] \notin Planejamentos
      BY <1>7 DEF EditarNome, FormaDe
    <2> QED BY <1>7, <1>6, <2>1, EdicaoCabe DEF EditarNome
  <1>8. CASE EditarPontos(q)
    BY <1>8, <1>1, EdicaoCabe, NadaForaDosDominios
       DEF EditarPontos, FormaDe, ListaDe, GravarDe, ConfirmarDe
  <1>9. CASE TravarPlano(q) \/ TravarRota(q)
    <2>1. /\ pc'[q] \in {"rota", "executar"} /\ alvo' = alvo /\ local' = local /\ chave' = chave
          /\ oper' = oper /\ pc[q] \in {"plano", "rota"}
      BY <1>9 DEF TravarPlano, TravarRota
    <2> QED BY <2>1, <1>1 DEF FormaDe, ListaDe, GravarDe, ConfirmarDe
  <1>10. ASSUME pc'[q] = "confirmar", pc[q] = "executar", UNCHANGED <<oper, chave, alvo, lido, ids>>,
                ConfirmarDe(q)'
         PROVE  (FormaDe(q) /\ ListaDe(q) /\ GravarDe(q) /\ ConfirmarDe(q))'
    BY <1>10, <1>1 DEF FormaDe, ListaDe, GravarDe
  <1>11. CASE Instalar(q)
    <2>1. pc[q] = "executar"
      BY <1>11 DEF Instalar
    <2> QED BY <1>11, <1>10, <2>1, InstalarDeixa
  <1>12. CASE Retirar(q)
    <2>1. pc[q] = "executar"
      BY <1>12 DEF Retirar
    <2> QED BY <1>12, <1>10, <2>1, RetirarDeixa
  <1>13. CASE InstalarManual(q)
    <2>1. pc[q] = "executar"
      BY <1>13 DEF InstalarManual
    <2> QED BY <1>13, <1>10, <2>1, InstalarManualDeixa
  <1>14. CASE SubstituirPontos(q)
    <2>1. /\ Listar(q, "travarPontos") /\ oper'[q] = oper[q] /\ alvo'[q] = alvo[q]
          /\ pc[q] = "substituir"
      BY <1>14 DEF SubstituirPontos
    <2>2. /\ oper'[q] \in {"nome", "pontos"} /\ alvo'[q] \notin Planejamentos
          /\ Feitas < MaxEdicoes
      BY <2>1 DEF FormaDe
    <2> QED BY <2>1, <2>2, <1>6
  <1>15. CASE TravarPontos(q)
    <2>1. /\ pc'[q] = "travarPlanos" /\ pc[q] = "travarPontos"
          /\ oper' = oper /\ alvo' = alvo /\ ids' = ids
      BY <1>15 DEF TravarPontos
    <2>2. \A p \in Planejamentos : NaoIniciado(p)' <=> NaoIniciado(p)
      BY DEF NaoIniciado, ExecucoesDe
    <2> QED BY <2>1, <2>2, <1>1 DEF FormaDe, ListaDe, GravarDe, ConfirmarDe
  <1>16. CASE TravarPlanos(q)
    <2>1. /\ pc'[q] = "sincronizar" /\ pc[q] = "travarPlanos"
          /\ oper' = oper /\ alvo' = alvo /\ ids'[q] = {p \in ids[q] : NaoIniciado(p)}
          /\ ids[q] \subseteq Planejamentos
      BY <1>16 DEF TravarPlanos, Revalidados
    <2>2. \A p \in Planejamentos : NaoIniciado(p)' <=> NaoIniciado(p)
      BY DEF NaoIniciado, ExecucoesDe
    <2> QED BY <2>1, <2>2, <1>1 DEF FormaDe, ListaDe, GravarDe, ConfirmarDe
  <1> QED BY <1>2, <1>3, <1>4, <1>5, <1>7, <1>8, <1>9, <1>11, <1>12, <1>13, <1>14, <1>15, <1>16
          DEF Entra

\* A request gets a lock when nobody else has it.
LEMMA EntraTrava ==
  ASSUME TypeOKCampo, NEW q \in RequisicoesCampo, Entra(q)
  PROVE  /\ TemRota(q)' => TemRota(q) \/ RotaLivre(q)
         /\ TemCopia(q)' => SemEdicao(q)
         /\ \A p \in Planejamentos : TemPlano(q, p)' => TemPlano(q, p) \/ PlanoLivre(q, p)
  <1> USE DEF TypeOKCampo, Recebe, Segue, Listar, Preparar, pedido, TemRota, TemCopia, TemPlano
  <1> HIDE DEF RotaLivre, PlanoLivre, SemEdicao
  <1>1. CASE IniciarExecucao(q) \/ LerPlanejamento(q)
    <2>1. pc'[q] \in {"plano", "gravar"}
      BY <1>1 DEF IniciarExecucao, LerPlanejamento
    <2> QED BY <2>1
  <1>2. CASE IniciarManual(q)
    <2>1. PICK p \in Planejamentos : PlanoLivre(q, p) /\ pc'[q] = "rota" /\ alvo'[q] = p
      BY <1>2 DEF IniciarManual
    <2> QED BY <2>1
  <1>3. CASE CopiarCabecalho(q)
    <2>1. pc'[q] = "copiar" /\ SemEdicao(q)
      BY <1>3 DEF CopiarCabecalho
    <2> QED BY <2>1
  <1>4. CASE EditarNome(q) \/ EditarPontos(q)
    <2>1. pc'[q] \in {"travarPontos", "substituir"} /\ RotaLivre(q)
      BY <1>4 DEF EditarNome, EditarPontos
    <2> QED BY <2>1
  <1>5. CASE TravarPlano(q)
    <2>1. pc'[q] = "rota" /\ alvo' = alvo /\ PlanoLivre(q, alvo[q])
      BY <1>5 DEF TravarPlano
    <2> QED BY <2>1
  <1>6. CASE TravarRota(q)
    <2>1. pc'[q] = "executar" /\ pc[q] = "rota" /\ alvo' = alvo /\ RotaLivre(q)
      BY <1>6 DEF TravarRota
    <2> QED BY <2>1
  <1>7. CASE Instalar(q) \/ Retirar(q) \/ InstalarManual(q)
    <2>1. pc'[q] = "confirmar" /\ pc[q] = "executar" /\ alvo' = alvo
      BY <1>7 DEF Instalar, Retirar, InstalarManual
    <2> QED BY <2>1
  <1>8. CASE SubstituirPontos(q) \/ TravarPontos(q)
    <2>1. /\ pc'[q] \in {"travarPontos", "travarPlanos"} /\ alvo' = alvo
          /\ pc[q] \in {"substituir", "travarPontos"}
      BY <1>8 DEF SubstituirPontos, TravarPontos
    <2> QED BY <2>1
  <1>9. CASE TravarPlanos(q)
    <2>1. /\ pc'[q] = "sincronizar" /\ pc[q] = "travarPlanos" /\ ids'[q] = Revalidados(q)
          /\ \A p \in Revalidados(q) : PlanoLivre(q, p)
      BY <1>9 DEF TravarPlanos
    <2> QED BY <2>1
  <1> QED BY <1>1, <1>2, <1>3, <1>4, <1>5, <1>6, <1>7, <1>8, <1>9 DEF Entra

LEMMA EntraTravas ==
  ASSUME TypeOKCampo, PedidosCampo, NEW q \in RequisicoesCampo, Entra(q),
         NEW s \in RequisicoesCampo
  PROVE  TravasDe(s)'
  <1>1. \A t \in Outras(q) : Alheia(t)
    BY AlheiasFicam
  <1>2. \A t \in Outras(q) : /\ TemRota(t)' = TemRota(t) /\ TemCopia(t)' = TemCopia(t)
                             /\ \A p \in Planejamentos : TemPlano(t, p)' = TemPlano(t, p)
    BY <1>1 DEF Alheia, TemRota, TemCopia, TemPlano
  <1>3. /\ TemRota(q)' => TemRota(q) \/ RotaLivre(q)
        /\ TemCopia(q)' => SemEdicao(q)
        /\ \A p \in Planejamentos : TemPlano(q, p)' => TemPlano(q, p) \/ PlanoLivre(q, p)
    BY EntraTrava
  <1>4. \A t \in RequisicoesCampo : TravasDe(t)
    BY DEF PedidosCampo
  <1>5. ASSUME NEW t \in Outras(q)
        PROVE  /\ TemRota(q)' => ~TemRota(t) /\ ~TemCopia(t)
               /\ TemRota(t) => ~TemRota(q)' /\ ~TemCopia(q)'
               /\ \A p \in Planejamentos : ~(TemPlano(q, p)' /\ TemPlano(t, p))
    BY <1>3, <1>4 DEF TravasDe, RotaLivre, SemEdicao, PlanoLivre, Outras
  <1>6. CASE s = q
    BY <1>2, <1>5, <1>6 DEF TravasDe
  <1>7. CASE s # q
    <2>1. s \in Outras(q)
      BY <1>7 DEF Outras
    <2>2. ASSUME NEW t \in Outras(s)
          PROVE  /\ TemRota(s)' => ~TemRota(t)' /\ ~TemCopia(t)'
                 /\ \A p \in Planejamentos : ~(TemPlano(s, p)' /\ TemPlano(t, p)')
      <3>1. CASE t = q
        BY <1>2, <1>5, <2>1, <3>1
      <3>2. CASE t # q
        <4>1. t \in Outras(q)
          BY <3>2 DEF Outras
        <4> QED BY <1>2, <1>4, <2>1, <4>1 DEF TravasDe
      <3> QED BY <3>1, <3>2
    <2> QED BY <2>2 DEF TravasDe, Outras
  <1> QED BY <1>6, <1>7

\* A request starts to work on a planning that is there, or creates one that is not.
LEMMA EntraAlvo ==
  ASSUME TypeOKCampo, TabelasCampo, NEW q \in RequisicoesCampo, Entra(q), FormaDe(q)
  PROVE  \/ alvo'[q] = alvo[q] /\ pc[q] # "copiar" /\ pc'[q] # "copiar"
         \/ pc'[q] # "copiar" /\ (alvo'[q] \in Planejamentos => ExisteCampo(alvo'[q]))
         \/ /\ pc'[q] = "copiar" /\ ~ExisteCampo(alvo'[q])
            /\ \A s \in Outras(q) : alvo[s] # alvo'[q]
  <1> USE DEF TypeOKCampo, Recebe, Segue, Listar, Preparar, pedido
  <1>1. CASE IniciarExecucao(q)
    <2>1. PICK p \in Planejamentos, l \in Posicoes :
             l \in Pontos(p) /\ pc'[q] = "plano" /\ alvo'[q] = p
      BY <1>1 DEF IniciarExecucao
    <2> QED BY <2>1 DEF TabelasCampo
  <1>2. CASE IniciarManual(q)
    <2>1. PICK p \in Planejamentos : Liberado(p) /\ pc'[q] = "rota" /\ alvo'[q] = p
      BY <1>2 DEF IniciarManual
    <2> QED BY <2>1 DEF Liberado, ExisteCampo
  <1>3. CASE CopiarCabecalho(q)
    BY <1>3 DEF CopiarCabecalho
  <1>4. CASE LerPlanejamento(q)
    BY <1>4 DEF LerPlanejamento
  <1>5. CASE EditarNome(q)
    <2>1. pc'[q] = "travarPontos" /\ alvo' = alvo /\ pc[q] = "livre"
      BY <1>5 DEF EditarNome
    <2> QED BY <2>1
  <1>6. CASE EditarPontos(q)
    <2>1. pc'[q] = "substituir" /\ alvo'[q] = NadaCampo
      BY <1>6 DEF EditarPontos
    <2> QED BY <2>1, NadaForaDosDominios
  <1>7. CASE TravarPlano(q) \/ TravarRota(q)
    <2>1. pc'[q] \in {"rota", "executar"} /\ pc[q] \in {"plano", "rota"} /\ alvo' = alvo
      BY <1>7 DEF TravarPlano, TravarRota
    <2> QED BY <2>1
  <1>8. CASE Instalar(q) \/ Retirar(q) \/ InstalarManual(q)
    <2>1. pc'[q] = "confirmar" /\ pc[q] = "executar" /\ alvo' = alvo
      BY <1>8 DEF Instalar, Retirar, InstalarManual
    <2> QED BY <2>1
  <1>9. CASE SubstituirPontos(q) \/ TravarPontos(q) \/ TravarPlanos(q)
    <2>1. /\ pc'[q] \in PassosLista /\ alvo' = alvo
          /\ pc[q] \in {"substituir", "travarPontos", "travarPlanos"}
      BY <1>9 DEF SubstituirPontos, TravarPontos, TravarPlanos, PassosLista
    <2> QED BY <2>1 DEF PassosLista
  <1> QED BY <1>1, <1>2, <1>3, <1>4, <1>5, <1>6, <1>7, <1>8, <1>9 DEF Entra

LEMMA EntraAlvos ==
  ASSUME TypeOKCampo, TabelasCampo, PedidosCampo, NEW q \in RequisicoesCampo, Entra(q),
         UNCHANGED tabelas, NEW s \in RequisicoesCampo
  PROVE  AlvoDe(s)'
  <1>1. \A t \in Outras(q) : alvo'[t] = alvo[t] /\ pc'[t] = pc[t]
    BY AlheiasFicam DEF Alheia
  <1>2. \A t \in RequisicoesCampo : AlvoDe(t) /\ FormaDe(t)
    BY DEF PedidosCampo
  <1>3. \A p \in Planejamentos : ExisteCampo(p)' = ExisteCampo(p)
    BY DEF ExisteCampo, tabelas
  <1>4. \/ alvo'[q] = alvo[q] /\ pc[q] # "copiar" /\ pc'[q] # "copiar"
        \/ pc'[q] # "copiar" /\ (alvo'[q] \in Planejamentos => ExisteCampo(alvo'[q]))
        \/ /\ pc'[q] = "copiar" /\ ~ExisteCampo(alvo'[q])
           /\ \A t \in Outras(q) : alvo[t] # alvo'[q]
    BY <1>2, EntraAlvo
  <1>5. CASE s = q
    BY <1>1, <1>2, <1>3, <1>4, <1>5 DEF AlvoDe
  <1>6. CASE s # q
    <2>1. alvo'[s] = alvo[s] /\ pc'[s] = pc[s] /\ q \in Outras(s)
      BY <1>1, <1>6 DEF Outras
    <2>2. ASSUME pc[s] = "copiar", alvo[s] \in Planejamentos PROVE alvo'[q] # alvo[s]
      <3>1. ~ExisteCampo(alvo[s]) /\ alvo[q] # alvo[s]
        BY <1>2, <2>1, <2>2 DEF AlvoDe
      <3>2. s \in Outras(q)
        BY <1>6 DEF Outras
      <3> QED BY <1>4, <3>1, <3>2, <2>2
    <2>3. \A t \in Outras(s) : t # q => alvo'[t] = alvo[t]
      BY <1>1 DEF Outras
    <2> QED BY <1>2, <1>3, <2>1, <2>2, <2>3 DEF AlvoDe
  <1> QED BY <1>5, <1>6

\* The rest of what is known of the other requests stays as the tables do.
LEMMA EntraAlheias ==
  ASSUME TypeOKCampo, NEW q \in RequisicoesCampo, UNCHANGED tabelas, NEW s \in RequisicoesCampo,
         Alheia(s), FormaDe(s), ListaDe(s), GravarDe(s), ConfirmarDe(s)
  PROVE  (FormaDe(s) /\ ListaDe(s) /\ GravarDe(s) /\ ConfirmarDe(s))'
  <1> USE DEF tabelas, Alheia
  <1>1. /\ Feitas' = Feitas
        /\ \A p \in Planejamentos : NaoIniciado(p)' = NaoIniciado(p)
        /\ ExecucoesDe(alvo[s])' = ExecucoesDe(alvo[s])
    BY DEF Feitas, NaoIniciado, ExecucoesDe
  <1>2. FormaDe(s)'
    BY <1>1 DEF FormaDe
  <1>3. ListaDe(s)'
    BY <1>1 DEF ListaDe, TypeOKCampo
  <1>4. GravarDe(s)'
    BY DEF GravarDe, ExecucoesDe
  <1>5. ConfirmarDe(s)'
    BY DEF ConfirmarDe, Liberado
  <1> QED BY <1>2, <1>3, <1>4, <1>5

LEMMA EntraIInv ==
  ASSUME IInvCampo, NEW q \in RequisicoesCampo, Entra(q), UNCHANGED tabelas
  PROVE  IInvCampo'
  <1>1. \A s \in RequisicoesCampo : /\ FormaDe(s) /\ AlvoDe(s) /\ TravasDe(s)
                                    /\ ListaDe(s) /\ GravarDe(s) /\ ConfirmarDe(s)
    BY DEF IInvCampo, PedidosCampo
  <1>2. TypeOKCampo /\ TabelasCampo /\ PedidosCampo
    BY DEF IInvCampo
  <1>3. TypeOKCampo'
    BY <1>1, <1>2, EntraTipo
  <1>4. \A s \in RequisicoesCampo : AlvoDe(s)' /\ TravasDe(s)'
    BY <1>2, EntraAlvos, EntraTravas
  <1>5. \A s \in RequisicoesCampo : (FormaDe(s) /\ ListaDe(s) /\ GravarDe(s) /\ ConfirmarDe(s))'
    <2> TAKE s \in RequisicoesCampo
    <2>1. CASE s = q
      BY <1>1, <1>2, <2>1, EntraPropria
    <2>2. CASE s # q
      <3>1. Alheia(s)
        BY <1>2, <2>2, AlheiasFicam DEF Outras
      <3> QED BY <1>1, <1>2, <3>1, EntraAlheias
    <2> QED BY <2>1, <2>2
  <1>6. PedidosCampo'
    BY <1>4, <1>5 DEF PedidosCampo
  <1>7. TabelasCampo'
    BY <1>2 DEF TabelasCampo, tabelas, ExisteCampo, Pontos, ExecucoesDe
  <1>8. PlanejamentoConfere'
    BY DEF IInvCampo, PlanejamentoConfere, ExecucaoConclui, NaoIniciadoAcompanha, tabelas,
           NaoIniciado, Pontos, ExecucoesDe
  <1> QED BY <1>3, <1>6, <1>7, <1>8 DEF IInvCampo

(***************************************************************************)
(* A request that ends.                                                    *)
(***************************************************************************)
TipoTabelas ==
    /\ modelo \in Modelo
    /\ plano \in [Planejamentos -> Plano]
    /\ ponto \in [Planejamentos -> [Posicoes -> Ponto]]
    /\ execucao \in [Chaves -> Execucao]

\* It leaves nothing of its own.
LEMMA LivreNadaDeve ==
  ASSUME TypeOKCampo, NEW q \in RequisicoesCampo, Libera(q)
  PROVE  (FormaDe(q) /\ AlvoDe(q) /\ ListaDe(q) /\ GravarDe(q) /\ ConfirmarDe(q))'
  <1>1. pc'[q] = "livre" /\ oper'[q] = "nenhuma" /\ alvo'[q] = NadaCampo
    BY LiberaDeixa
  <1> QED BY <1>1, NadaForaDosDominios
          DEF FormaDe, AlvoDe, ListaDe, GravarDe, ConfirmarDe, ComAlvo, PassosExecucao,
              PassosEdicao, PassosLista

LEMMA SaiTravas ==
  ASSUME TypeOKCampo, PedidosCampo, NEW q \in RequisicoesCampo, Libera(q),
         NEW s \in RequisicoesCampo
  PROVE  TravasDe(s)'
  <1>1. \A t \in Outras(q) : Alheia(t)
    BY AlheiasFicam
  <1>2. \A t \in Outras(q) : /\ TemRota(t)' = TemRota(t) /\ TemCopia(t)' = TemCopia(t)
                             /\ \A p \in Planejamentos : TemPlano(t, p)' = TemPlano(t, p)
    BY <1>1 DEF Alheia, TemRota, TemCopia, TemPlano
  <1>3. ~TemRota(q)' /\ ~TemCopia(q)' /\ \A p \in Planejamentos : ~TemPlano(q, p)'
    BY LiberaDeixa DEF TemRota, TemCopia, TemPlano
  <1>4. TravasDe(s)
    BY DEF PedidosCampo
  <1> QED BY <1>2, <1>3, <1>4 DEF TravasDe, Outras

\* What a step of q that writes leaves to do: its tables, and the other requests.
Vale(q) == /\ TipoTabelas' /\ TabelasCampo' /\ PlanejamentoConfere'
           /\ \A s \in Outras(q) : (FormaDe(s) /\ AlvoDe(s) /\ ListaDe(s) /\ GravarDe(s)
                                    /\ ConfirmarDe(s))'

LEMMA SaiIInv ==
  ASSUME IInvCampo, NEW q \in RequisicoesCampo, Libera(q), Vale(q)
  PROVE  IInvCampo'
  <1>1. TypeOKCampo /\ PedidosCampo
    BY DEF IInvCampo
  <1>2. TypeOKCampo'
    BY <1>1, LiberaDeixa DEF TypeOKCampo, TipoTabelas, Vale
  <1>3. \A s \in RequisicoesCampo : TravasDe(s)'
    BY <1>1, SaiTravas
  <1>4. (FormaDe(q) /\ AlvoDe(q) /\ ListaDe(q) /\ GravarDe(q) /\ ConfirmarDe(q))'
    BY <1>1, LivreNadaDeve
  <1>5. \A s \in RequisicoesCampo : (FormaDe(s) /\ AlvoDe(s) /\ ListaDe(s) /\ GravarDe(s)
                                     /\ ConfirmarDe(s))'
    BY <1>4 DEF Vale, Outras
  <1>6. PedidosCampo'
    BY <1>3, <1>5 DEF PedidosCampo
  <1> QED BY <1>2, <1>6 DEF IInvCampo, Vale

\* While one request holds the route the others read, or wait for their first rows.
Quieta(s) == pc[s] \in {"livre", "plano", "rota", "gravar"}

LEMMA RotaSozinha ==
  ASSUME TypeOKCampo, PedidosCampo, NEW q \in RequisicoesCampo, TemRota(q), NEW s \in Outras(q)
  PROVE  Quieta(s)
  <1>1. ~TemRota(s) /\ ~TemCopia(s) /\ s \in RequisicoesCampo
    BY DEF PedidosCampo, TravasDe, Outras
  <1> QED BY <1>1 DEF TypeOKCampo, PassosCampo, TemRota, TemCopia, Quieta

\* Such a request needs its planning to be there, and its executions.
LEMMA QuietaSegue ==
  ASSUME NEW s \in RequisicoesCampo, Quieta(s), Alheia(s),
         FormaDe(s), AlvoDe(s), GravarDe(s),
         \A p \in Planejamentos : /\ ExisteCampo(p) => ExisteCampo(p)'
                                  /\ ExecucoesDe(p) # {} => ExecucoesDe(p)' # {}
  PROVE  (FormaDe(s) /\ AlvoDe(s) /\ ListaDe(s) /\ GravarDe(s) /\ ConfirmarDe(s))'
  <1> USE DEF Alheia, Quieta
  <1>1. FormaDe(s)'
    BY DEF FormaDe, PassosEdicao, PassosLista
  <1>2. AlvoDe(s)'
    BY DEF AlvoDe
  <1>3. GravarDe(s)'
    <2>1. SUFFICES ASSUME pc[s] = "gravar", novo[s] \in Trabalhados
                   PROVE  ExecucoesDe(alvo[s])' # {}
      BY DEF GravarDe, ExecucoesDe
    <2>2. alvo[s] \in Planejamentos
      BY <2>1 DEF FormaDe, ComAlvo
    <2>3. ExecucoesDe(alvo[s]) # {}
      BY <2>1 DEF GravarDe
    <2>4. PICK p \in Planejamentos : p = alvo[s]
      BY <2>2
    <2>5. ExecucoesDe(p)' # {}
      BY <2>3, <2>4
    <2> QED BY <2>4, <2>5 DEF ExecucoesDe
  <1>4. ListaDe(s)' /\ ConfirmarDe(s)'
    BY DEF ListaDe, ConfirmarDe, PassosLista
  <1> QED BY <1>1, <1>2, <1>3, <1>4

LEMMA ConfirmarVale ==
  ASSUME IInvCampo, NEW q \in RequisicoesCampo, Libera(q), Confirmar(q)
  PROVE  /\ Vale(q)
         /\ alvo[q] \in Planejamentos /\ Liberado(alvo[q])
         /\ \E k \in Chaves : /\ execucao[k].plano = NadaCampo
                              /\ execucao'[k].plano = alvo[q]
                              /\ \A j \in Chaves : j # k => execucao'[j] = execucao[j]
         /\ \A p \in Planejamentos :
               /\ plano'[p].nome = plano[p].nome
               /\ \A o \in Pontos(p) : /\ ponto'[p][o].status # "nenhum"
                                       /\ ponto'[p][o].versao = ponto[p][o].versao
  <1>1. TypeOKCampo /\ TabelasCampo /\ PedidosCampo /\ PlanejamentoConfere
    BY DEF IInvCampo
  <1>2. FormaDe(q) /\ ConfirmarDe(q) /\ pc[q] = "confirmar"
    BY <1>1 DEF PedidosCampo, Confirmar
  <1>3. PICK p \in Planejamentos, l \in Posicoes, k \in Chaves, pt \in Ponto :
           p = alvo[q] /\ l = local[q] /\ k = chave[q] /\ pt = linha[q]
    BY <1>1, <1>2 DEF FormaDe, ConfirmarDe, ComAlvo, PassosExecucao, TypeOKCampo
  <1> DEFINE antes == ponto[p][l]
             x == [tipo |-> IF oper[q] = "retirar" THEN "RETIRADA" ELSE "INSTALACAO",
                   plano |-> p, ordem |-> l, inst |-> Menos(pt.inst, antes.inst),
                   rec |-> Menos(pt.rec, antes.rec), ext |-> Menos(pt.ext, antes.ext)]
  <1>4. /\ Liberado(p) /\ Sucede(pt, antes)
        /\ novo[q] = SituacaoDoPlano([ponto[p] EXCEPT ![l] = pt])
    BY <1>2, <1>3 DEF ConfirmarDe
  <1>5. /\ execucao[k].tipo = "nenhuma"
        /\ execucao' = [execucao EXCEPT ![k] = x]
        /\ ponto' = [ponto EXCEPT ![p][l] = pt]
        /\ plano' = [plano EXCEPT ![p].status = novo[q], ![p].quem = "execucao"]
        /\ modelo' = modelo
    BY <1>3 DEF Confirmar, ChaveNova
  <1>6. antes \in Ponto
    BY <1>1 DEF TypeOKCampo
  <1>7. x \in Execucao /\ x.tipo # "nenhuma" /\ x.plano = p
    <2>1. /\ Menos(pt.inst, antes.inst) \in Quantias /\ Menos(pt.rec, antes.rec) \in Quantias
          /\ Menos(pt.ext, antes.ext) \in Quantias
      <3> HIDE DEF antes
      <3> QED BY <1>4, <1>6 DEF Sucede, Menos, Quantias, Ponto
    <2> QED BY <2>1 DEF Execucao
  <1> DEFINE pts == [ponto[p] EXCEPT ![l] = pt]
  <1>8. pts \in [Posicoes -> Ponto] /\ \A o \in Posicoes : PontoOK(pts[o])
    BY <1>1, <1>4 DEF TypeOKCampo, TabelasCampo, Sucede
  <1>9. /\ novo[q] = IF \A o \in {m \in Posicoes : pts[m].status # "nenhum"} :
                           pts[o].inst # Zero /\ ~EmCampo(pts[o])
                     THEN "CONCLUIDA" ELSE "EM_EXECUCAO"
        /\ novo[q] \in Trabalhados
    <2> HIDE DEF pts
    <2>1. novo[q] = SituacaoDoPlano(pts)
      BY <1>4 DEF pts
    <2> QED BY <2>1, <1>8, Conclusao DEF Trabalhados
  <1>10. /\ ponto'[p] = pts /\ \A r \in Planejamentos \ {p} : ponto'[r] = ponto[r]
         /\ ponto' \in [Planejamentos -> [Posicoes -> Ponto]]
    BY <1>1, <1>5, <1>8 DEF TypeOKCampo
  <1>11. /\ plano'[p].status = novo[q] /\ plano'[p].quem = "execucao"
         /\ plano'[p].nome = plano[p].nome
         /\ \A r \in Planejamentos \ {p} : plano'[r] = plano[r]
         /\ plano' \in [Planejamentos -> Plano]
    <2> DEFINE y == [plano[p] EXCEPT !.status = novo[q], !.quem = "execucao"]
    <2>1. plano[p] \in Plano /\ plano \in [Planejamentos -> Plano]
      BY <1>1 DEF TypeOKCampo
    <2>2. y \in Plano /\ y.status = novo[q] /\ y.quem = "execucao" /\ y.nome = plano[p].nome
      BY <2>1, <1>9 DEF Plano, StatusPlano, Trabalhados
    <2>3. plano' = [plano EXCEPT ![p] = y]
      BY <1>5, <2>1 DEF Plano
    <2> HIDE DEF y
    <2> QED BY <2>1, <2>2, <2>3
  <1> HIDE DEF x
  <1>12. /\ execucao'[k] = x /\ \A j \in Chaves : j # k => execucao'[j] = execucao[j]
         /\ execucao' \in [Chaves -> Execucao]
         /\ execucao[k].plano = NadaCampo
    BY <1>1, <1>5, <1>7 DEF TypeOKCampo, TabelasCampo
  <1>13. /\ ExecucoesDe(p)' # {}
         /\ \A r \in Planejamentos \ {p} : ExecucoesDe(r)' = ExecucoesDe(r)
         /\ \A r \in Planejamentos : ExecucoesDe(r) # {} => ExecucoesDe(r)' # {}
    <2>1. k \in ExecucoesDe(p)'
      BY <1>12, <1>7 DEF ExecucoesDe
    <2>2. ASSUME NEW r \in Planejamentos \ {p} PROVE ExecucoesDe(r)' = ExecucoesDe(r)
      <3>1. execucao[k].plano # r /\ execucao'[k].plano # r
        BY <1>12, <1>7, NadaForaDosDominios
      <3> QED BY <3>1, <1>12 DEF ExecucoesDe
    <2> QED BY <2>1, <2>2
  <1>14. \A r \in Planejamentos : ExisteCampo(r)' = ExisteCampo(r)
    BY <1>4, <1>9, <1>11 DEF ExisteCampo, Liberado, Trabalhados
  <1>15. Pontos(p)' = {m \in Posicoes : pts[m].status # "nenhum"}
         /\ \A r \in Planejamentos \ {p} : Pontos(r)' = Pontos(r)
    BY <1>10 DEF Pontos
  <1>16. TipoTabelas'
    BY <1>1, <1>5, <1>10, <1>11, <1>12 DEF TipoTabelas, TypeOKCampo
  <1>17. TabelasCampo'
    <2>1. \A j \in Chaves : execucao'[j].tipo = "nenhuma" => execucao'[j].plano = NadaCampo
      BY <1>1, <1>7, <1>12 DEF TabelasCampo
    <2>2. \A r \in Planejamentos, o \in Posicoes : PontoOK(ponto'[r][o])
      BY <1>1, <1>8, <1>10 DEF TabelasCampo
    <2>3. ASSUME NEW r \in Planejamentos
          PROVE  /\ ~ExisteCampo(r)' => Pontos(r)' = {} /\ ExecucoesDe(r)' = {}
                 /\ plano'[r].status \in Trabalhados \/ plano'[r].quem = "execucao"
                        => ExecucoesDe(r)' # {}
                 /\ ExecucoesDe(r)' = {} => \A o \in Pontos(r)' : ponto'[r][o].status = "PENDENTE"
      <3>1. CASE r = p
        BY <3>1, <1>4, <1>13, <1>14 DEF Liberado, ExisteCampo
      <3>2. CASE r # p
        BY <3>2, <1>1, <1>10, <1>11, <1>13, <1>14, <1>15 DEF TabelasCampo
      <3> QED BY <3>1, <3>2
    <2> QED BY <2>1, <2>2, <2>3 DEF TabelasCampo
  <1>18. ExecucaoConclui'
    <2>1. ASSUME NEW r \in Planejamentos, plano'[r].quem = "execucao"
          PROVE  plano'[r].status = IF \A o \in Pontos(r)' : /\ ponto'[r][o].inst # Zero
                                                             /\ ~EmCampo(ponto'[r][o])
                                    THEN "CONCLUIDA" ELSE "EM_EXECUCAO"
      <3>1. CASE r = p
        BY <3>1, <1>9, <1>10, <1>11, <1>15
      <3>2. CASE r # p
        BY <3>2, <2>1, <1>1, <1>10, <1>11, <1>15 DEF PlanejamentoConfere, ExecucaoConclui
      <3> QED BY <3>1, <3>2
    <2> QED BY <2>1 DEF ExecucaoConclui, EmCampo, Saldo
  <1>19. NaoIniciadoAcompanha'
    <2>1. \A r \in Planejamentos : NaoIniciado(r)' => r # p /\ NaoIniciado(r)
      BY <1>11, <1>13 DEF NaoIniciado
    <2>2. ASSUME NEW r \in Planejamentos, NaoIniciado(r)', plano'[r].quem # "revivido"
          PROVE  /\ plano'[r].nome = modelo'.nome
                 /\ Pontos(r)' = modelo'.ordens
                 /\ \A o \in Pontos(r)' : ponto'[r][o] = PontoDoModelo(modelo'.versao)
      BY <2>1, <2>2, <1>1, <1>5, <1>10, <1>11, <1>15 DEF PlanejamentoConfere, NaoIniciadoAcompanha
    <2> QED BY <2>2 DEF NaoIniciadoAcompanha
  <1>20. ASSUME NEW s \in Outras(q)
         PROVE  (FormaDe(s) /\ AlvoDe(s) /\ ListaDe(s) /\ GravarDe(s) /\ ConfirmarDe(s))'
    <2>1. TemRota(q)
      BY <1>2 DEF TemRota
    <2>2. s \in RequisicoesCampo /\ Quieta(s) /\ Alheia(s)
      BY <1>1, <2>1, RotaSozinha, AlheiasFicam DEF Outras
    <2>3. FormaDe(s) /\ AlvoDe(s) /\ GravarDe(s)
      BY <1>1, <2>2 DEF PedidosCampo
    <2> QED BY <2>2, <2>3, <1>13, <1>14, QuietaSegue
  <1>21. Vale(q)
    BY <1>16, <1>17, <1>18, <1>19, <1>20 DEF Vale, PlanejamentoConfere
  <1>22. \A r \in Planejamentos :
            \A o \in Pontos(r) : /\ ponto'[r][o].status # "nenhum"
                                 /\ ponto'[r][o].versao = ponto[r][o].versao
    BY <1>4, <1>10, <1>1 DEF Pontos, Sucede, TypeOKCampo
  <1> QED BY <1>3, <1>4, <1>7, <1>11, <1>12, <1>21, <1>22

LEMMA CopiarVale ==
  ASSUME IInvCampo, NEW q \in RequisicoesCampo, Libera(q), CopiarPontos(q)
  PROVE  /\ Vale(q)
         /\ execucao' = execucao
         /\ \A p \in Planejamentos : ExecucoesDe(p) # {} => /\ plano'[p] = plano[p]
                                                            /\ ponto'[p] = ponto[p]
  <1>1. TypeOKCampo /\ TabelasCampo /\ PedidosCampo /\ PlanejamentoConfere
    BY DEF IInvCampo
  <1>2. FormaDe(q) /\ AlvoDe(q) /\ ListaDe(q) /\ TravasDe(q) /\ pc[q] = "copiar"
    BY <1>1 DEF PedidosCampo, CopiarPontos
  <1>3. PICK p \in Planejamentos : p = alvo[q]
    BY <1>2 DEF FormaDe, ComAlvo
  <1>4. ~ExisteCampo(p) /\ \A s \in Outras(q) : alvo[s] # p
    BY <1>2, <1>3 DEF AlvoDe
  <1> DEFINE y == [SemPlano EXCEPT !.status = "PLANEJADA", !.nome = lido[q]]
             pts == [o \in Posicoes |->
                        IF o \in modelo.ordens THEN PontoDoModelo(modelo.versao) ELSE SemPonto]
  <1>5. /\ plano' = [plano EXCEPT ![p] = y] /\ ponto' = [ponto EXCEPT ![p] = pts]
        /\ modelo' = modelo /\ execucao' = execucao
    BY <1>3 DEF CopiarPontos
  <1>6. y.status = "PLANEJADA" /\ y.nome = modelo.nome /\ y.quem = "admin" /\ y \in Plano
    BY <1>1, <1>2 DEF ListaDe, SemPlano, Plano, StatusPlano, TypeOKCampo, Modelo
  <1>7. modelo.versao \in Versoes /\ modelo.ordens \subseteq Posicoes
    BY <1>1, PosicoesOrdenadas DEF TypeOKCampo, Modelo
  <1>8. /\ PontoDoModelo(modelo.versao) \in Ponto /\ PontoOK(PontoDoModelo(modelo.versao))
        /\ PontoDoModelo(modelo.versao).status = "PENDENTE"
    BY <1>7, CopiaOK
  <1>9. /\ pts \in [Posicoes -> Ponto] /\ \A o \in Posicoes : PontoOK(pts[o])
        /\ {o \in Posicoes : pts[o].status # "nenhum"} = modelo.ordens
        /\ \A o \in modelo.ordens : pts[o] = PontoDoModelo(modelo.versao)
    <2> HIDE DEF pts
    <2>1. \A o \in Posicoes : pts[o] = IF o \in modelo.ordens THEN PontoDoModelo(modelo.versao)
                                                              ELSE SemPonto
      BY DEF pts
    <2>2. pts \in [Posicoes -> Ponto]
      BY <1>8, SemPontoOK DEF pts
    <2> QED BY <2>1, <2>2, <1>7, <1>8, SemPontoOK
  <1> HIDE DEF y, pts
  <1>10. /\ plano'[p] = y /\ ponto'[p] = pts
         /\ \A r \in Planejamentos \ {p} : plano'[r] = plano[r] /\ ponto'[r] = ponto[r]
         /\ plano' \in [Planejamentos -> Plano] /\ ponto' \in [Planejamentos -> [Posicoes -> Ponto]]
    BY <1>1, <1>5, <1>6, <1>9 DEF TypeOKCampo
  <1>11. ExecucoesDe(p) = {} /\ \A r \in Planejamentos : ExecucoesDe(r)' = ExecucoesDe(r)
    BY <1>1, <1>4, <1>5 DEF TabelasCampo, ExecucoesDe
  <1>12. /\ Pontos(p)' = modelo.ordens
         /\ \A r \in Planejamentos \ {p} : Pontos(r)' = Pontos(r)
    BY <1>9, <1>10 DEF Pontos
  <1>13. /\ ExisteCampo(p)'
         /\ \A r \in Planejamentos \ {p} : ExisteCampo(r)' = ExisteCampo(r)
    BY <1>6, <1>10 DEF ExisteCampo
  <1>14. TipoTabelas'
    BY <1>1, <1>5, <1>10 DEF TipoTabelas, TypeOKCampo
  <1>15. TabelasCampo'
    <2>1. \A j \in Chaves : execucao'[j].tipo = "nenhuma" => execucao'[j].plano = NadaCampo
      BY <1>1, <1>5 DEF TabelasCampo
    <2>2. \A r \in Planejamentos, o \in Posicoes : PontoOK(ponto'[r][o])
      BY <1>1, <1>9, <1>10 DEF TabelasCampo
    <2>3. ASSUME NEW r \in Planejamentos
          PROVE  /\ ~ExisteCampo(r)' => Pontos(r)' = {} /\ ExecucoesDe(r)' = {}
                 /\ plano'[r].status \in Trabalhados \/ plano'[r].quem = "execucao"
                        => ExecucoesDe(r)' # {}
                 /\ ExecucoesDe(r)' = {} => \A o \in Pontos(r)' : ponto'[r][o].status = "PENDENTE"
      <3>1. CASE r = p
        BY <3>1, <1>6, <1>8, <1>9, <1>10, <1>12, <1>13 DEF Trabalhados
      <3>2. CASE r # p
        BY <3>2, <1>1, <1>10, <1>11, <1>12, <1>13 DEF TabelasCampo
      <3> QED BY <3>1, <3>2
    <2> QED BY <2>1, <2>2, <2>3 DEF TabelasCampo
  <1>16. ExecucaoConclui'
    <2>1. ASSUME NEW r \in Planejamentos, plano'[r].quem = "execucao"
          PROVE  plano'[r].status = IF \A o \in Pontos(r)' : /\ ponto'[r][o].inst # Zero
                                                             /\ ~EmCampo(ponto'[r][o])
                                    THEN "CONCLUIDA" ELSE "EM_EXECUCAO"
      <3>1. r # p
        BY <2>1, <1>6, <1>10
      <3> QED BY <3>1, <2>1, <1>1, <1>10, <1>12 DEF PlanejamentoConfere, ExecucaoConclui
    <2> QED BY <2>1 DEF ExecucaoConclui, EmCampo, Saldo
  <1>17. NaoIniciadoAcompanha'
    <2>1. ASSUME NEW r \in Planejamentos, NaoIniciado(r)', plano'[r].quem # "revivido"
          PROVE  /\ plano'[r].nome = modelo'.nome
                 /\ Pontos(r)' = modelo'.ordens
                 /\ \A o \in Pontos(r)' : ponto'[r][o] = PontoDoModelo(modelo'.versao)
      <3>1. CASE r = p
        BY <3>1, <1>5, <1>6, <1>9, <1>10, <1>12
      <3>2. CASE r # p
        <4>1. NaoIniciado(r)
          BY <2>1, <3>2, <1>10, <1>11 DEF NaoIniciado
        <4> QED BY <4>1, <2>1, <3>2, <1>1, <1>5, <1>10, <1>12
                DEF PlanejamentoConfere, NaoIniciadoAcompanha
      <3> QED BY <3>1, <3>2
    <2> QED BY <2>1 DEF NaoIniciadoAcompanha
  <1>18. ASSUME NEW s \in Outras(q)
         PROVE  (FormaDe(s) /\ AlvoDe(s) /\ ListaDe(s) /\ GravarDe(s) /\ ConfirmarDe(s))'
    <2>1. s \in RequisicoesCampo /\ Alheia(s) /\ alvo[s] # p
      BY <1>1, <1>4, AlheiasFicam DEF Outras
    <2>2. FormaDe(s) /\ AlvoDe(s) /\ ListaDe(s) /\ GravarDe(s) /\ ConfirmarDe(s) /\ TravasDe(s)
      BY <1>1, <2>1 DEF PedidosCampo
    <2>3. ~TemRota(s)
      <3>1. q \in Outras(s) /\ TemCopia(q)
        BY <1>2 DEF Outras, TemCopia
      <3> QED BY <3>1, <2>2 DEF TravasDe
    <2>4. pc[s] \in {"livre", "plano", "rota", "gravar", "copiar"}
      BY <1>1, <2>1, <2>3 DEF TypeOKCampo, PassosCampo, TemRota
    <2>5. FormaDe(s)'
      BY <2>1, <2>2, <2>4 DEF FormaDe, Alheia, PassosEdicao, PassosLista
    <2>6. AlvoDe(s)'
      <3>1. SUFFICES ASSUME alvo[s] \in Planejamentos
                     PROVE  /\ pc[s] = "copiar" <=> ~ExisteCampo(alvo[s])'
                            /\ pc[s] = "copiar" => \A t \in Outras(s) : alvo'[t] # alvo[s]
        BY <2>1 DEF AlvoDe, Alheia, ExisteCampo
      <3>2. plano'[alvo[s]] = plano[alvo[s]] /\ alvo'[s] = alvo[s]
        BY <3>1, <2>1, <1>10 DEF Alheia
      <3>3. \A t \in Outras(s) : alvo'[t] = alvo[t] \/ alvo'[t] = NadaCampo
        <4>1. \A t \in Outras(q) : alvo'[t] = alvo[t]
          BY <1>1, AlheiasFicam DEF Alheia
        <4>2. alvo'[q] = NadaCampo
          BY <1>1, LiberaDeixa
        <4> QED BY <4>1, <4>2 DEF Outras
      <3> QED BY <3>1, <3>2, <3>3, <2>2, NadaForaDosDominios DEF AlvoDe, ExisteCampo
    <2>7. ListaDe(s)'
      BY <2>1, <2>2, <2>4, <1>5 DEF ListaDe, Alheia, PassosLista
    <2>8. GravarDe(s)' /\ ConfirmarDe(s)'
      BY <2>1, <2>2, <2>4, <1>5 DEF GravarDe, ConfirmarDe, Alheia, ExecucoesDe
    <2> QED BY <2>5, <2>6, <2>7, <2>8
  <1>19. Vale(q)
    BY <1>14, <1>15, <1>16, <1>17, <1>18 DEF Vale, PlanejamentoConfere
  <1> QED BY <1>5, <1>10, <1>11, <1>19

LEMMA GravarVale ==
  ASSUME IInvCampo, NEW q \in RequisicoesCampo, Libera(q), GravarPlanejamento(q)
  PROVE  /\ Vale(q)
         /\ execucao' = execucao /\ ponto' = ponto
         /\ \A p \in Planejamentos : plano'[p].nome = plano[p].nome
  <1>1. TypeOKCampo /\ TabelasCampo /\ PedidosCampo /\ PlanejamentoConfere
    BY DEF IInvCampo
  <1>2. FormaDe(q) /\ AlvoDe(q) /\ GravarDe(q) /\ pc[q] = "gravar"
    BY <1>1 DEF PedidosCampo, GravarPlanejamento
  <1>3. PICK p \in Planejamentos, n \in StatusPlano : p = alvo[q] /\ n = novo[q]
    BY <1>2 DEF FormaDe, ComAlvo
  <1> DEFINE w == IF Revive(p, n) THEN "revivido" ELSE "admin"
             y == [plano[p] EXCEPT !.status = n, !.quem = w]
  <1>4. ExisteCampo(p) /\ (n \in Trabalhados => ExecucoesDe(p) # {}) /\ PlanoLivre(q, p)
    BY <1>2, <1>3 DEF AlvoDe, GravarDe, GravarPlanejamento
  <1>5. /\ plano' = [plano EXCEPT ![p].status = n, ![p].quem = w]
        /\ modelo' = modelo /\ ponto' = ponto /\ execucao' = execucao
    BY <1>3 DEF GravarPlanejamento
  <1>6. w \in {"revivido", "admin"} /\ (w = "admin" => ~Revive(p, n))
    OBVIOUS
  <1> HIDE DEF w
  <1>7. /\ y \in Plano /\ y.status = n /\ y.quem = w /\ y.nome = plano[p].nome
        /\ plano' = [plano EXCEPT ![p] = y]
    <2>1. plano[p] \in Plano /\ plano \in [Planejamentos -> Plano]
      BY <1>1 DEF TypeOKCampo
    <2>2. y \in Plano /\ y.status = n /\ y.quem = w /\ y.nome = plano[p].nome
      BY <2>1, <1>6 DEF Plano
    <2>3. plano' = [plano EXCEPT ![p] = y]
      BY <1>5, <2>1 DEF Plano
    <2> QED BY <2>2, <2>3
  <1> HIDE DEF y
  <1>8. /\ plano'[p] = y /\ plano' \in [Planejamentos -> Plano]
        /\ \A r \in Planejamentos \ {p} : plano'[r] = plano[r]
    BY <1>1, <1>7 DEF TypeOKCampo
  <1>9. \A r \in Planejamentos : ExecucoesDe(r)' = ExecucoesDe(r) /\ Pontos(r)' = Pontos(r)
    BY <1>5 DEF ExecucoesDe, Pontos
  <1>10. \A r \in Planejamentos : ExisteCampo(r)' = ExisteCampo(r)
    BY <1>4, <1>7, <1>8 DEF ExisteCampo, StatusPlano
  <1>11. ASSUME NEW r \in Planejamentos, NaoIniciado(r)', plano'[r].quem # "revivido"
         PROVE  NaoIniciado(r) /\ plano[r].quem # "revivido"
    <2>1. CASE r = p
      <3>1. n \in {"PLANEJADA", "LIBERADA"} /\ ExecucoesDe(p) = {} /\ w = "admin"
        BY <1>11, <2>1, <1>7, <1>8, <1>9, <1>6 DEF NaoIniciado
      <3>2. plano[p].quem # "revivido" /\ plano[p].status # "CANCELADA"
        BY <3>1, <1>6 DEF Revive
      <3>3. plano[p].status \notin Trabalhados /\ plano[p].status # "nenhum"
        BY <3>1, <1>1, <1>4 DEF TabelasCampo, ExisteCampo
      <3>4. plano[p].status \in StatusPlano \cup {"nenhum"}
        BY <1>1 DEF TypeOKCampo, Plano
      <3> QED BY <2>1, <3>1, <3>2, <3>3, <3>4 DEF NaoIniciado, StatusPlano, Trabalhados
    <2>2. CASE r # p
      BY <1>11, <2>2, <1>8, <1>9 DEF NaoIniciado
    <2> QED BY <2>1, <2>2
  <1>12. TipoTabelas'
    BY <1>1, <1>5, <1>8 DEF TipoTabelas, TypeOKCampo
  <1>13. TabelasCampo'
    <2>1. \A j \in Chaves : execucao'[j].tipo = "nenhuma" => execucao'[j].plano = NadaCampo
      BY <1>1, <1>5 DEF TabelasCampo
    <2>2. \A r \in Planejamentos, o \in Posicoes : PontoOK(ponto'[r][o])
      BY <1>1, <1>5 DEF TabelasCampo
    <2>3. ASSUME NEW r \in Planejamentos
          PROVE  /\ ~ExisteCampo(r)' => Pontos(r)' = {} /\ ExecucoesDe(r)' = {}
                 /\ plano'[r].status \in Trabalhados \/ plano'[r].quem = "execucao"
                        => ExecucoesDe(r)' # {}
                 /\ ExecucoesDe(r)' = {} => \A o \in Pontos(r)' : ponto'[r][o].status = "PENDENTE"
      <3>1. CASE r = p
        BY <3>1, <1>1, <1>4, <1>5, <1>7, <1>8, <1>9, <1>10, <1>6 DEF TabelasCampo
      <3>2. CASE r # p
        BY <3>2, <1>1, <1>5, <1>8, <1>9, <1>10 DEF TabelasCampo
      <3> QED BY <3>1, <3>2
    <2> QED BY <2>1, <2>2, <2>3 DEF TabelasCampo
  <1>14. ExecucaoConclui'
    <2>1. ASSUME NEW r \in Planejamentos, plano'[r].quem = "execucao"
          PROVE  plano'[r].status = IF \A o \in Pontos(r)' : /\ ponto'[r][o].inst # Zero
                                                             /\ ~EmCampo(ponto'[r][o])
                                    THEN "CONCLUIDA" ELSE "EM_EXECUCAO"
      <3>1. r # p
        BY <2>1, <1>7, <1>8, <1>6
      <3> QED BY <3>1, <2>1, <1>1, <1>5, <1>8, <1>9 DEF PlanejamentoConfere, ExecucaoConclui
    <2> QED BY <2>1 DEF ExecucaoConclui, EmCampo, Saldo
  <1>15. \A r \in Planejamentos : plano'[r].nome = plano[r].nome
    BY <1>7, <1>8
  <1>16. NaoIniciadoAcompanha'
    <2>1. ASSUME NEW r \in Planejamentos, NaoIniciado(r)', plano'[r].quem # "revivido"
          PROVE  /\ plano'[r].nome = modelo'.nome
                 /\ Pontos(r)' = modelo'.ordens
                 /\ \A o \in Pontos(r)' : ponto'[r][o] = PontoDoModelo(modelo'.versao)
      BY <2>1, <1>11, <1>15, <1>1, <1>5, <1>9 DEF PlanejamentoConfere, NaoIniciadoAcompanha
    <2> QED BY <2>1 DEF NaoIniciadoAcompanha
  <1>17. ASSUME NEW s \in Outras(q)
         PROVE  (FormaDe(s) /\ AlvoDe(s) /\ ListaDe(s) /\ GravarDe(s) /\ ConfirmarDe(s))'
    <2>1. s \in RequisicoesCampo /\ Alheia(s)
      BY <1>1, AlheiasFicam DEF Outras
    <2>2. FormaDe(s) /\ AlvoDe(s) /\ ListaDe(s) /\ GravarDe(s) /\ ConfirmarDe(s)
      BY <1>1, <2>1 DEF PedidosCampo
    <2>3. ~TemPlano(s, p)
      BY <1>4 DEF PlanoLivre
    <2>4. FormaDe(s)'
      BY <2>1, <2>2, <1>5 DEF FormaDe, Alheia, Feitas
    <2>5. AlvoDe(s)'
      <3>1. SUFFICES ASSUME alvo[s] \in Planejamentos
                     PROVE  /\ pc[s] = "copiar" <=> ~ExisteCampo(alvo[s])'
                            /\ pc[s] = "copiar" => \A t \in Outras(s) : alvo'[t] # alvo[s]
        BY <2>1 DEF AlvoDe, Alheia, ExisteCampo
      <3>2. PICK r \in Planejamentos : r = alvo[s] /\ alvo'[s] = r
        BY <3>1, <2>1 DEF Alheia
      <3>3. ExisteCampo(alvo[s])' = ExisteCampo(r)'
        BY <3>2 DEF ExisteCampo
      <3>4. \A t \in Outras(s) : alvo'[t] = alvo[t] \/ alvo'[t] = NadaCampo
        <4>1. \A t \in Outras(q) : alvo'[t] = alvo[t]
          BY <1>1, AlheiasFicam DEF Alheia
        <4>2. alvo'[q] = NadaCampo
          BY <1>1, LiberaDeixa
        <4> QED BY <4>1, <4>2 DEF Outras
      <3> QED BY <3>1, <3>2, <3>4, <3>3, <2>2, <1>10, NadaForaDosDominios DEF AlvoDe
    <2>6. ListaDe(s)'
      <3>1. pc[s] = "sincronizar" => p \notin ids[s]
        BY <2>3 DEF TemPlano
      <3>2. \A r \in Planejamentos \ {p} : NaoIniciado(r)' = NaoIniciado(r)
        BY <1>8, <1>9 DEF NaoIniciado
      <3>3. ids[s] \subseteq Planejamentos
        BY <1>1, <2>1 DEF TypeOKCampo
      <3> QED BY <2>1, <2>2, <3>1, <3>2, <3>3, <1>5, <1>11 DEF ListaDe, Alheia
    <2>7. GravarDe(s)'
      BY <2>1, <2>2, <1>5 DEF GravarDe, Alheia, ExecucoesDe
    <2>8. ConfirmarDe(s)'
      <3>1. SUFFICES ASSUME pc[s] = "confirmar" PROVE ConfirmarDe(s)'
        BY <2>1 DEF ConfirmarDe, Alheia
      <3>2. alvo[s] # p /\ alvo[s] \in Planejamentos
        BY <3>1, <2>2, <2>3 DEF TemPlano, FormaDe, ComAlvo, PassosExecucao
      <3>3. plano'[alvo[s]] = plano[alvo[s]]
        BY <3>2, <1>8
      <3> QED BY <3>1, <3>3, <2>1, <2>2, <1>5 DEF ConfirmarDe, Alheia, Liberado
    <2> QED BY <2>4, <2>5, <2>6, <2>7, <2>8
  <1>18. Vale(q)
    BY <1>12, <1>13, <1>14, <1>16, <1>17 DEF Vale, PlanejamentoConfere
  <1> QED BY <1>5, <1>15, <1>18

\* The end of an edit, before its tables.
LEMMA EdicaoTermina ==
  ASSUME IInvCampo, NEW q \in RequisicoesCampo, Libera(q), pc[q] = "sincronizar",
         execucao' = execucao,
         \A p \in Planejamentos : ExisteCampo(p)' = ExisteCampo(p)
  PROVE  /\ \A p \in ids[q] : p \in Planejamentos /\ NaoIniciado(p)
         /\ \A p \in Planejamentos : NaoIniciado(p) /\ plano[p].quem # "revivido" => p \in ids[q]
         /\ Feitas + 1 \in Versoes
         /\ \A s \in Outras(q) : (FormaDe(s) /\ AlvoDe(s) /\ ListaDe(s) /\ GravarDe(s)
                                  /\ ConfirmarDe(s))'
  <1>1. TypeOKCampo /\ PedidosCampo
    BY DEF IInvCampo
  <1>2. FormaDe(q) /\ ListaDe(q)
    BY <1>1 DEF PedidosCampo
  <1>3. ids[q] \subseteq Planejamentos
    BY <1>1 DEF TypeOKCampo
  <1>4. Feitas + 1 \in Versoes
    BY <1>1, <1>2, FeitasTipo, EdicoesNaturais DEF FormaDe, PassosEdicao, PassosLista, Versoes
  <1>5. ASSUME NEW s \in Outras(q)
        PROVE  (FormaDe(s) /\ AlvoDe(s) /\ ListaDe(s) /\ GravarDe(s) /\ ConfirmarDe(s))'
    <2>1. TemRota(q)
      BY DEF TemRota
    <2>2. s \in RequisicoesCampo /\ Quieta(s) /\ Alheia(s)
      BY <1>1, <2>1, RotaSozinha, AlheiasFicam DEF Outras
    <2>3. FormaDe(s) /\ AlvoDe(s) /\ GravarDe(s)
      BY <1>1, <2>2 DEF PedidosCampo
    <2>4. \A p \in Planejamentos : ExecucoesDe(p)' = ExecucoesDe(p)
      BY DEF ExecucoesDe
    <2> QED BY <2>2, <2>3, <2>4, QuietaSegue
  <1> QED BY <1>2, <1>3, <1>4, <1>5 DEF ListaDe, PassosLista

LEMMA NomeVale ==
  ASSUME IInvCampo, NEW q \in RequisicoesCampo, Libera(q), SincronizarNome(q)
  PROVE  /\ Vale(q)
         /\ execucao' = execucao /\ ponto' = ponto
         /\ \A p \in Planejamentos : ExecucoesDe(p) # {} => plano'[p] = plano[p]
  <1>1. TypeOKCampo /\ TabelasCampo /\ PedidosCampo /\ PlanejamentoConfere
    BY DEF IInvCampo
  <1>2. /\ pc[q] = "sincronizar" /\ modelo' = [modelo EXCEPT !.nome = Feitas + 1]
        /\ plano' = [p \in Planejamentos |->
               IF p \in ids[q] THEN [plano[p] EXCEPT !.nome = Feitas + 1] ELSE plano[p]]
        /\ ponto' = ponto /\ execucao' = execucao
    BY DEF SincronizarNome
  <1>3. \A p \in Planejamentos : plano[p] \in Plano
    BY <1>1 DEF TypeOKCampo
  <1>4. \A p \in Planejamentos :
           /\ plano'[p].status = plano[p].status /\ plano'[p].quem = plano[p].quem
           /\ p \in ids[q] => plano'[p].nome = Feitas + 1
           /\ p \notin ids[q] => plano'[p] = plano[p]
    BY <1>2, <1>3 DEF Plano
  <1>5. \A r \in Planejamentos : ExisteCampo(r)' = ExisteCampo(r)
    BY <1>4 DEF ExisteCampo
  <1>6. /\ \A p \in ids[q] : p \in Planejamentos /\ NaoIniciado(p)
        /\ \A p \in Planejamentos : NaoIniciado(p) /\ plano[p].quem # "revivido" => p \in ids[q]
        /\ Feitas + 1 \in Versoes
        /\ \A s \in Outras(q) : (FormaDe(s) /\ AlvoDe(s) /\ ListaDe(s) /\ GravarDe(s)
                                 /\ ConfirmarDe(s))'
    BY <1>2, <1>5, EdicaoTermina
  <1>7. \A r \in Planejamentos : /\ ExecucoesDe(r)' = ExecucoesDe(r) /\ Pontos(r)' = Pontos(r)
                                 /\ NaoIniciado(r)' = NaoIniciado(r)
    BY <1>2, <1>4 DEF ExecucoesDe, Pontos, NaoIniciado
  <1>8. /\ modelo' \in Modelo /\ modelo'.nome = Feitas + 1 /\ modelo'.versao = modelo.versao
        /\ modelo'.ordens = modelo.ordens
    BY <1>1, <1>2, <1>6 DEF TypeOKCampo, Modelo
  <1>9. plano' \in [Planejamentos -> Plano]
    BY <1>2, <1>3, <1>6 DEF Plano
  <1>10. TipoTabelas'
    BY <1>1, <1>2, <1>8, <1>9 DEF TipoTabelas, TypeOKCampo
  <1>11. TabelasCampo'
    BY <1>1, <1>2, <1>4, <1>7, <1>5 DEF TabelasCampo
  <1>12. ExecucaoConclui'
    <2>1. \A r \in Planejamentos : plano'[r].quem = "execucao" =>
             plano'[r].status = IF \A o \in Pontos(r)' : /\ ponto'[r][o].inst # Zero
                                                         /\ ~EmCampo(ponto'[r][o])
                                THEN "CONCLUIDA" ELSE "EM_EXECUCAO"
      BY <1>1, <1>2, <1>4, <1>7 DEF PlanejamentoConfere, ExecucaoConclui
    <2> QED BY <2>1 DEF ExecucaoConclui, EmCampo, Saldo
  <1>13. NaoIniciadoAcompanha'
    <2>1. ASSUME NEW r \in Planejamentos, NaoIniciado(r)', plano'[r].quem # "revivido"
          PROVE  /\ plano'[r].nome = modelo'.nome
                 /\ Pontos(r)' = modelo'.ordens
                 /\ \A o \in Pontos(r)' : ponto'[r][o] = PontoDoModelo(modelo'.versao)
      <3>1. NaoIniciado(r) /\ plano[r].quem # "revivido"
        BY <2>1, <1>4, <1>7
      <3>2. r \in ids[q]
        BY <3>1, <1>6
      <3> QED BY <3>1, <3>2, <1>1, <1>2, <1>4, <1>7, <1>8
              DEF PlanejamentoConfere, NaoIniciadoAcompanha
    <2> QED BY <2>1 DEF NaoIniciadoAcompanha
  <1>14. Vale(q)
    BY <1>10, <1>11, <1>12, <1>13, <1>6 DEF Vale, PlanejamentoConfere
  <1>15. \A p \in Planejamentos : ExecucoesDe(p) # {} => plano'[p] = plano[p]
    BY <1>4, <1>6 DEF NaoIniciado
  <1> QED BY <1>2, <1>14, <1>15

\* The points of a planning nobody started, after the synchronization.
LEMMA SincronizadoPontos ==
  ASSUME TypeOKCampo, TabelasCampo, NEW p \in Planejamentos, ExecucoesDe(p) = {},
         NEW v \in Versoes, NEW ns \in SUBSET Ordens
  PROVE  /\ Sincronizado(p, ns, v) \in [Posicoes -> Ponto]
         /\ \A o \in Posicoes : /\ PontoOK(Sincronizado(p, ns, v)[o])
                                /\ o \notin ns => Sincronizado(p, ns, v)[o].status = "nenhum"
                                /\ o \in ns => /\ Sincronizado(p, ns, v)[o] = PontoDoModelo(v)
                                               /\ Sincronizado(p, ns, v)[o].status = "PENDENTE"
  <1>1. /\ PontoDoModelo(v) \in Ponto /\ PontoOK(PontoDoModelo(v))
        /\ PontoDoModelo(v).status = "PENDENTE"
    BY CopiaOK
  <1>2. ASSUME NEW o \in Pontos(p)
        PROVE  [ponto[p][o] EXCEPT !.versao = v, !.inst = Zero, !.rec = Zero, !.ext = Zero]
                   = PontoDoModelo(v)
    <2>1. ponto[p][o].status = "PENDENTE" /\ ponto[p][o] \in Ponto
      BY DEF TabelasCampo, TypeOKCampo, Pontos
    <2> DEFINE x == [ponto[p][o] EXCEPT !.versao = v, !.inst = Zero, !.rec = Zero, !.ext = Zero]
               y == PontoDoModelo(v)
    <2>2. /\ x.status = "PENDENTE" /\ x.versao = v /\ x.inst = Zero /\ x.rec = Zero /\ x.ext = Zero
          /\ x \in Ponto
      BY <2>1, ZeroConta DEF Ponto
    <2>3. /\ y.status = "PENDENTE" /\ y.versao = v /\ y.inst = Zero /\ y.rec = Zero /\ y.ext = Zero
          /\ y \in Ponto
      BY <1>1 DEF PontoDoModelo, SemPonto
    <2> HIDE DEF x, y
    <2>4. x = y
      BY <2>2, <2>3 DEF Ponto
    <2> QED BY <2>4 DEF x, y
  <1>3. Sincronizado(p, ns, v) =
           [o \in Posicoes |-> IF o \notin ns THEN SemPonto ELSE PontoDoModelo(v)]
    BY <1>2 DEF Sincronizado
  <1> QED BY <1>1, <1>3, SemPontoOK

LEMMA PontosVale ==
  ASSUME IInvCampo, NEW q \in RequisicoesCampo, Libera(q), SincronizarPontos(q)
  PROVE  /\ Vale(q)
         /\ execucao' = execucao
         /\ \A p \in Planejamentos : ExecucoesDe(p) # {} => /\ plano'[p] = plano[p]
                                                            /\ ponto'[p] = ponto[p]
  <1>1. TypeOKCampo /\ TabelasCampo /\ PedidosCampo /\ PlanejamentoConfere
    BY DEF IInvCampo
  <1> DEFINE v == Feitas + 1
  <1>2. /\ pc[q] = "sincronizar" /\ execucao' = execucao
        /\ plano' = [p \in Planejamentos |->
               IF p \in ids[q] THEN [plano[p] EXCEPT !.nome = modelo.nome] ELSE plano[p]]
    BY DEF SincronizarPontos
  <1>3. PICK ns \in SUBSET Ordens :
           /\ modelo' = [modelo EXCEPT !.versao = v, !.ordens = ns]
           /\ ponto' = [p \in Planejamentos |->
                 IF p \in ids[q] THEN Sincronizado(p, ns, v) ELSE ponto[p]]
    BY DEF SincronizarPontos
  <1>4. \A p \in Planejamentos : plano[p] \in Plano
    BY <1>1 DEF TypeOKCampo
  <1>5. \A p \in Planejamentos :
           /\ plano'[p].status = plano[p].status /\ plano'[p].quem = plano[p].quem
           /\ p \in ids[q] => plano'[p].nome = modelo.nome
           /\ p \notin ids[q] => plano'[p] = plano[p]
    BY <1>2, <1>4 DEF Plano
  <1>6. \A r \in Planejamentos : ExisteCampo(r)' = ExisteCampo(r)
    BY <1>5 DEF ExisteCampo
  <1>7. /\ \A p \in ids[q] : p \in Planejamentos /\ NaoIniciado(p)
        /\ \A p \in Planejamentos : NaoIniciado(p) /\ plano[p].quem # "revivido" => p \in ids[q]
        /\ v \in Versoes
        /\ \A s \in Outras(q) : (FormaDe(s) /\ AlvoDe(s) /\ ListaDe(s) /\ GravarDe(s)
                                 /\ ConfirmarDe(s))'
    BY <1>2, <1>6, EdicaoTermina
  <1> HIDE DEF v
  <1>8. ASSUME NEW p \in ids[q]
        PROVE  /\ p \in Planejamentos /\ ponto'[p] = Sincronizado(p, ns, v)
               /\ ponto'[p] \in [Posicoes -> Ponto]
               /\ \A o \in Posicoes : /\ PontoOK(ponto'[p][o])
                                      /\ o \notin ns => ponto'[p][o].status = "nenhum"
                                      /\ o \in ns => /\ ponto'[p][o] = PontoDoModelo(v)
                                                     /\ ponto'[p][o].status = "PENDENTE"
    <2>1. p \in Planejamentos /\ ExecucoesDe(p) = {}
      BY <1>7 DEF NaoIniciado
    <2>2. ponto'[p] = Sincronizado(p, ns, v)
      BY <1>3, <2>1
    <2> QED BY <2>1, <2>2, <1>1, <1>7, SincronizadoPontos
  <1>9. \A p \in Planejamentos \ ids[q] : ponto'[p] = ponto[p]
    BY <1>3
  <1>10. ns \subseteq Posicoes
    BY PosicoesOrdenadas
  <1>11. \A r \in Planejamentos : /\ ExecucoesDe(r)' = ExecucoesDe(r)
                                  /\ NaoIniciado(r)' = NaoIniciado(r)
    BY <1>2, <1>5 DEF ExecucoesDe, NaoIniciado
  <1>12. /\ \A r \in Planejamentos \ ids[q] : Pontos(r)' = Pontos(r)
         /\ \A r \in ids[q] : Pontos(r)' = ns
    <2>1. \A r \in Planejamentos \ ids[q] : Pontos(r)' = Pontos(r)
      BY <1>9 DEF Pontos
    <2>2. ASSUME NEW r \in ids[q] PROVE Pontos(r)' = ns
      <3>1. \A o \in Posicoes : ponto'[r][o].status # "nenhum" <=> o \in ns
        BY <1>8
      <3> QED BY <3>1, <1>10 DEF Pontos
    <2> QED BY <2>1, <2>2
  <1>13. /\ modelo' \in Modelo /\ modelo'.nome = modelo.nome /\ modelo'.versao = v
         /\ modelo'.ordens = ns
    BY <1>1, <1>3, <1>7 DEF TypeOKCampo, Modelo
  <1>14. plano' \in [Planejamentos -> Plano]
    <2>1. modelo.nome \in Versoes
      BY <1>1 DEF TypeOKCampo, Modelo
    <2> QED BY <1>2, <1>4, <2>1 DEF Plano
  <1>15. ponto' \in [Planejamentos -> [Posicoes -> Ponto]]
    <2>1. \A p \in Planejamentos : ponto'[p] \in [Posicoes -> Ponto]
      BY <1>1, <1>8, <1>9 DEF TypeOKCampo
    <2> QED BY <1>3, <2>1
  <1>16. TipoTabelas'
    BY <1>1, <1>2, <1>13, <1>14, <1>15 DEF TipoTabelas, TypeOKCampo
  <1>17. TabelasCampo'
    <2>1. \A j \in Chaves : execucao'[j].tipo = "nenhuma" => execucao'[j].plano = NadaCampo
      BY <1>1, <1>2 DEF TabelasCampo
    <2>2. \A r \in Planejamentos, o \in Posicoes : PontoOK(ponto'[r][o])
      BY <1>1, <1>8, <1>9 DEF TabelasCampo
    <2>3. ASSUME NEW r \in Planejamentos
          PROVE  /\ ~ExisteCampo(r)' => Pontos(r)' = {} /\ ExecucoesDe(r)' = {}
                 /\ plano'[r].status \in Trabalhados \/ plano'[r].quem = "execucao"
                        => ExecucoesDe(r)' # {}
                 /\ ExecucoesDe(r)' = {} => \A o \in Pontos(r)' : ponto'[r][o].status = "PENDENTE"
      <3>1. CASE r \in ids[q]
        <4>1. ExisteCampo(r)
          BY <3>1, <1>7 DEF NaoIniciado, ExisteCampo
        <4> QED BY <3>1, <4>1, <1>1, <1>5, <1>8, <1>10, <1>11, <1>12, <1>6 DEF TabelasCampo
      <3>2. CASE r \notin ids[q]
        BY <3>2, <1>1, <1>5, <1>9, <1>11, <1>12, <1>6 DEF TabelasCampo
      <3> QED BY <3>1, <3>2
    <2> QED BY <2>1, <2>2, <2>3 DEF TabelasCampo
  <1>18. ExecucaoConclui'
    <2>1. ASSUME NEW r \in Planejamentos, plano'[r].quem = "execucao"
          PROVE  plano'[r].status = IF \A o \in Pontos(r)' : /\ ponto'[r][o].inst # Zero
                                                             /\ ~EmCampo(ponto'[r][o])
                                    THEN "CONCLUIDA" ELSE "EM_EXECUCAO"
      <3>1. plano[r].quem = "execucao"
        BY <2>1, <1>5
      <3>2. r \notin ids[q]
        BY <3>1, <1>1, <1>7 DEF TabelasCampo, NaoIniciado
      <3> QED BY <3>1, <3>2, <1>1, <1>5, <1>9, <1>12 DEF PlanejamentoConfere, ExecucaoConclui
    <2> QED BY <2>1 DEF ExecucaoConclui, EmCampo, Saldo
  <1>19. NaoIniciadoAcompanha'
    <2>1. ASSUME NEW r \in Planejamentos, NaoIniciado(r)', plano'[r].quem # "revivido"
          PROVE  /\ plano'[r].nome = modelo'.nome
                 /\ Pontos(r)' = modelo'.ordens
                 /\ \A o \in Pontos(r)' : ponto'[r][o] = PontoDoModelo(modelo'.versao)
      <3>1. NaoIniciado(r) /\ plano[r].quem # "revivido"
        BY <2>1, <1>5, <1>11
      <3>2. r \in ids[q]
        BY <3>1, <1>7
      <3> QED BY <3>2, <1>5, <1>8, <1>10, <1>12, <1>13
    <2> QED BY <2>1 DEF NaoIniciadoAcompanha
  <1>20. Vale(q)
    BY <1>16, <1>17, <1>18, <1>19, <1>7 DEF Vale, PlanejamentoConfere
  <1>21. \A p \in Planejamentos : ExecucoesDe(p) # {} => p \notin ids[q]
    BY <1>7 DEF NaoIniciado
  <1> QED BY <1>2, <1>5, <1>9, <1>20, <1>21

\* A refusal or a broken deadlock: nothing is written.
LEMMA NadaVale ==
  ASSUME IInvCampo, NEW q \in RequisicoesCampo, Libera(q), UNCHANGED tabelas
  PROVE  Vale(q)
  <1>1. TypeOKCampo /\ TabelasCampo /\ PedidosCampo /\ PlanejamentoConfere
    BY DEF IInvCampo
  <1>2. TipoTabelas'
    BY <1>1 DEF TipoTabelas, TypeOKCampo, tabelas
  <1>3. TabelasCampo'
    BY <1>1 DEF TabelasCampo, tabelas, ExisteCampo, Pontos, ExecucoesDe
  <1>4. PlanejamentoConfere'
    BY <1>1 DEF PlanejamentoConfere, ExecucaoConclui, NaoIniciadoAcompanha, tabelas,
                NaoIniciado, Pontos, ExecucoesDe
  <1>5. ASSUME NEW s \in Outras(q)
        PROVE  (FormaDe(s) /\ AlvoDe(s) /\ ListaDe(s) /\ GravarDe(s) /\ ConfirmarDe(s))'
    <2>1. s \in RequisicoesCampo /\ Alheia(s)
      BY <1>1, AlheiasFicam DEF Outras
    <2>2. FormaDe(s) /\ AlvoDe(s) /\ ListaDe(s) /\ GravarDe(s) /\ ConfirmarDe(s)
      BY <1>1, <2>1 DEF PedidosCampo
    <2>3. AlvoDe(s)'
      <3>1. \A t \in Outras(s) : alvo'[t] = alvo[t] \/ alvo'[t] = NadaCampo
        <4>1. \A t \in Outras(q) : alvo'[t] = alvo[t]
          BY <1>1, AlheiasFicam DEF Alheia
        <4>2. alvo'[q] = NadaCampo
          BY <1>1, LiberaDeixa
        <4> QED BY <4>1, <4>2 DEF Outras
      <3> QED BY <3>1, <2>1, <2>2, NadaForaDosDominios DEF AlvoDe, Alheia, ExisteCampo, tabelas
    <2> QED BY <2>1, <2>2, <2>3, <1>1, EntraAlheias
  <1> QED BY <1>2, <1>3, <1>4, <1>5 DEF Vale

LEMMA SaiVale ==
  ASSUME IInvCampo, NEW q \in RequisicoesCampo, Libera(q), Grava(q) \/ UNCHANGED tabelas
  PROVE  Vale(q)
  BY ConfirmarVale, CopiarVale, GravarVale, NomeVale, PontosVale, NadaVale DEF Grava

LEMMA InicioCampo == InitCampo => IInvCampo
  <1> SUFFICES ASSUME InitCampo PROVE IInvCampo
    OBVIOUS
  <1> USE DEF InitCampo
  <1>1. \A p \in Planejamentos : /\ plano[p] = SemPlano /\ ExecucoesDe(p) = {}
                                 /\ \A o \in Posicoes : ponto[p][o] = SemPonto
    BY NadaForaDosDominios DEF ExecucoesDe, SemExecucao
  <1>2. SemPlano \in Plano /\ SemPlano.status = "nenhum" /\ SemPlano.quem = "admin"
    BY EdicoesNaturais DEF SemPlano, Plano, Versoes
  <1>3. SemExecucao \in Execucao /\ SemExecucao.tipo = "nenhuma" /\ SemExecucao.plano = NadaCampo
    BY ZeroConta DEF SemExecucao, Execucao
  <1>4. modelo \in Modelo
    BY RotaTemPontos, EdicoesNaturais DEF Modelo, Versoes
  <1>5. TypeOKCampo
    BY <1>2, <1>3, <1>4, SemPontoOK, EdicoesNaturais
       DEF TypeOKCampo, PassosCampo, Operacoes, Versoes
  <1>6. TabelasCampo
    BY <1>1, <1>2, <1>3, SemPontoOK DEF TabelasCampo, Pontos, ExisteCampo, Trabalhados
  <1>7. PlanejamentoConfere
    BY <1>1, <1>2 DEF PlanejamentoConfere, ExecucaoConclui, NaoIniciadoAcompanha, NaoIniciado
  <1>8. PedidosCampo
    BY NadaForaDosDominios
       DEF PedidosCampo, FormaDe, AlvoDe, TravasDe, ListaDe, GravarDe, ConfirmarDe, Outras,
           TemRota, TemCopia, TemPlano, ComAlvo, PassosExecucao, PassosEdicao, PassosLista
  <1> QED BY <1>5, <1>6, <1>7, <1>8 DEF IInvCampo

LEMMA PassoCampo == IInvCampo /\ [NextCampo]_varsCampo => IInvCampo'
  <1>1. ASSUME IInvCampo, NextCampo PROVE IInvCampo'
    <2>1. PICK q \in RequisicoesCampo :
             Iniciar(q) \/ Travar(q) \/ Concluir(q) \/ QuebrarImpasse(q)
      BY <1>1 DEF NextCampo
    <2>2. \/ Entra(q) /\ UNCHANGED tabelas
          \/ Libera(q) /\ (Grava(q) \/ UNCHANGED tabelas)
      BY <2>1, PassosCampoSao
    <2> QED BY <1>1, <2>2, EntraIInv, SaiVale, SaiIInv
  <1>2. ASSUME IInvCampo, UNCHANGED varsCampo PROVE IInvCampo'
    <2> USE <1>2 DEF varsCampo
    <2>1. TypeOKCampo'
      BY DEF IInvCampo, TypeOKCampo
    <2>2. TabelasCampo'
      BY DEF IInvCampo, TabelasCampo, Pontos, ExecucoesDe, ExisteCampo
    <2>3. PlanejamentoConfere'
      BY DEF IInvCampo, PlanejamentoConfere, ExecucaoConclui, NaoIniciadoAcompanha, NaoIniciado,
             Pontos, ExecucoesDe
    <2>4. ASSUME NEW s \in RequisicoesCampo
          PROVE  (FormaDe(s) /\ AlvoDe(s) /\ TravasDe(s) /\ ListaDe(s) /\ GravarDe(s)
                  /\ ConfirmarDe(s))'
      <3>1. /\ FormaDe(s) /\ AlvoDe(s) /\ TravasDe(s) /\ ListaDe(s) /\ GravarDe(s)
            /\ ConfirmarDe(s) /\ TypeOKCampo
        BY DEF IInvCampo, PedidosCampo
      <3>2. UNCHANGED tabelas /\ Alheia(s)
        BY DEF tabelas, Alheia
      <3>3. (FormaDe(s) /\ ListaDe(s) /\ GravarDe(s) /\ ConfirmarDe(s))'
        BY <3>1, <3>2, EntraAlheias
      <3>4. AlvoDe(s)'
        BY <3>1 DEF AlvoDe, ExisteCampo
      <3>5. TravasDe(s)'
        BY <3>1 DEF TravasDe, TemRota, TemCopia, TemPlano
      <3> QED BY <3>3, <3>4, <3>5
    <2>5. PedidosCampo'
      BY <2>4 DEF PedidosCampo
    <2> QED BY <2>1, <2>2, <2>3, <2>5 DEF IInvCampo
  <1> QED BY <1>1, <1>2

LEMMA SempreCampo == SpecCampo => []IInvCampo
  BY InicioCampo, PassoCampo, PTL DEF SpecCampo

\* A planning is concluded by the execution that leaves nothing to do in it, and follows
\* its route until it is started (_persist_execution, synchronize_unstarted_plannings),
\* for any number of teams, plannings, points and edits.
THEOREM PlanejamentoSempreConfere == SpecCampo => []PlanejamentoConfere
  <1>1. IInvCampo => PlanejamentoConfere
    BY DEF IInvCampo
  <1> QED BY <1>1, SempreCampo, PTL

\* No edit of the route takes back what was executed, and nothing is executed in a
\* planning that is not released (update_route, _persist_execution).
THEOREM ExecucaoSempreConfere == SpecCampo => ExecucaoConfere
  <1> DEFINE Fica == \A p \in Planejamentos : ExecucoesDe(p) # {} =>
                        /\ plano'[p].nome = plano[p].nome
                        /\ \A o \in Pontos(p) : /\ ponto'[p][o].status # "nenhum"
                                                /\ ponto'[p][o].versao = ponto[p][o].versao
                        /\ \A k \in ExecucoesDe(p) : execucao'[k] = execucao[k]
             Executa == \A p \in Planejamentos :
                   {k \in Chaves : execucao'[k].plano = p} # ExecucoesDe(p) => Liberado(p)
  <1>1. ASSUME UNCHANGED tabelas PROVE Fica /\ Executa
    BY <1>1 DEF tabelas, Pontos, ExecucoesDe
  <1>2. ASSUME IInvCampo, NEW q \in RequisicoesCampo, Libera(q), Grava(q)
        PROVE  Fica /\ Executa
    <2>1. CASE Confirmar(q)
      <3>1. PICK p \in Planejamentos, k \in Chaves :
               /\ p = alvo[q] /\ Liberado(p)
               /\ execucao[k].plano = NadaCampo /\ execucao'[k].plano = p
               /\ \A j \in Chaves : j # k => execucao'[j] = execucao[j]
        BY <1>2, <2>1, ConfirmarVale
      <3>2. Executa
        BY <3>1, NadaForaDosDominios DEF ExecucoesDe
      <3>3. \A r \in Planejamentos : \A j \in ExecucoesDe(r) : execucao'[j] = execucao[j]
        BY <3>1, NadaForaDosDominios DEF ExecucoesDe
      <3> QED BY <1>2, <2>1, <3>2, <3>3, ConfirmarVale
    <2>2. CASE CopiarPontos(q) \/ SincronizarPontos(q)
      <3>1. /\ execucao' = execucao
            /\ \A p \in Planejamentos : ExecucoesDe(p) # {} => /\ plano'[p] = plano[p]
                                                               /\ ponto'[p] = ponto[p]
        BY <1>2, <2>2, CopiarVale, PontosVale
      <3> QED BY <3>1 DEF Pontos, ExecucoesDe
    <2>3. CASE GravarPlanejamento(q) \/ SincronizarNome(q)
      <3>1. /\ execucao' = execucao /\ ponto' = ponto
            /\ \A p \in Planejamentos : ExecucoesDe(p) # {} => plano'[p].nome = plano[p].nome
        BY <1>2, <2>3, GravarVale, NomeVale
      <3> QED BY <3>1 DEF Pontos, ExecucoesDe
    <2> QED BY <1>2, <2>1, <2>2, <2>3 DEF Grava
  <1>3. IInvCampo /\ [NextCampo]_varsCampo => [Fica /\ Executa]_varsCampo
    <2>1. ASSUME IInvCampo, NextCampo PROVE Fica /\ Executa
      <3>1. PICK q \in RequisicoesCampo :
               Iniciar(q) \/ Travar(q) \/ Concluir(q) \/ QuebrarImpasse(q)
        BY <2>1 DEF NextCampo
      <3>2. \/ Entra(q) /\ UNCHANGED tabelas
            \/ Libera(q) /\ (Grava(q) \/ UNCHANGED tabelas)
        BY <3>1, PassosCampoSao
      <3> HIDE DEF Fica, Executa
      <3> QED BY <2>1, <3>2, <1>1, <1>2
    <2> HIDE DEF Fica, Executa
    <2> QED BY <2>1
  <1>4. SpecCampo => [][Fica]_varsCampo /\ [][Executa]_varsCampo
    <2> HIDE DEF Fica, Executa
    <2>1. IInvCampo /\ [NextCampo]_varsCampo => [Fica]_varsCampo /\ [Executa]_varsCampo
      BY <1>3
    <2> QED BY <2>1, SempreCampo, PTL DEF SpecCampo
  <1> QED BY <1>4, PTL DEF ExecucaoConfere, ExecutadoFica, SoLiberadoExecuta
=============================================================================

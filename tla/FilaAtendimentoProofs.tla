------------------------ MODULE FilaAtendimentoProofs ------------------------
(***************************************************************************)
(* Proofs about FilaAtendimento, for every number of operators, persons,   *)
(* attendances and simultaneous requests.                                  *)
(*                                                                         *)
(* UmAbertoPorPessoa is not inductive: a resume writes its UPDATE in one   *)
(* step and commits in another, so what it checked must still hold when it *)
(* commits.  PendenteOK says that it does, because the uncommitted row and *)
(* index entry make every other writer wait.                               *)
(*                                                                         *)
(* The second part proves that the handlers implement FilaExclusiva.       *)
(* FilaOK says that one request at a time has the lock of an operator,     *)
(* LimiteOK that the operator's open attendances stay below the limit that *)
(* request has read; every step opens one attendance, closes one, or       *)
(* leaves who is with whom as it is (PassoEfeito).                         *)
(*                                                                         *)
(* The third part is about the other attendance, at public events          *)
(* (AgendaPublica): FichasOK says what the lock of a form's identity keeps *)
(* between its statements, LidasPublicasOK why a presence it read as       *)
(* missing is not one that another form confirmed meanwhile.               *)
(*                                                                         *)
(* The fourth part is about the copies of events at Google (GoogleAgenda). *)
(* Fala(e, g) collects everything that says that g is the copy of the      *)
(* event e: Google itself, the link, committed or in a draft, the list of  *)
(* a push, an item of a pull and the step under way. UmId, that they all   *)
(* name one, is kept because a pull that has gone past a copy has linked   *)
(* it (PuxadosOK), because nobody else can take that copy meanwhile        *)
(* (CopiasOK, Unicos), and because an event that a lone push is about to   *)
(* create has none (ACriar).  AcertoOK is what makes the two calendars     *)
(* equal in the end: a copy newer than its link is one that a pull is      *)
(* still going to see (LigadoOK), an event newer than its link is one that *)
(* a push is still going to send (CalmaOK), and synchronizations that      *)
(* start from equal calendars keep them equal (MantidoOK).                 *)
(***************************************************************************)
EXTENDS FilaAtendimento, AgendaPublica, GoogleAgenda, FiniteSetTheorems, WellFoundedInduction, TLAPS

\* Steps that work on an attendance the request chose when it arrived.
PassosDeAlvo == {"verAtiva", "verAberto", "verTerminal", "travarFila", "reabrir", "reaberta",
                 "concedida", "fechar", "fechada", "invalidar"}

\* An attendance in use belongs to a registered person.
PessoaDeOK ==
    \A a \in Atendimentos : situacao[a] # "inexistente" =>
        pessoaDe[a] \in Pessoas /\ cadastro[pessoaDe[a]] # "inexistente"

AlvoOK(r) == req[r].atend \in Atendimentos /\ situacao[req[r].atend] # "inexistente"

FormaOK ==
    \A r \in Requisicoes :
        /\ req[r].passo \in PassosDeAlvo => req[r].tipo \in {"retomada", "edicao"}
        /\ req[r].passo = "limite" => req[r].tipo \in Tipos
        /\ req[r].tipo \in {"retomada", "edicao"} => AlvoOK(r)
        /\ req[r].passo = "fechada" => req[r].sit \in Encerradas
        /\ req[r].passo = "inserir" =>
              req[r].pessoa \in Pessoas /\ cadastro[req[r].pessoa] # "inexistente"

Pendente(r) == req[r].passo \in {"reaberta", "fechada"}

PendenteOK ==
    \A r \in Requisicoes :
        /\ req[r].passo = "reaberta" =>
              /\ situacao[req[r].atend] \in Retomaveis
              /\ \A b \in Atendimentos : Aberto(b) => pessoaDe[b] # pessoaDe[req[r].atend]
        /\ req[r].passo = "fechada" => Aberto(req[r].atend)
        /\ Pendente(r) => \A s \in Requisicoes \ {r} : Pendente(s) =>
              /\ req[s].atend # req[r].atend
              /\ req[r].passo = "reaberta" /\ req[s].passo = "reaberta" =>
                    pessoaDe[req[s].atend] # pessoaDe[req[r].atend]

IInv == TypeOK /\ PessoaDeOK /\ FormaOK /\ PendenteOK /\ UmAbertoPorPessoa

LEMMA InitTipos == Init => TypeOK
  BY NadaDistinto DEF Init, TypeOK, Requisicao, Ociosa, Passos, Situacoes

LEMMA InitIInv == Init => IInv
  BY InitTipos, NadaDistinto DEF Init, IInv, PessoaDeOK, FormaOK, PendenteOK, UmAbertoPorPessoa, Ociosa,
     PassosDeAlvo, Aberto, Pendente

-----------------------------------------------------------------------------
(* Types. *)

LEMMA RegistroElegiveis ==
  ASSUME NEW x \in Requisicao, NEW e \in SUBSET Pessoas
  PROVE  [x EXCEPT !.passo = "travarPessoa", !.eleg = e] \in Requisicao
  BY DEF Requisicao, Passos, PassosComFila

LEMMA ElegivelEPessoa ==
  ASSUME NEW x \in Requisicao, NEW p \in x.eleg
  PROVE  p \in Pessoas
  BY DEF Requisicao

LEMMA RegistroSorteado ==
  ASSUME NEW x \in Requisicao, NEW p \in Pessoas
  PROVE  [x EXCEPT !.passo = "inserir", !.pessoa = p, !.eleg = {}] \in Requisicao
  BY DEF Requisicao, Passos, PassosComFila

LEMMA FotografarTipos ==
  ASSUME TypeOK, NEW r \in Requisicoes, Fotografar(r)
  PROVE  req' \in [Requisicoes -> Requisicao]
<1> DEFINE E == {p \in Pessoas : Elegivel(p)}
           x == [req[r] EXCEPT !.passo = "travarPessoa", !.eleg = E]
<1>1. req[r] \in Requisicao  BY DEF TypeOK
<1>2. x \in Requisicao  BY <1>1, RegistroElegiveis
<1>3. req' = [req EXCEPT ![r] = x]  BY DEF Fotografar
<1> HIDE DEF x
<1>4. QED  BY <1>2, <1>3 DEF TypeOK

LEMMA SorteadoAtivo ==
  ASSUME TypeOK, NEW r \in Requisicoes, NEW p \in Sorteaveis(r)
  PROVE  p \in Pessoas /\ cadastro[p] = "ativo"
<1>1. req[r] \in Requisicao  BY DEF TypeOK
<1>2. QED  BY <1>1, ElegivelEPessoa DEF Sorteaveis

LEMMA SorteadoTipos ==
  ASSUME TypeOK, NEW r \in Requisicoes, NEW p \in Sorteaveis(r),
         req' = [req EXCEPT ![r] = [@ EXCEPT !.passo = "inserir", !.pessoa = p, !.eleg = {}]]
  PROVE  req' \in [Requisicoes -> Requisicao]
<1> DEFINE x == [req[r] EXCEPT !.passo = "inserir", !.pessoa = p, !.eleg = {}]
<1>1. req[r] \in Requisicao  BY DEF TypeOK
<1>2. p \in Pessoas  BY SorteadoAtivo
<1>3. x \in Requisicao  BY <1>1, <1>2, RegistroSorteado
<1> HIDE DEF x
<1>4. req' = [req EXCEPT ![r] = x]  BY DEF x
<1>5. QED  BY <1>3, <1>4 DEF TypeOK

LEMMA PassoTipos ==
  ASSUME TypeOK, FormaOK, Next
  PROVE  TypeOK'
<1> USE DEF TypeOK, Requisicao, Passos, PassosComFila, Situacoes, Encerradas, Definitivas, Retomaveis
<1>1. ASSUME NEW r \in Requisicoes, NEW o \in Operadores, Chegar(r, o)
      PROVE  TypeOK'
  <2>1. ASSUME NEW t \in {"sorteio", "manual"}, TravarFila(r, o, t)
        PROVE  TypeOK'
    BY <2>1 DEF TravarFila, Ociosa, Tipos, tabelas
  <2>2. ASSUME NEW a \in Atendimentos, LerParaRetomar(r, o, a)
        PROVE  TypeOK'
    BY <2>2 DEF LerParaRetomar, Ociosa, Tipos, tabelas
  <2>3. ASSUME NEW a \in Atendimentos, NEW p \in {"fechar", "invalidar"}, LerProprio(r, o, a, p)
        PROVE  TypeOK'
    BY <2>3 DEF LerProprio, Ociosa, Tipos, tabelas
  <2>4. QED  BY <1>1, <2>1, <2>2, <2>3 DEF Chegar
<1>2. ASSUME NEW r \in Requisicoes, Continuar(r)
      PROVE  TypeOK'
  <2>1. CASE LerLimite(r)
    BY <2>1 DEF LerLimite, ProximoDoLimite, Terminar, Ociosa, Tipos, tabelas
  <2>2. CASE Fotografar(r)
    BY <2>2, FotografarTipos DEF Fotografar, tabelas
  <2>3. CASE TravarPessoa(r)
    <3>1. CASE Sorteaveis(r) = {}
      BY <2>3, <3>1 DEF TravarPessoa, Terminar, Ociosa, Tipos, tabelas
    <3>2. CASE Sorteaveis(r) # {}
      <4>1. req' \in [Requisicoes -> Requisicao]  BY <2>3, <3>2, SorteadoTipos DEF TravarPessoa
      <4>2. QED  BY <2>3, <4>1 DEF TravarPessoa, tabelas
    <3>3. QED  BY <3>1, <3>2
  <2>4. CASE Inserir(r)
    BY <2>4 DEF Inserir, Abrir, NovoId, Livres, Terminar, Ociosa, Tipos, tabelas
  <2>5. ASSUME NEW f \in Telefones, ConsultarTelefone(r, f)
        PROVE  TypeOK'
    BY <2>5 DEF ConsultarTelefone, Terminar, Ociosa, Tipos, tabelas
  <2>6. CASE Cadastrar(r)
    BY <2>6 DEF Cadastrar, Abrir, NovoId, Livres, Terminar, Ociosa, Tipos, tabelas
  <2>7. CASE VerAtiva(r) \/ VerAberto(r) \/ VerTerminal(r)
    BY <2>7 DEF VerAtiva, VerAberto, VerTerminal, Conferir, Avancar, Terminar, Ociosa, Tipos, tabelas
  <2>8. CASE TravarFilaRetomada(r) \/ Reabrir(r) \/ Responder(r) \/ QuebrarImpasse(r)
    BY <2>8 DEF TravarFilaRetomada, Reabrir, Responder, QuebrarImpasse, Avancar, Terminar, Ociosa,
                Tipos, tabelas
  <2>9. CASE ConfirmarRetomada(r)
    BY <2>9 DEF ConfirmarRetomada, Abrir, Avancar, FormaOK, PassosDeAlvo, AlvoOK
  <2>10. ASSUME NEW s \in Encerradas, Fechar(r, s)
         PROVE  TypeOK'
    BY <2>10 DEF Fechar, Terminar, Ociosa, Tipos, tabelas
  <2>11. CASE ConfirmarFechamento(r)
    BY <2>11 DEF ConfirmarFechamento, Terminar, Ociosa, Tipos, FormaOK
  <2>12. CASE Invalidar(r)
    BY <2>12 DEF Invalidar, Terminar, Ociosa, Tipos
  <2>13. QED
    BY <1>2, <2>1, <2>2, <2>3, <2>4, <2>5, <2>6, <2>7, <2>8, <2>9, <2>10, <2>11, <2>12 DEF Continuar
<1>3. ASSUME NEW o \in Operadores, NEW p \in Pessoas, NEW s \in Encerradas, RegistrarContato(o, p, s)
      PROVE  TypeOK'
  BY <1>3 DEF RegistrarContato, NovoId, Livres
<1>4. ASSUME NEW l \in Limites, AlterarLimite(l)
      PROVE  TypeOK'
  BY <1>4 DEF AlterarLimite, tabelas
<1>5. QED  BY <1>1, <1>2, <1>3, <1>4 DEF Next

\* What a draw's second step leaves: a refusal, or an active person held.
LEMMA TravarPessoaQuadro ==
  ASSUME TypeOK, NEW r \in Requisicoes, TravarPessoa(r)
  PROVE  /\ UNCHANGED <<tabelas, limite>>
         /\ \A s \in Requisicoes \ {r} : req'[s] = req[s]
         /\ \/ req'[r] = Ociosa
            \/ /\ req'[r].passo = "inserir"
               /\ req'[r].pessoa \in Pessoas /\ cadastro[req'[r].pessoa] = "ativo"
               /\ req'[r].tipo = req[r].tipo /\ req'[r].atend = req[r].atend
               /\ req'[r].op = req[r].op /\ req'[r].lim = req[r].lim
<1>1. req \in [Requisicoes -> Requisicao] /\ req[r] \in Requisicao  BY DEF TypeOK
<1>2. CASE Sorteaveis(r) = {}
  BY <1>1, <1>2 DEF TravarPessoa, Terminar
<1>3. CASE Sorteaveis(r) # {}
  <2>1. PICK p \in Sorteaveis(r) :
          req' = [req EXCEPT ![r] = [@ EXCEPT !.passo = "inserir", !.pessoa = p, !.eleg = {}]]
    BY <1>3 DEF TravarPessoa
  <2>2. p \in Pessoas /\ cadastro[p] = "ativo"  BY SorteadoAtivo
  <2>3. req'[r] = [req[r] EXCEPT !.passo = "inserir", !.pessoa = p, !.eleg = {}]
    BY <1>1, <2>1
  <2>4. /\ req'[r].passo = "inserir" /\ req'[r].pessoa = p
        /\ req'[r].tipo = req[r].tipo /\ req'[r].atend = req[r].atend
        /\ req'[r].op = req[r].op /\ req'[r].lim = req[r].lim
    BY <1>1, <2>3 DEF Requisicao
  <2>5. \A s \in Requisicoes \ {r} : req'[s] = req[s]  BY <1>1, <2>1
  <2>6. QED  BY <2>2, <2>4, <2>5 DEF TravarPessoa
<1>4. QED  BY <1>2, <1>3

LEMMA PassoPessoaDe ==
  ASSUME IInv, Next
  PROVE  PessoaDeOK'
<1> USE DEF IInv, PessoaDeOK, TypeOK
<1>1. ASSUME NEW r \in Requisicoes, NEW o \in Operadores, Chegar(r, o)
      PROVE  PessoaDeOK'
  <2>1. ASSUME NEW t \in {"sorteio", "manual"}, TravarFila(r, o, t)
        PROVE  PessoaDeOK'
    BY <2>1 DEF TravarFila, tabelas
  <2>2. ASSUME NEW a \in Atendimentos, LerParaRetomar(r, o, a)
        PROVE  PessoaDeOK'
    BY <2>2 DEF LerParaRetomar, tabelas
  <2>3. ASSUME NEW a \in Atendimentos, NEW p \in {"fechar", "invalidar"}, LerProprio(r, o, a, p)
        PROVE  PessoaDeOK'
    BY <2>3 DEF LerProprio, tabelas
  <2>4. QED  BY <1>1, <2>1, <2>2, <2>3 DEF Chegar
<1>2. ASSUME NEW r \in Requisicoes, Continuar(r)
      PROVE  PessoaDeOK'
  <2>1. CASE LerLimite(r)
    BY <2>1 DEF LerLimite, ProximoDoLimite, Terminar, tabelas
  <2>2. CASE Fotografar(r)
    BY <2>2 DEF Fotografar, tabelas
  <2>3. CASE TravarPessoa(r)
    BY <2>3, TravarPessoaQuadro DEF tabelas
  <2>4. CASE Inserir(r)
    BY <2>4 DEF Inserir, Abrir, NovoId, Livres, Terminar, tabelas, FormaOK
  <2>5. ASSUME NEW f \in Telefones, ConsultarTelefone(r, f)
        PROVE  PessoaDeOK'
    BY <2>5 DEF ConsultarTelefone, Terminar, tabelas
  <2>6. CASE Cadastrar(r)
    BY <2>6 DEF Cadastrar, Abrir, NovoId, Livres, NovaPessoa, Terminar
  <2>7. CASE VerAtiva(r) \/ VerAberto(r) \/ VerTerminal(r)
    BY <2>7 DEF VerAtiva, VerAberto, VerTerminal, Conferir, Avancar, Terminar, tabelas
  <2>8. CASE TravarFilaRetomada(r)
    BY <2>8 DEF TravarFilaRetomada, Avancar, tabelas
  <2>9. CASE Reabrir(r)
    BY <2>9 DEF Reabrir, Avancar, Terminar, tabelas
  <2>10. CASE ConfirmarRetomada(r)
    BY <2>10 DEF ConfirmarRetomada, Abrir, Avancar, FormaOK, AlvoOK, PassosDeAlvo
  <2>11. CASE Responder(r) \/ QuebrarImpasse(r)
    BY <2>11 DEF Responder, QuebrarImpasse, Terminar, tabelas
  <2>12. ASSUME NEW s \in Encerradas, Fechar(r, s)
        PROVE  PessoaDeOK'
    BY <2>12 DEF Fechar, Terminar, tabelas
  <2>13. CASE ConfirmarFechamento(r)
    BY <2>13 DEF ConfirmarFechamento, Terminar, FormaOK, PendenteOK, Aberto
  <2>14. CASE Invalidar(r)
    BY <2>14 DEF Invalidar, Terminar, FormaOK, AlvoOK, PassosDeAlvo
  <2>15. QED
    BY <1>2, <2>1, <2>2, <2>3, <2>4, <2>5, <2>6, <2>7, <2>8, <2>9, <2>10, <2>11, <2>12, <2>13,
       <2>14 DEF Continuar
<1>3. ASSUME NEW o \in Operadores, NEW p \in Pessoas, NEW s \in Encerradas, RegistrarContato(o, p, s)
      PROVE  PessoaDeOK'
  BY <1>3 DEF RegistrarContato, NovoId, Livres
<1>4. ASSUME NEW l \in Limites, AlterarLimite(l)
      PROVE  PessoaDeOK'
  BY <1>4 DEF AlterarLimite, tabelas
<1>5. QED  BY <1>1, <1>2, <1>3, <1>4 DEF Next

LEMMA PassoForma ==
  ASSUME IInv, Next
  PROVE  FormaOK'
<1> USE DEF IInv, FormaOK, AlvoOK, PassosDeAlvo, Tipos, TypeOK, Requisicao, Ociosa
<1>1. ASSUME NEW r \in Requisicoes, NEW o \in Operadores, Chegar(r, o)
      PROVE  FormaOK'
  <2>1. ASSUME NEW t \in {"sorteio", "manual"}, TravarFila(r, o, t)
        PROVE  FormaOK'
    BY <2>1 DEF TravarFila, tabelas
  <2>2. ASSUME NEW a \in Atendimentos, LerParaRetomar(r, o, a)
        PROVE  FormaOK'
    BY <2>2 DEF LerParaRetomar, tabelas, Retomaveis
  <2>3. ASSUME NEW a \in Atendimentos, NEW p \in {"fechar", "invalidar"}, LerProprio(r, o, a, p)
        PROVE  FormaOK'
    BY <2>3 DEF LerProprio, tabelas, Aberto
  <2>4. QED  BY <1>1, <2>1, <2>2, <2>3 DEF Chegar
<1>2. ASSUME NEW r \in Requisicoes, Continuar(r)
      PROVE  FormaOK'
  <2>1. CASE LerLimite(r)
    BY <2>1 DEF LerLimite, ProximoDoLimite, Terminar, tabelas
  <2>2. CASE Fotografar(r)
    BY <2>2 DEF Fotografar, tabelas
  <2>3. CASE TravarPessoa(r)
    BY <2>3, TravarPessoaQuadro DEF tabelas
  <2>4. CASE Inserir(r)
    BY <2>4 DEF Inserir, Abrir, NovoId, Livres, Terminar, tabelas
  <2>5. ASSUME NEW f \in Telefones, ConsultarTelefone(r, f)
        PROVE  FormaOK'
    BY <2>5 DEF ConsultarTelefone, Terminar, tabelas
  <2>6. CASE Cadastrar(r)
    BY <2>6 DEF Cadastrar, Abrir, NovoId, Livres, NovaPessoa, Terminar
  <2>7. CASE VerAtiva(r) \/ VerAberto(r) \/ VerTerminal(r)
    BY <2>7 DEF VerAtiva, VerAberto, VerTerminal, Conferir, Avancar, Terminar, tabelas
  <2>8. CASE TravarFilaRetomada(r)
    BY <2>8 DEF TravarFilaRetomada, Avancar, tabelas
  <2>9. CASE Reabrir(r)
    BY <2>9 DEF Reabrir, Avancar, Terminar, tabelas
  <2>10. CASE ConfirmarRetomada(r)
    BY <2>10 DEF ConfirmarRetomada, Abrir, Avancar
  <2>11. CASE Responder(r) \/ QuebrarImpasse(r)
    BY <2>11 DEF Responder, QuebrarImpasse, Terminar, tabelas
  <2>12. ASSUME NEW s \in Encerradas, Fechar(r, s)
        PROVE  FormaOK'
    BY <2>12 DEF Fechar, Terminar, tabelas
  <2>13. CASE ConfirmarFechamento(r)
    BY <2>13 DEF ConfirmarFechamento, Terminar, Encerradas, Definitivas, Retomaveis
  <2>14. CASE Invalidar(r)
    BY <2>14 DEF Invalidar, Terminar
  <2>15. QED
    BY <1>2, <2>1, <2>2, <2>3, <2>4, <2>5, <2>6, <2>7, <2>8, <2>9, <2>10, <2>11, <2>12, <2>13,
       <2>14 DEF Continuar
<1>3. ASSUME NEW o \in Operadores, NEW p \in Pessoas, NEW s \in Encerradas, RegistrarContato(o, p, s)
      PROVE  FormaOK'
  BY <1>3 DEF RegistrarContato, NovoId, Livres
<1>4. ASSUME NEW l \in Limites, AlterarLimite(l)
      PROVE  FormaOK'
  BY <1>4 DEF AlterarLimite, tabelas
<1>5. QED  BY <1>1, <1>2, <1>3, <1>4 DEF Next

LEMMA PassoUmAberto ==
  ASSUME IInv, Next
  PROVE  UmAbertoPorPessoa'
<1> USE DEF IInv, UmAbertoPorPessoa, TypeOK, Aberto
<1>1. ASSUME NEW r \in Requisicoes, NEW o \in Operadores, Chegar(r, o)
      PROVE  UmAbertoPorPessoa'
  <2>1. ASSUME NEW t \in {"sorteio", "manual"}, TravarFila(r, o, t)
        PROVE  UmAbertoPorPessoa'
    BY <2>1 DEF TravarFila, tabelas
  <2>2. ASSUME NEW a \in Atendimentos, LerParaRetomar(r, o, a)
        PROVE  UmAbertoPorPessoa'
    BY <2>2 DEF LerParaRetomar, tabelas
  <2>3. ASSUME NEW a \in Atendimentos, NEW p \in {"fechar", "invalidar"}, LerProprio(r, o, a, p)
        PROVE  UmAbertoPorPessoa'
    BY <2>3 DEF LerProprio, tabelas
  <2>4. QED  BY <1>1, <2>1, <2>2, <2>3 DEF Chegar
<1>2. ASSUME NEW r \in Requisicoes, Continuar(r)
      PROVE  UmAbertoPorPessoa'
  <2>1. CASE LerLimite(r)
    BY <2>1 DEF LerLimite, ProximoDoLimite, Terminar, tabelas
  <2>2. CASE Fotografar(r)
    BY <2>2 DEF Fotografar, tabelas
  <2>3. CASE TravarPessoa(r)
    BY <2>3, TravarPessoaQuadro DEF tabelas
  <2>4. CASE Inserir(r)
    BY <2>4 DEF Inserir, Abrir, NovoId, Livres, Terminar, tabelas, FormaOK, AbertosDaPessoa
  <2>5. ASSUME NEW f \in Telefones, ConsultarTelefone(r, f)
        PROVE  UmAbertoPorPessoa'
    BY <2>5 DEF ConsultarTelefone, Terminar, tabelas
  <2>6. CASE Cadastrar(r)
    BY <2>6 DEF Cadastrar, Abrir, NovoId, Livres, NovaPessoa, Terminar, PessoaDeOK
  <2>7. CASE VerAtiva(r) \/ VerAberto(r) \/ VerTerminal(r)
    BY <2>7 DEF VerAtiva, VerAberto, VerTerminal, Conferir, Avancar, Terminar, tabelas
  <2>8. CASE TravarFilaRetomada(r)
    BY <2>8 DEF TravarFilaRetomada, Avancar, tabelas
  <2>9. CASE Reabrir(r)
    BY <2>9 DEF Reabrir, Avancar, Terminar, tabelas
  <2>10. CASE ConfirmarRetomada(r)
    BY <2>10 DEF ConfirmarRetomada, Abrir, Avancar, FormaOK, AlvoOK, PassosDeAlvo, PendenteOK
  <2>11. CASE Responder(r) \/ QuebrarImpasse(r)
    BY <2>11 DEF Responder, QuebrarImpasse, Terminar, tabelas
  <2>12. ASSUME NEW s \in Encerradas, Fechar(r, s)
        PROVE  UmAbertoPorPessoa'
    BY <2>12 DEF Fechar, Terminar, tabelas
  <2>13. CASE ConfirmarFechamento(r)
    BY <2>13 DEF ConfirmarFechamento, Terminar, FormaOK, Encerradas, Definitivas, Retomaveis
  <2>14. CASE Invalidar(r)
    BY <2>14 DEF Invalidar, Terminar
  <2>15. QED
    BY <1>2, <2>1, <2>2, <2>3, <2>4, <2>5, <2>6, <2>7, <2>8, <2>9, <2>10, <2>11, <2>12, <2>13,
       <2>14 DEF Continuar
<1>3. ASSUME NEW o \in Operadores, NEW p \in Pessoas, NEW s \in Encerradas, RegistrarContato(o, p, s)
      PROVE  UmAbertoPorPessoa'
  BY <1>3 DEF RegistrarContato, NovoId, Livres, Encerradas, Definitivas, Retomaveis
<1>4. ASSUME NEW l \in Limites, AlterarLimite(l)
      PROVE  UmAbertoPorPessoa'
  BY <1>4 DEF AlterarLimite, tabelas
<1>5. QED  BY <1>1, <1>2, <1>3, <1>4 DEF Next

LEMMA PassoPendente ==
  ASSUME IInv, Next
  PROVE  PendenteOK'
<1> USE DEF IInv, PendenteOK, Pendente, TypeOK, Requisicao, Ociosa, FormaOK, AlvoOK, PassosDeAlvo,
       Aberto
<1>1. ASSUME NEW r \in Requisicoes, NEW o \in Operadores, Chegar(r, o)
      PROVE  PendenteOK'
  <2>1. ASSUME NEW t \in {"sorteio", "manual"}, TravarFila(r, o, t)
        PROVE  PendenteOK'
    BY <2>1 DEF TravarFila, tabelas
  <2>2. ASSUME NEW a \in Atendimentos, LerParaRetomar(r, o, a)
        PROVE  PendenteOK'
    BY <2>2 DEF LerParaRetomar, tabelas
  <2>3. ASSUME NEW a \in Atendimentos, NEW p \in {"fechar", "invalidar"}, LerProprio(r, o, a, p)
        PROVE  PendenteOK'
    BY <2>3 DEF LerProprio, tabelas
  <2>4. QED  BY <1>1, <2>1, <2>2, <2>3 DEF Chegar
<1>2. ASSUME NEW r \in Requisicoes, Continuar(r)
      PROVE  PendenteOK'
  <2>1. CASE LerLimite(r)
    BY <2>1 DEF LerLimite, ProximoDoLimite, Terminar, tabelas
  <2>2. CASE Fotografar(r)
    BY <2>2 DEF Fotografar, tabelas
  <2>3. CASE TravarPessoa(r)
    BY <2>3, TravarPessoaQuadro DEF tabelas
  <2>4. CASE Inserir(r)
    BY <2>4 DEF Inserir, Abrir, NovoId, Livres, Terminar, tabelas, IndiceLivre, EscritaPendente
  <2>5. ASSUME NEW f \in Telefones, ConsultarTelefone(r, f)
        PROVE  PendenteOK'
    BY <2>5 DEF ConsultarTelefone, Terminar, tabelas
  <2>6. CASE Cadastrar(r)
    BY <2>6 DEF Cadastrar, Abrir, NovoId, Livres, NovaPessoa, Terminar, PessoaDeOK
  <2>7. CASE VerAtiva(r) \/ VerAberto(r) \/ VerTerminal(r)
    BY <2>7 DEF VerAtiva, VerAberto, VerTerminal, Conferir, Avancar, Terminar, tabelas
  <2>8. CASE TravarFilaRetomada(r)
    BY <2>8 DEF TravarFilaRetomada, Avancar, tabelas
  <2>9. CASE Reabrir(r)
    BY <2>9 DEF Reabrir, Avancar, Terminar, tabelas, LinhaLivre, IndiceLivre, EscritaPendente,
       AbertosDaPessoa
  <2>10. CASE ConfirmarRetomada(r)
    BY <2>10 DEF ConfirmarRetomada, Abrir, Avancar
  <2>11. CASE Responder(r) \/ QuebrarImpasse(r)
    BY <2>11 DEF Responder, QuebrarImpasse, Terminar, tabelas
  <2>12. ASSUME NEW s \in Encerradas, Fechar(r, s)
        PROVE  PendenteOK'
    BY <2>12 DEF Fechar, Terminar, tabelas, LinhaLivre, EscritaPendente, UmAbertoPorPessoa
  <2>13. CASE ConfirmarFechamento(r)
    BY <2>13 DEF ConfirmarFechamento, Terminar, Encerradas, Definitivas, Retomaveis
  <2>14. CASE Invalidar(r)
    BY <2>14 DEF Invalidar, Terminar, LinhaLivre, EscritaPendente
  <2>15. QED
    BY <1>2, <2>1, <2>2, <2>3, <2>4, <2>5, <2>6, <2>7, <2>8, <2>9, <2>10, <2>11, <2>12, <2>13,
       <2>14 DEF Continuar
<1>3. ASSUME NEW o \in Operadores, NEW p \in Pessoas, NEW s \in Encerradas, RegistrarContato(o, p, s)
      PROVE  PendenteOK'
  BY <1>3 DEF RegistrarContato, NovoId, Livres, Retomaveis, Encerradas, Definitivas
<1>4. ASSUME NEW l \in Limites, AlterarLimite(l)
      PROVE  PendenteOK'
  BY <1>4 DEF AlterarLimite, tabelas
<1>5. QED  BY <1>1, <1>2, <1>3, <1>4 DEF Next

\* A definitive closing survives every step.
LEMMA PassoDefinitivo ==
  ASSUME IInv, Next, NEW b \in Atendimentos
  PROVE  DefinitivoFica(b)
<1> USE DEF IInv, TypeOK, DefinitivoFica, Definitivas, FormaOK, AlvoOK, PassosDeAlvo, Aberto
<1>1. ASSUME NEW r \in Requisicoes, NEW o \in Operadores, Chegar(r, o)
      PROVE  DefinitivoFica(b)
  <2>1. ASSUME NEW t \in {"sorteio", "manual"}, TravarFila(r, o, t)
        PROVE  DefinitivoFica(b)
    BY <2>1 DEF TravarFila, tabelas
  <2>2. ASSUME NEW a \in Atendimentos, LerParaRetomar(r, o, a)
        PROVE  DefinitivoFica(b)
    BY <2>2 DEF LerParaRetomar, tabelas
  <2>3. ASSUME NEW a \in Atendimentos, NEW p \in {"fechar", "invalidar"}, LerProprio(r, o, a, p)
        PROVE  DefinitivoFica(b)
    BY <2>3 DEF LerProprio, tabelas
  <2>4. QED  BY <1>1, <2>1, <2>2, <2>3 DEF Chegar
<1>2. ASSUME NEW r \in Requisicoes, Continuar(r)
      PROVE  DefinitivoFica(b)
  <2>1. CASE LerLimite(r)
    BY <2>1 DEF LerLimite, ProximoDoLimite, Terminar, tabelas
  <2>2. CASE Fotografar(r)
    BY <2>2 DEF Fotografar, tabelas
  <2>3. CASE TravarPessoa(r)
    BY <2>3, TravarPessoaQuadro DEF tabelas
  <2>4. CASE Inserir(r)
    BY <2>4 DEF Inserir, Abrir, NovoId, Livres, Terminar, tabelas
  <2>5. ASSUME NEW f \in Telefones, ConsultarTelefone(r, f)
        PROVE  DefinitivoFica(b)
    BY <2>5 DEF ConsultarTelefone, Terminar, tabelas
  <2>6. CASE Cadastrar(r)
    BY <2>6 DEF Cadastrar, Abrir, NovoId, Livres, NovaPessoa, Terminar
  <2>7. CASE VerAtiva(r) \/ VerAberto(r) \/ VerTerminal(r)
    BY <2>7 DEF VerAtiva, VerAberto, VerTerminal, Conferir, Avancar, Terminar, tabelas
  <2>8. CASE TravarFilaRetomada(r)
    BY <2>8 DEF TravarFilaRetomada, Avancar, tabelas
  <2>9. CASE Reabrir(r)
    BY <2>9 DEF Reabrir, Avancar, Terminar, tabelas
  <2>10. CASE ConfirmarRetomada(r)
    BY <2>10 DEF ConfirmarRetomada, Abrir, Avancar, PendenteOK, Retomaveis
  <2>11. CASE Responder(r) \/ QuebrarImpasse(r)
    BY <2>11 DEF Responder, QuebrarImpasse, Terminar, tabelas
  <2>12. ASSUME NEW s \in Encerradas, Fechar(r, s)
        PROVE  DefinitivoFica(b)
    BY <2>12 DEF Fechar, Terminar, tabelas
  <2>13. CASE ConfirmarFechamento(r)
    BY <2>13 DEF ConfirmarFechamento, Terminar, PendenteOK, Retomaveis
  <2>14. CASE Invalidar(r)
    BY <2>14 DEF Invalidar, Terminar
  <2>15. QED
    BY <1>2, <2>1, <2>2, <2>3, <2>4, <2>5, <2>6, <2>7, <2>8, <2>9, <2>10, <2>11, <2>12, <2>13,
       <2>14 DEF Continuar
<1>3. ASSUME NEW o \in Operadores, NEW p \in Pessoas, NEW s \in Encerradas, RegistrarContato(o, p, s)
      PROVE  DefinitivoFica(b)
  BY <1>3 DEF RegistrarContato, NovoId, Livres
<1>4. ASSUME NEW l \in Limites, AlterarLimite(l)
      PROVE  DefinitivoFica(b)
  BY <1>4 DEF AlterarLimite, tabelas
<1>5. QED  BY <1>1, <1>2, <1>3, <1>4 DEF Next

LEMMA PassoIInv == IInv /\ [Next]_vars => IInv'
<1>1. ASSUME IInv, Next PROVE IInv'
  BY <1>1, PassoTipos, PassoPessoaDe, PassoForma, PassoPendente, PassoUmAberto DEF IInv
<1>2. ASSUME IInv, UNCHANGED vars PROVE IInv'
  BY <1>2 DEF IInv, TypeOK, PessoaDeOK, FormaOK, AlvoOK, PendenteOK, Pendente, UmAbertoPorPessoa,
              Aberto, vars
<1>3. QED  BY <1>1, <1>2

-----------------------------------------------------------------------------
\* The strengthened invariant, inductive, holds in every reachable state.
THEOREM Invariante == Spec => []IInv
<1>1. QED  BY InitIInv, PassoIInv, PTL DEF Spec

\* Every reachable state is well typed.
THEOREM TiposCorretos == Spec => []TypeOK
<1>1. IInv => TypeOK  BY DEF IInv
<1>2. QED  BY <1>1, Invariante, PTL

\* No person ever has two open attendances, for any number of operators,
\* requests and attendances.
THEOREM PessoaComUmAberto == Spec => []UmAbertoPorPessoa
<1>1. IInv => UmAbertoPorPessoa  BY DEF IInv
<1>2. QED  BY <1>1, Invariante, PTL

\* A "concluido" or "numero_invalido" attendance is never reopened, closed
\* again or handed over, whatever stale decision a request carries.
THEOREM EncerramentoFica == Spec => EncerramentoDefinitivo
<1>1. IInv /\ [Next]_vars => [\A a \in Atendimentos : DefinitivoFica(a)]_vars
  BY PassoDefinitivo
<1>2. QED  BY <1>1, Invariante, PTL DEF Spec, EncerramentoDefinitivo

-----------------------------------------------------------------------------
(***************************************************************************)
(* The refinement.  That an operator never exceeds its limit needs to know *)
(* what the advisory lock protects: between the comparison with the limit  *)
(* and the write, no other request of that operator opens an attendance.   *)
(***************************************************************************)

\* Steps of a request that holds its operator's lock and has read the limit.
PassosLidos == PassosComFila \ {"limite"}

FilaOK ==
    /\ \A r \in Requisicoes : req[r].passo # "ocioso" => req[r].op \in Operadores
    /\ \A r, s \in Requisicoes :
          req[r].passo \in PassosComFila /\ req[s].passo \in PassosComFila /\ req[r].op = req[s].op
              => r = s

AtendenteOK == \A a \in Atendimentos : Aberto(a) => atendente[a] \in Operadores

LimiteOK ==
    /\ \A o \in Operadores : IsFiniteSet(AbertosDe(o))
    /\ \A r \in Requisicoes :
          req[r].passo \in PassosLidos => Cardinality(AbertosDe(req[r].op)) < req[r].lim

IInvFila == FilaOK /\ AtendenteOK /\ LimiteOK

LEMMA InitFila == Init => IInvFila
<1> SUFFICES ASSUME Init PROVE IInvFila
  OBVIOUS
<1>1. FilaOK
  BY DEF Init, FilaOK, Ociosa, PassosComFila
<1>2. AtendenteOK
  BY DEF Init, AtendenteOK, Aberto
<1>3. \A o \in Operadores : AbertosDe(o) = {}
  BY DEF Init, AbertosDe, Aberto
<1>4. LimiteOK
  BY <1>3, FS_EmptySet DEF Init, LimiteOK, Ociosa, PassosLidos, PassosComFila
<1> QED
  BY <1>1, <1>2, <1>4 DEF IInvFila

\* A request either keeps its lock and what it read, takes the lock when it is
\* free, reads the limit, or has no lock.
Move(r) ==
    \/ req'[r].passo = "ocioso"
    \/ req'[r].passo \notin PassosComFila /\ req'[r].op \in Operadores
    \/ req'[r].passo = "limite" /\ req'[r].op \in Operadores /\ ~FilaTravada(req'[r].op)
    \/ /\ req[r].passo \in PassosLidos /\ req'[r].passo \in PassosLidos
       /\ req'[r].op = req[r].op /\ req'[r].lim = req[r].lim
    \/ /\ req[r].passo = "limite" /\ req'[r].passo \in PassosLidos
       /\ req'[r].op = req[r].op /\ req'[r].lim = limite
       /\ Cardinality(AbertosDe(req[r].op)) < limite

\* What a step does to the attendances: nothing that a queue sees, one opened
\* by a request with the lock, or one closed.
Abertura(r, a, p) ==
    /\ req[r].passo \in PassosLidos
    /\ req'[r].passo \notin PassosComFila
    /\ \A s \in Requisicoes \ {r} : req'[s] = req[s]
    /\ ~Aberto(a)
    /\ AbertosDaPessoa(p) = {}
    /\ Abrir(a, req[r].op, p)

Fechamento(a, s) ==
    /\ Aberto(a)
    /\ s # "em_atendimento"
    /\ situacao' = [situacao EXCEPT ![a] = s]
    /\ UNCHANGED <<atendente, pessoaDe>>

Nenhum(a) == ~Aberto(a) /\ ~Aberto(a)'

Parado ==
    \A a \in Atendimentos :
        \/ Nenhum(a)
        \/ Aberto(a) /\ Aberto(a)' /\ atendente'[a] = atendente[a] /\ pessoaDe'[a] = pessoaDe[a]

Efeito ==
    \/ Parado
    \/ \E r \in Requisicoes, a \in Atendimentos, p \in Pessoas : Abertura(r, a, p)
    \/ \E a \in Atendimentos, s \in Situacoes : Fechamento(a, s)

LEMMA TabelasParadas == UNCHANGED tabelas => Parado
  BY DEF tabelas, Parado, Nenhum, Aberto

LEMMA PassoMove ==
  ASSUME IInv, FilaOK, NEW r \in Requisicoes, Continuar(r) \/ \E o \in Operadores : Chegar(r, o)
  PROVE  Move(r) /\ \A s \in Requisicoes \ {r} : req'[s] = req[s]
<1> USE DEF IInv, TypeOK, Requisicao, PassosLidos, PassosComFila, FilaOK, Ociosa, Move
<1>1. ASSUME NEW o \in Operadores, Chegar(r, o)
      PROVE  Move(r) /\ \A s \in Requisicoes \ {r} : req'[s] = req[s]
  <2>1. ASSUME NEW t \in {"sorteio", "manual"}, TravarFila(r, o, t)
        PROVE  Move(r) /\ \A s \in Requisicoes \ {r} : req'[s] = req[s]
    BY <2>1 DEF TravarFila
  <2>2. ASSUME NEW a \in Atendimentos, LerParaRetomar(r, o, a)
        PROVE  Move(r) /\ \A s \in Requisicoes \ {r} : req'[s] = req[s]
    BY <2>2 DEF LerParaRetomar
  <2>3. ASSUME NEW a \in Atendimentos, NEW p \in {"fechar", "invalidar"}, LerProprio(r, o, a, p)
        PROVE  Move(r) /\ \A s \in Requisicoes \ {r} : req'[s] = req[s]
    BY <2>3 DEF LerProprio
  <2> QED
    BY <1>1, <2>1, <2>2, <2>3 DEF Chegar
<1>2. CASE LerLimite(r)
  BY <1>2 DEF LerLimite, ProximoDoLimite, Terminar
<1>3. CASE Fotografar(r)
  <2> DEFINE E == {p \in Pessoas : Elegivel(p)}
             x == [req[r] EXCEPT !.passo = "travarPessoa", !.eleg = E]
  <2>1. req' = [req EXCEPT ![r] = x] /\ req[r].passo = "fotografar"
    BY <1>3 DEF Fotografar
  <2>2. x.passo = "travarPessoa" /\ x.op = req[r].op /\ x.lim = req[r].lim
    OBVIOUS
  <2> HIDE DEF x
  <2> QED
    BY <2>1, <2>2
<1>4. CASE TravarPessoa(r)
  <2>1. req[r].passo = "travarPessoa"
    BY <1>4 DEF TravarPessoa
  <2>2. \/ req'[r].passo = "ocioso"
        \/ req'[r].passo = "inserir" /\ req'[r].op = req[r].op /\ req'[r].lim = req[r].lim
    <3> HIDE DEF TypeOK
    <3> QED
      BY <1>4, TravarPessoaQuadro
  <2>3. \A s \in Requisicoes \ {r} : req'[s] = req[s]
    <3> HIDE DEF TypeOK
    <3> QED
      BY <1>4, TravarPessoaQuadro
  <2> QED
    BY <2>1, <2>2, <2>3
<1>5. CASE Inserir(r)
  BY <1>5 DEF Inserir, Terminar
<1>6. ASSUME NEW f \in Telefones, ConsultarTelefone(r, f)
      PROVE  Move(r) /\ \A s \in Requisicoes \ {r} : req'[s] = req[s]
  BY <1>6 DEF ConsultarTelefone, Terminar
<1>7. CASE Cadastrar(r)
  BY <1>7 DEF Cadastrar, Terminar
<1>8. CASE VerAtiva(r) \/ VerAberto(r) \/ VerTerminal(r)
  BY <1>8 DEF VerAtiva, VerAberto, VerTerminal, Conferir, Avancar, Terminar
<1>9. CASE TravarFilaRetomada(r)
  BY <1>9 DEF TravarFilaRetomada, Avancar
<1>10. CASE Reabrir(r)
  BY <1>10 DEF Reabrir, Avancar, Terminar
<1>11. CASE ConfirmarRetomada(r) \/ Responder(r) \/ QuebrarImpasse(r)
  BY <1>11 DEF ConfirmarRetomada, Responder, QuebrarImpasse, Avancar, Terminar
<1>12. ASSUME NEW s \in Encerradas, Fechar(r, s)
       PROVE  Move(r) /\ \A q \in Requisicoes \ {r} : req'[q] = req[q]
  BY <1>12 DEF Fechar, Terminar
<1>13. CASE ConfirmarFechamento(r) \/ Invalidar(r)
  BY <1>13 DEF ConfirmarFechamento, Invalidar, Terminar
<1> QED
  BY <1>1, <1>2, <1>3, <1>4, <1>5, <1>6, <1>7, <1>8, <1>9, <1>10, <1>11, <1>12, <1>13 DEF Continuar

LEMMA PassoEfeito ==
  ASSUME IInv, FilaOK, Next
  PROVE  Efeito
<1> USE DEF IInv, TypeOK
<1>1. ASSUME NEW r \in Requisicoes, NEW o \in Operadores, Chegar(r, o)
      PROVE  UNCHANGED tabelas
  BY <1>1 DEF Chegar, TravarFila, LerParaRetomar, LerProprio
<1>2. ASSUME NEW r \in Requisicoes, Inserir(r)
      PROVE  Efeito
  <2>1. CASE AbertosDaPessoa(req[r].pessoa) # {}
    BY <1>2, <2>1, TabelasParadas DEF Inserir, Efeito
  <2>2. CASE AbertosDaPessoa(req[r].pessoa) = {}
    <3>1. PICK a \in Atendimentos : NovoId(a) /\ Abrir(a, req[r].op, req[r].pessoa)
      BY <1>2, <2>2 DEF Inserir
    <3>2. req[r].passo = "inserir" /\ req' = [req EXCEPT ![r] = Ociosa] /\ req[r].pessoa \in Pessoas
      BY <1>2 DEF Inserir, Terminar, FormaOK
    <3>3. Abertura(r, a, req[r].pessoa)
      BY <2>2, <3>1, <3>2 DEF Abertura, NovoId, Livres, Aberto, PassosLidos, PassosComFila, Ociosa
    <3> QED
      BY <3>2, <3>3 DEF Efeito
  <2> QED
    BY <2>1, <2>2
<1>3. ASSUME NEW r \in Requisicoes, Cadastrar(r)
      PROVE  Efeito
  <2>1. PICK p \in Pessoas, a \in Atendimentos : NovaPessoa(p) /\ NovoId(a) /\ Abrir(a, req[r].op, p)
    BY <1>3 DEF Cadastrar
  <2>2. AbertosDaPessoa(p) = {}
    BY <2>1 DEF NovaPessoa, AbertosDaPessoa, Aberto, PessoaDeOK
  <2>3. Abertura(r, a, p)
    BY <1>3, <2>1, <2>2 DEF Cadastrar, Terminar, Abertura, NovoId, Livres, Aberto, PassosLidos,
                            PassosComFila, Ociosa
  <2> QED
    BY <2>3 DEF Efeito
<1>4. ASSUME NEW r \in Requisicoes, ConfirmarRetomada(r)
      PROVE  Efeito
  <2> DEFINE a == req[r].atend
             p == pessoaDe[a]
  <2>1. a \in Atendimentos /\ p \in Pessoas
    BY <1>4 DEF ConfirmarRetomada, FormaOK, AlvoOK, PassosDeAlvo, PessoaDeOK
  <2>2. ~Aberto(a) /\ AbertosDaPessoa(p) = {}
    BY <1>4 DEF ConfirmarRetomada, PendenteOK, AbertosDaPessoa, Aberto, Retomaveis
  <2>3. Abertura(r, a, p)
    BY <1>4, <2>2 DEF ConfirmarRetomada, Avancar, Abertura, PassosLidos, PassosComFila, Requisicao
  <2> QED
    BY <2>1, <2>3 DEF Efeito
<1>5. ASSUME NEW r \in Requisicoes, ConfirmarFechamento(r)
      PROVE  Efeito
  <2>1. Fechamento(req[r].atend, req[r].sit)
    BY <1>5 DEF ConfirmarFechamento, Fechamento, PendenteOK, FormaOK, Encerradas, Definitivas,
                Retomaveis
  <2>2. req[r].atend \in Atendimentos /\ req[r].sit \in Situacoes
    BY <1>5 DEF ConfirmarFechamento, FormaOK, AlvoOK, PassosDeAlvo, Situacoes
  <2> QED
    BY <2>1, <2>2 DEF Efeito
<1>6. ASSUME NEW r \in Requisicoes, Invalidar(r)
      PROVE  Efeito
  <2>1. req[r].atend \in Atendimentos
    BY <1>6 DEF Invalidar, FormaOK, AlvoOK, PassosDeAlvo
  <2>2. CASE Aberto(req[r].atend)
    <3>1. Fechamento(req[r].atend, "numero_invalido")
      BY <1>6, <2>2 DEF Invalidar, Fechamento
    <3> QED
      BY <2>1, <3>1 DEF Efeito, Situacoes, Encerradas, Definitivas
  <2>3. CASE ~Aberto(req[r].atend)
    BY <1>6, <2>1, <2>3 DEF Invalidar, Efeito, Parado, Nenhum, Aberto
  <2> QED
    BY <2>2, <2>3
<1>7. ASSUME NEW o \in Operadores, NEW p \in Pessoas, NEW s \in Encerradas, RegistrarContato(o, p, s)
      PROVE  Efeito
  BY <1>7 DEF RegistrarContato, NovoId, Livres, Efeito, Parado, Nenhum, Aberto, Encerradas,
              Definitivas, Retomaveis
<1>8. ASSUME NEW l \in Limites, AlterarLimite(l)
      PROVE  UNCHANGED tabelas
  BY <1>8 DEF AlterarLimite
<1>9. ASSUME NEW r \in Requisicoes, Continuar(r)
      PROVE  Efeito
  <2>1. \/ Inserir(r) \/ Cadastrar(r) \/ ConfirmarRetomada(r) \/ ConfirmarFechamento(r) \/ Invalidar(r)
        \/ UNCHANGED tabelas
    BY <1>9 DEF Continuar, LerLimite, Fotografar, TravarPessoa, ConsultarTelefone, VerAtiva, VerAberto,
                VerTerminal, Conferir, TravarFilaRetomada, Reabrir, Responder, Fechar, QuebrarImpasse
  <2> QED
    BY <2>1, <1>2, <1>3, <1>4, <1>5, <1>6, TabelasParadas DEF Efeito
<1> QED
  BY <1>1, <1>7, <1>8, <1>9, TabelasParadas DEF Next, Efeito

LEMMA PassoFilaOK ==
  ASSUME IInv, FilaOK, Next
  PROVE  FilaOK'
<1>1. CASE UNCHANGED req
  BY <1>1 DEF FilaOK
<1>2. ASSUME NEW r \in Requisicoes, Move(r), \A s \in Requisicoes \ {r} : req'[s] = req[s]
      PROVE  FilaOK'
  BY <1>2 DEF FilaOK, Move, FilaTravada, PassosLidos, PassosComFila
<1> QED
  BY <1>1, <1>2, PassoMove DEF Next, RegistrarContato, AlterarLimite

LEMMA PassoAtendente ==
  ASSUME IInv, IInvFila, Next
  PROVE  AtendenteOK'
<1>1. CASE Parado
  BY <1>1 DEF Parado, Nenhum, AtendenteOK, IInvFila
<1>2. ASSUME NEW r \in Requisicoes, NEW a \in Atendimentos, NEW p \in Pessoas, Abertura(r, a, p)
      PROVE  AtendenteOK'
  <2>1. req[r].op \in Operadores
    BY <1>2 DEF Abertura, IInvFila, FilaOK, PassosLidos, PassosComFila
  <2> QED
    BY <1>2, <2>1 DEF Abertura, Abrir, AtendenteOK, Aberto, IInvFila, IInv, TypeOK
<1>3. ASSUME NEW a \in Atendimentos, NEW s \in Situacoes, Fechamento(a, s)
      PROVE  AtendenteOK'
  BY <1>3 DEF Fechamento, AtendenteOK, Aberto, IInvFila, IInv, TypeOK
<1> QED
  BY <1>1, <1>2, <1>3, PassoEfeito DEF Efeito, IInvFila

LEMMA LimitesNaturais ==
  ASSUME TypeOK, NEW r \in Requisicoes
  PROVE  req[r].lim \in 0 .. 50 /\ limite \in 1 .. 50
<1>1. req[r] \in Requisicao
  BY DEF TypeOK
<1>2. req[r].lim \in Limites \cup {0}
  BY <1>1 DEF Requisicao
<1>3. limite \in Limites
  BY DEF TypeOK
<1>4. \A x \in 1 .. 50 : x \in 0 .. 50
  OBVIOUS
<1>5. 0 \in 0 .. 50
  OBVIOUS
<1>6. \A x \in Limites : x \in 1 .. 50
  BY LimitesPositivos, Zenon
<1> QED
  BY <1>2, <1>3, <1>4, <1>5, <1>6

LEMMA PassoLimite ==
  ASSUME IInv, IInvFila, Next
  PROVE  LimiteOK'
<1>1. ASSUME \A o \in Operadores : AbertosDe(o)' \subseteq AbertosDe(o)
      PROVE  LimiteOK'
  <2>1. \A o \in Operadores : /\ IsFiniteSet(AbertosDe(o)') /\ IsFiniteSet(AbertosDe(o))
                              /\ Cardinality(AbertosDe(o)') <= Cardinality(AbertosDe(o))
                              /\ Cardinality(AbertosDe(o)') \in Nat /\ Cardinality(AbertosDe(o)) \in Nat
    BY <1>1, FS_Subset, FS_CardinalityType DEF IInvFila, LimiteOK
  <2>2. ASSUME NEW s \in Requisicoes, req'[s].passo \in PassosLidos
        PROVE  (Cardinality(AbertosDe(req[s].op)) < req[s].lim)'
    <3>1. \/ req[s].passo \in PassosLidos /\ req'[s].op = req[s].op /\ req'[s].lim = req[s].lim
          \/ /\ req[s].passo = "limite" /\ req'[s].op = req[s].op /\ req'[s].lim = limite
             /\ Cardinality(AbertosDe(req[s].op)) < limite
      <4>1. CASE UNCHANGED req
        BY <2>2, <4>1
      <4>2. ASSUME NEW r \in Requisicoes, Move(r), \A q \in Requisicoes \ {r} : req'[q] = req[q]
            PROVE  \/ req[s].passo \in PassosLidos /\ req'[s].op = req[s].op /\ req'[s].lim = req[s].lim
                   \/ /\ req[s].passo = "limite" /\ req'[s].op = req[s].op /\ req'[s].lim = limite
                      /\ Cardinality(AbertosDe(req[s].op)) < limite
        BY <2>2, <4>2 DEF Move, PassosLidos, PassosComFila
      <4> QED
        BY <4>1, <4>2, PassoMove DEF Next, RegistrarContato, AlterarLimite, IInvFila
    <3>2. PICK o \in Operadores : o = req[s].op
      BY <3>1 DEF IInvFila, FilaOK, PassosLidos, PassosComFila
    <3>3. Cardinality(AbertosDe(o)) < req'[s].lim
      BY <3>1, <3>2 DEF IInvFila, LimiteOK
    <3>4. req'[s].lim \in Nat
      <4>1. req[s].lim \in Nat /\ limite \in Nat
        BY LimitesNaturais DEF IInv
      <4> QED
        BY <3>1, <4>1
    <3>5. Cardinality(AbertosDe(o)') < req'[s].lim
      BY <2>1, <3>3, <3>4
    <3>6. AbertosDe(req[s].op)' = AbertosDe(o)'
      BY <3>1, <3>2 DEF AbertosDe
    <3> QED
      BY <3>5, <3>6
  <2> QED
    BY <2>1, <2>2 DEF LimiteOK
<1>2. ASSUME NEW r \in Requisicoes, NEW a \in Atendimentos, NEW p \in Pessoas, Abertura(r, a, p)
      PROVE  LimiteOK'
  <2>1. \A o \in Operadores : AbertosDe(o)' \subseteq AbertosDe(o) \cup {a}
    BY <1>2 DEF Abertura, Abrir, AbertosDe, Aberto, IInv, TypeOK
  <2>2. \A o \in Operadores : IsFiniteSet(AbertosDe(o)')
    BY <2>1, FS_AddElement, FS_Subset DEF IInvFila, LimiteOK
  <2>3. ASSUME NEW s \in Requisicoes, req'[s].passo \in PassosLidos
        PROVE  (Cardinality(AbertosDe(req[s].op)) < req[s].lim)'
    <3>1. s # r /\ req'[s] = req[s]
      BY <1>2, <2>3 DEF Abertura, PassosLidos
    <3>2. PICK o \in Operadores : o = req[s].op /\ o # req[r].op
      BY <1>2, <2>3, <3>1 DEF Abertura, IInvFila, FilaOK, PassosLidos, PassosComFila
    <3>3. AbertosDe(o)' = AbertosDe(o)
      BY <1>2, <3>2 DEF Abertura, Abrir, AbertosDe, Aberto, IInv, TypeOK
    <3>4. AbertosDe(req[s].op)' = AbertosDe(o)
      BY <3>1, <3>2, <3>3 DEF AbertosDe
    <3>5. Cardinality(AbertosDe(o)) < req[s].lim
      BY <2>3, <3>1, <3>2 DEF IInvFila, LimiteOK
    <3> QED
      BY <3>1, <3>4, <3>5
  <2> QED
    BY <2>2, <2>3 DEF LimiteOK
<1>3. Parado => \A o \in Operadores : AbertosDe(o)' \subseteq AbertosDe(o)
  BY DEF Parado, Nenhum, AbertosDe
<1>4. ASSUME NEW a \in Atendimentos, NEW s \in Situacoes, Fechamento(a, s)
      PROVE  \A o \in Operadores : AbertosDe(o)' \subseteq AbertosDe(o)
  BY <1>4 DEF Fechamento, AbertosDe, Aberto, IInv, TypeOK
<1> QED
  BY <1>1, <1>2, <1>3, <1>4, PassoEfeito DEF Efeito, IInvFila

LEMMA PassoIInvFila == IInv /\ IInvFila /\ [Next]_vars => IInvFila'
<1>1. ASSUME IInv, IInvFila, Next PROVE IInvFila'
  BY <1>1, PassoFilaOK, PassoAtendente, PassoLimite DEF IInvFila
<1>2. ASSUME IInvFila, UNCHANGED vars PROVE IInvFila'
  BY <1>2 DEF IInvFila, FilaOK, AtendenteOK, LimiteOK, AbertosDe, Aberto, vars
<1>3. QED  BY <1>1, <1>2

\* A finite set of limits, all at most 50, has a greatest element.
LEMMA Maximo ==
  ASSUME NEW S \in SUBSET (0 .. 50), S # {}
  PROVE  \E l \in S : \A k \in S : k <= l
<1> DEFINE T == {n \in Nat : 50 - n \in S}
<1>1. T \subseteq Nat /\ T # {}
  <2>1. PICK l \in S : TRUE
    OBVIOUS
  <2>2. 50 - l \in T
    BY <2>1
  <2> QED
    BY <2>2
<1> HIDE DEF T
<1>2. PICK m \in T : \A n \in T : <<n, m>> \notin OpToRel(<, Nat)
  BY <1>1, NatLessThanWellFounded, WFMin
<1>3. m \in Nat /\ \A n \in T : n \in Nat /\ ~(n < m)
  BY <1>1, <1>2, Zenon DEF OpToRel
<1>4. 50 - m \in S
  BY DEF T
<1>5. ASSUME NEW k \in S
      PROVE  k <= 50 - m
  <2>1. 50 - k \in T
    BY DEF T
  <2> QED
    BY <1>3, <2>1
<1> QED
  BY <1>4, <1>5

\* The abstract limit of an operator is one of those read, and no smaller than
\* that of any request of the operator.
LEMMA TetoAlto ==
  ASSUME TypeOK, NEW r \in Requisicoes, req[r].op \in Operadores
  PROVE  Teto(req[r].op) \in Nat /\ req[r].lim <= Teto(req[r].op)
<1> DEFINE o == req[r].op
           lidos == {limite} \cup {req[q].lim : q \in {s \in Requisicoes : req[s].op = o}}
<1>1. lidos \in SUBSET (0 .. 50) /\ lidos # {} /\ req[r].lim \in lidos
  <2>1. \A q \in Requisicoes : req[q].lim \in 0 .. 50 /\ limite \in 0 .. 50
    BY LimitesNaturais
  <2> QED
    BY <2>1
<1>2. Teto(o) = CHOOSE l \in lidos : \A k \in lidos : k <= l
  BY DEF Teto
<1>3. Teto(o) \in lidos /\ \A k \in lidos : k <= Teto(o)
  <2> HIDE DEF lidos, o
  <2> QED
    BY <1>1, <1>2, Maximo
<1>4. Teto(o) \in 0 .. 50 /\ req[r].lim <= Teto(o)
  <2> HIDE DEF lidos, o
  <2> QED
    BY <1>1, <1>3
<1> QED
  BY <1>4

\* The queue of an operator has no more persons than open attendances.
LEMMA FilaCabe ==
  ASSUME IInv, IInvFila, NEW o \in Operadores
  PROVE  /\ Cardinality(Fila!Fila(o)) \in Nat /\ Cardinality(AbertosDe(o)) \in Nat
         /\ Cardinality(Fila!Fila(o)) <= Cardinality(AbertosDe(o))
<1> DEFINE S == AbertosDe(o)
           T == {pessoaDe[a] : a \in S}
           f == [a \in S |-> pessoaDe[a]]
<1>1. IsFiniteSet(S)
  BY DEF IInvFila, LimiteOK
<1>2. f \in Surjection(S, T)
  BY DEF Surjection
<1>3. IsFiniteSet(T) /\ Cardinality(T) <= Cardinality(S)
  BY <1>1, <1>2, FS_Surjection
<1>4. Fila!Fila(o) \subseteq T
  <2> SUFFICES ASSUME NEW p \in Pessoas, Dono(p) = o
               PROVE  p \in T
    BY DEF Fila!Fila
  <2>1. AbertosDaPessoa(p) # {}
    BY NadaDistinto DEF Dono
  <2>2. PICK a \in AbertosDaPessoa(p) : atendente[a] = o
    BY <2>1 DEF Dono
  <2>3. a \in S /\ pessoaDe[a] = p
    BY <2>2 DEF AbertosDe, AbertosDaPessoa
  <2> QED
    BY <2>3
<1> HIDE DEF S, T
<1>5. IsFiniteSet(Fila!Fila(o)) /\ Cardinality(Fila!Fila(o)) <= Cardinality(T)
  BY <1>3, <1>4, FS_Subset
<1>6. Cardinality(Fila!Fila(o)) \in Nat /\ Cardinality(T) \in Nat /\ Cardinality(S) \in Nat
  BY <1>1, <1>3, <1>5, FS_CardinalityType
<1> QED
  BY <1>3, <1>5, <1>6 DEF S

\* The person of an open attendance is with its operator and with nobody else.
LEMMA DonoDoAberto ==
  ASSUME IInv, NEW a \in Atendimentos, Aberto(a)
  PROVE  AbertosDaPessoa(pessoaDe[a]) = {a} /\ Dono(pessoaDe[a]) = atendente[a]
<1>1. AbertosDaPessoa(pessoaDe[a]) = {a}
  BY DEF IInv, UmAbertoPorPessoa, AbertosDaPessoa
<1> QED
  BY <1>1 DEF Dono

\* A person whose open attendances stay as they are keeps its operator.
LEMMA DonoFica ==
  ASSUME NEW p, AbertosDaPessoa(p)' = AbertosDaPessoa(p),
         \A a \in AbertosDaPessoa(p) : atendente'[a] = atendente[a]
  PROVE  Dono(p)' = Dono(p)
<1>1. CASE AbertosDaPessoa(p) = {}
  BY <1>1 DEF Dono
<1>2. CASE AbertosDaPessoa(p) # {}
  <2> DEFINE c == CHOOSE a \in AbertosDaPessoa(p) : TRUE
  <2>1. c \in AbertosDaPessoa(p)
    BY <1>2
  <2>2. Dono(p) = atendente[c]
    BY <1>2 DEF Dono
  <2>3. Dono(p)' = atendente'[c]
    BY <1>2 DEF Dono
  <2> QED
    BY <2>1, <2>2, <2>3
<1> QED
  BY <1>1, <1>2

donos == [p \in Pessoas |-> Dono(p)]

\* The abstract queue counts with the same operator.
LEMMA MesmaContagem == \A S : Fila!Cardinality(S) = Cardinality(S)
  BY DEF Fila!Cardinality, Cardinality

LEMMA AberturaAssume ==
  ASSUME IInv, IInvFila, NEW r \in Requisicoes, NEW a \in Atendimentos, NEW p \in Pessoas,
         Abertura(r, a, p)
  PROVE  Fila!Assumir(req[r].op, p) /\ req[r].op \in Operadores
<1> DEFINE o == req[r].op
<1>1. o \in Operadores
  BY DEF Abertura, IInvFila, FilaOK, PassosLidos, PassosComFila
<1>2. Dono(p) = Nada
  BY DEF Abertura, Dono
<1>3. Cardinality(Fila!Fila(o)) < Teto(o)
  <2>1. Cardinality(AbertosDe(o)) < req[r].lim
    BY DEF Abertura, IInvFila, LimiteOK
  <2>2. req[r].lim \in Nat
    BY LimitesNaturais DEF IInv
  <2>3. Teto(o) \in Nat /\ req[r].lim <= Teto(o)
    BY <1>1, TetoAlto DEF IInv
  <2>4. /\ Cardinality(Fila!Fila(o)) \in Nat /\ Cardinality(AbertosDe(o)) \in Nat
        /\ Cardinality(Fila!Fila(o)) <= Cardinality(AbertosDe(o))
    BY <1>1, FilaCabe
  <2> HIDE DEF o
  <2> QED
    BY <2>1, <2>2, <2>3, <2>4
<1>4. AbertosDaPessoa(p)' = {a} /\ atendente'[a] = o
  BY DEF Abertura, Abrir, AbertosDaPessoa, Aberto, IInv, TypeOK
<1>5. Dono(p)' = o
  BY <1>4 DEF Dono
<1>6. ASSUME NEW q \in Pessoas, q # p
      PROVE  Dono(q)' = Dono(q)
  <2>1. AbertosDaPessoa(q)' = AbertosDaPessoa(q)
    BY <1>6 DEF Abertura, Abrir, AbertosDaPessoa, Aberto, IInv, TypeOK
  <2>2. \A b \in AbertosDaPessoa(q) : atendente'[b] = atendente[b]
    BY <1>6 DEF Abertura, Abrir, AbertosDaPessoa, Aberto, IInv, TypeOK
  <2> QED
    BY <2>1, <2>2, DonoFica
<1>7. donos' = [donos EXCEPT ![p] = o]
  BY <1>5, <1>6 DEF donos
<1>8. Fila!Cardinality(Fila!Fila(o)) < Teto(o)
  BY <1>3, MesmaContagem
<1> QED
  BY <1>1, <1>2, <1>7, <1>8 DEF Fila!Assumir, donos

LEMMA FechamentoLibera ==
  ASSUME IInv, IInvFila, NEW a \in Atendimentos, NEW s \in Situacoes, Fechamento(a, s)
  PROVE  \E p \in Pessoas : Fila!Liberar(p)
<1>1. PICK p \in Pessoas : p = pessoaDe[a]
  BY DEF Fechamento, Aberto, IInv, PessoaDeOK
<1>2. AbertosDaPessoa(p) = {a} /\ Dono(p) = atendente[a]
  BY <1>1, DonoDoAberto DEF Fechamento
<1>3. Dono(p) # Nada
  BY <1>2, NadaDistinto DEF Fechamento, IInvFila, AtendenteOK
<1>4. AbertosDaPessoa(p)' = {}
  BY <1>2 DEF Fechamento, AbertosDaPessoa, Aberto, IInv, TypeOK
<1>5. Dono(p)' = Nada
  BY <1>4 DEF Dono
<1>6. ASSUME NEW q \in Pessoas, q # p
      PROVE  Dono(q)' = Dono(q)
  <2>1. AbertosDaPessoa(q)' = AbertosDaPessoa(q)
    BY <1>1, <1>6 DEF Fechamento, AbertosDaPessoa, Aberto, IInv, TypeOK
  <2> QED
    BY <2>1, DonoFica DEF Fechamento
<1>7. donos' = [donos EXCEPT ![p] = Nada]
  BY <1>5, <1>6 DEF donos
<1> QED
  BY <1>1, <1>3, <1>7 DEF Fila!Liberar, donos

LEMMA ParadoMantem ==
  ASSUME Parado
  PROVE  donos' = donos
<1>1. ASSUME NEW p \in Pessoas
      PROVE  Dono(p)' = Dono(p)
  <2>1. AbertosDaPessoa(p)' = AbertosDaPessoa(p)
    BY DEF Parado, Nenhum, AbertosDaPessoa
  <2>2. \A a \in AbertosDaPessoa(p) : atendente'[a] = atendente[a]
    BY DEF Parado, Nenhum, AbertosDaPessoa
  <2> QED
    BY <2>1, <2>2, DonoFica
<1> QED
  BY <1>1 DEF donos

LEMMA InitRefina == Init => Fila!Init
<1> SUFFICES ASSUME Init PROVE Fila!Init
  OBVIOUS
<1>1. \A p \in Pessoas : Dono(p) = Nada
  BY DEF Init, Dono, AbertosDaPessoa, Aberto
<1>2. ASSUME NEW o \in Operadores
      PROVE  Teto(o) \in Nat
  <2> DEFINE lidos == {limite} \cup {req[q].lim : q \in {s \in Requisicoes : req[s].op = o}}
  <2>1. lidos = {limite} /\ limite \in Nat
    BY NadaDistinto, LimitesPositivos DEF Init, Ociosa
  <2>2. Teto(o) = CHOOSE l \in lidos : \A k \in lidos : k <= l
    BY DEF Teto
  <2> HIDE DEF lidos
  <2> QED
    BY <2>1, <2>2
<1> QED
  BY <1>1, <1>2 DEF Fila!Init

LEMMA PassoRefina == IInv /\ IInvFila /\ [Next]_vars => [Fila!Next]_donos
<1>1. ASSUME IInv, IInvFila, Next
      PROVE  Fila!Next \/ donos' = donos
  <2>1. CASE Parado
    BY <2>1, ParadoMantem
  <2>2. ASSUME NEW r \in Requisicoes, NEW a \in Atendimentos, NEW p \in Pessoas, Abertura(r, a, p)
        PROVE  Fila!Next
    BY <1>1, <2>2, AberturaAssume DEF Fila!Next
  <2>3. ASSUME NEW a \in Atendimentos, NEW s \in Situacoes, Fechamento(a, s)
        PROVE  Fila!Next
    BY <1>1, <2>3, FechamentoLibera DEF Fila!Next
  <2> QED
    BY <1>1, <2>1, <2>2, <2>3, PassoEfeito DEF Efeito, IInvFila
<1>2. ASSUME UNCHANGED vars
      PROVE  donos' = donos
  BY <1>2, TabelasParadas, ParadoMantem DEF vars, tabelas
<1> QED
  BY <1>1, <1>2

\* The handlers implement the exclusive, bounded queue, for any number of
\* operators, people and simultaneous requests and whatever limits are set
\* while they run (the five handlers of atendimento_service.py).
THEOREM FilaImplementada == Spec => ImplementaFila
<1>1. Spec => [](IInv /\ IInvFila)
  <2>1. Init => IInvFila
    BY InitFila
  <2>2. Spec => []IInv
    BY Invariante
  <2> QED
    BY <2>1, <2>2, PassoIInvFila, PTL DEF Spec
<1>2. Spec => Fila!Init /\ [][Fila!Next]_donos
  BY <1>1, InitRefina, PassoRefina, PTL DEF Spec
<1> QED
  BY <1>2, PTL DEF ImplementaFila, Fila!Spec, donos

-----------------------------------------------------------------------------
(***************************************************************************)
(* Public attendance of an event.                                          *)
(***************************************************************************)
Valores == {"sim", "nao", "nulo", "nenhuma"}
Compromisso == [st : {"livre", "vivo", "cancelado", "excluido"}, agenda : Agendas \cup {NinguemAgenda},
                periodo : {"aberto", "fechado"}]
FichaPublica == [origem : {"livre", "formulario", "cadastro"}, fones : SUBSET Celulares]
Presenca == [v : Valores, quem : {"gestor", "form"}]
Formulario == [passo : {"livre", "travar", "ficha", "participacao", "gravar"},
               c : Compromissos \cup {NinguemAgenda}, fone : Celulares \cup {NinguemAgenda},
               ficha : Fichas \cup {NinguemAgenda}, periodo : {"aberto", "fechado"}, lida : Valores]
Gestor == [op : Iniciativas \cup {"nada"}, c : Compromissos \cup {NinguemAgenda},
           a : Agendas \cup {NinguemAgenda}]

TipoPublica ==
    /\ agenda \in [Agendas -> {"viva", "excluida"}]
    /\ compromisso \in [Compromissos -> Compromisso]
    /\ ficha \in [Fichas -> FichaPublica]
    /\ presenca \in [Compromissos -> [Fichas -> Presenca]]
    /\ form \in [Formularios -> Formulario]
    /\ gestor \in [Gestores -> Gestor]
    /\ atos \in Nat /\ apressados \subseteq Compromissos

PassosComIdentidade == {"ficha", "participacao", "gravar"}
PassosComFicha == {"participacao", "gravar"}

\* A form that has its identity's lock is the only one with that phone.
IdentidadesOK ==
    \A f \in Formularios :
        /\ form[f].passo # "livre" => form[f].c \in Compromissos /\ form[f].fone \in Celulares
        /\ form[f].passo \in PassosComFicha => form[f].ficha \in Fichas
        /\ form[f].passo \notin PassosComFicha => form[f].ficha = NinguemAgenda
        /\ \A h \in Formularios \ {f} :
              form[f].passo \in PassosComIdentidade /\ form[h].passo \in PassosComIdentidade =>
                  form[f].fone # form[h].fone

\* The record a form works on has its phone, or is about to be inserted, by this
\* form alone, and then no other record made by a form has the phone.
FichasOK ==
    /\ \A p \in Fichas : ficha[p].origem = "livre" => ficha[p].fones = {}
    /\ \A f \in Formularios : form[f].passo \in PassosComFicha =>
          LET p == form[f].ficha IN
          \/ form[f].fone \in ficha[p].fones
          \/ /\ ficha[p].origem = "livre"
             /\ \A h \in Formularios \ {f} : form[h].ficha # p
             /\ \A q \in Fichas : ficha[q].origem = "formulario" => form[f].fone \notin ficha[q].fones

\* A presence confirmed after a form has read that there was none came through
\* another phone of the same person.
LidasPublicasOK ==
    \A f \in Formularios : form[f].passo = "gravar" /\ form[f].lida # "sim" =>
        \/ presenca[form[f].c][form[f].ficha] # [v |-> "sim", quem |-> "form"]
        \/ Cardinality(ficha[form[f].ficha].fones) > 1

GestoresOK ==
    /\ \A g \in Gestores : gestor[g].op # "nada" => gestor[g].c \in Compromissos /\ gestor[g].a \in Agendas
    /\ \A c \in Compromissos : Alcancavel(c) => compromisso[c].agenda \in Agendas

IInvPublica ==
    TipoPublica /\ IdentidadesOK /\ FichasOK /\ LidasPublicasOK /\ GestoresOK /\ PublicaConfere

LEMMA InicioPublica == InitPublica => IInvPublica
<1> SUFFICES ASSUME InitPublica PROVE IInvPublica
  OBVIOUS
<1> USE DEF InitPublica
<1>1. /\ CompromissoLivre \in Compromisso /\ FichaLivre \in FichaPublica /\ SemPresenca \in Presenca
      /\ FormLivre \in Formulario /\ GestorLivre \in Gestor
  BY DEF CompromissoLivre, Compromisso, FichaLivre, FichaPublica, SemPresenca, Presenca, FormLivre,
         Formulario, GestorLivre, Gestor, Valores
<1>2. TipoPublica
  BY <1>1 DEF TipoPublica
<1>3. IdentidadesOK /\ FichasOK /\ LidasPublicasOK
  BY DEF IdentidadesOK, FichasOK, LidasPublicasOK, PassosComFicha, PassosComIdentidade, FormLivre, FichaLivre
<1>4. GestoresOK /\ PublicaConfere
  BY DEF GestoresOK, PublicaConfere, UmaFicha, AgendaExcluidaVazia, Alcancavel, GestorLivre,
         CompromissoLivre, FichaLivre
<1> QED  BY <1>2, <1>3, <1>4 DEF IInvPublica

-----------------------------------------------------------------------------
\* The forms.

\* A form that goes one step on, before its commit: it changes only itself, and
\* keeps its event and its phone.
LEMMA FormAdiante ==
    ASSUME IInvPublica, NEW f \in Formularios, NEW x \in Formulario,
           form' = [form EXCEPT ![f] = x], UNCHANGED <<agenda, compromisso, ficha, presenca, gestor, apressados>>,
           atos' \in Nat,
           x.passo # "livre", x.c \in Compromissos, x.fone \in Celulares,
           x.passo \in PassosComFicha => x.ficha \in Fichas,
           x.passo \notin PassosComFicha => x.ficha = NinguemAgenda,
           x.passo \in PassosComIdentidade =>
              \A h \in Formularios \ {f} : form[h].passo \in PassosComIdentidade => form[h].fone # x.fone,
           x.passo \in PassosComFicha =>
              \/ x.fone \in ficha[x.ficha].fones
              \/ /\ ficha[x.ficha].origem = "livre"
                 /\ \A h \in Formularios \ {f} : form[h].ficha # x.ficha
                 /\ \A q \in Fichas : ficha[q].origem = "formulario" => x.fone \notin ficha[q].fones,
           \* a record about to be inserted by another form is not taken
           x.passo \in PassosComFicha /\ ficha[x.ficha].origem = "livre" =>
              \A h \in Formularios \ {f} : form[h].ficha # x.ficha,
           x.passo = "gravar" /\ x.lida # "sim" => presenca[x.c][x.ficha].v # "sim"
    PROVE  IInvPublica'
<1> USE DEF IInvPublica, TipoPublica
<1>1. TipoPublica'
  OBVIOUS
<1>2. form'[f] = x /\ \A h \in Formularios \ {f} : form'[h] = form[h]
  OBVIOUS
<1>3. IdentidadesOK'
  BY <1>2 DEF IdentidadesOK
<1>4. FichasOK'
  <2>1. ASSUME NEW h \in Formularios, form'[h].passo \in PassosComFicha
        PROVE  \/ form'[h].fone \in ficha[form'[h].ficha].fones
               \/ /\ ficha[form'[h].ficha].origem = "livre"
                  /\ \A m \in Formularios \ {h} : form'[m].ficha # form'[h].ficha
                  /\ \A q \in Fichas : ficha[q].origem = "formulario" => form'[h].fone \notin ficha[q].fones
    <3>1. CASE h = f
      BY <1>2, <2>1, <3>1
    <3>2. CASE h # f
      <4>1. form[h].ficha \in Fichas /\ form'[h] = form[h]
        BY <1>2, <2>1, <3>2 DEF IdentidadesOK
      <4>2. CASE form[h].fone \in ficha[form[h].ficha].fones
        BY <4>1, <4>2
      <4>3. CASE form[h].fone \notin ficha[form[h].ficha].fones
        <5>1. /\ ficha[form[h].ficha].origem = "livre"
              /\ \A m \in Formularios \ {h} : form[m].ficha # form[h].ficha
              /\ \A q \in Fichas : ficha[q].origem = "formulario" => form[h].fone \notin ficha[q].fones
          BY <2>1, <4>1, <4>3 DEF FichasOK
        <5>2. x.ficha # form[h].ficha
          <6>1. CASE x.passo \in PassosComFicha
            BY <3>2, <5>1, <6>1
          <6>2. CASE x.passo \notin PassosComFicha
            BY <4>1, <6>2, NinguemSemFicha
          <6> QED  BY <6>1, <6>2
        <5> QED  BY <1>2, <4>1, <5>1, <5>2
      <4> QED  BY <4>2, <4>3
    <3> QED  BY <3>1, <3>2
  <2> QED  BY <2>1 DEF FichasOK
<1>5. LidasPublicasOK'
  BY <1>2 DEF LidasPublicasOK
<1>6. GestoresOK' /\ PublicaConfere'
  BY DEF GestoresOK, PublicaConfere, UmaFicha, AgendaExcluidaVazia, Alcancavel
<1> QED  BY <1>1, <1>3, <1>4, <1>5, <1>6

LEMMA FormChega ==
    ASSUME IInvPublica, NEW f \in Formularios, NEW c \in Compromissos, NEW fone \in Celulares,
           LerEventoPublico(f, c, fone)
    PROVE  IInvPublica'
<1> DEFINE x == [FormLivre EXCEPT !.passo = "travar", !.c = c, !.fone = fone, !.periodo = compromisso[c].periodo]
<1>1. /\ form' = [form EXCEPT ![f] = x]
      /\ UNCHANGED <<agenda, compromisso, ficha, presenca, gestor, apressados>>
      /\ atos' = atos + 1
  BY DEF LerEventoPublico, Ato
<1>2. compromisso[c].periodo \in {"aberto", "fechado"} /\ atos' \in Nat
  BY <1>1 DEF IInvPublica, TipoPublica, Compromisso
<1>3. /\ x \in Formulario /\ x.passo = "travar" /\ x.c = c /\ x.fone = fone /\ x.ficha = NinguemAgenda
  BY <1>2 DEF FormLivre, Formulario, Valores
<1> HIDE DEF x
<1> QED
  BY <1>1, <1>2, <1>3, FormAdiante DEF PassosComFicha, PassosComIdentidade

LEMMA FormTrava ==
    ASSUME IInvPublica, NEW f \in Formularios, TravarIdentidade(f)
    PROVE  IInvPublica'
<1> DEFINE x == [form[f] EXCEPT !.passo = "ficha"]
<1>1. /\ form' = [form EXCEPT ![f] = x] /\ form[f].passo = "travar"
      /\ UNCHANGED <<agenda, compromisso, ficha, presenca, gestor, atos, apressados>>
  BY DEF TravarIdentidade
<1>2. /\ x \in Formulario /\ x.passo = "ficha" /\ x.c = form[f].c /\ x.fone = form[f].fone
      /\ x.ficha = form[f].ficha
  BY DEF IInvPublica, TipoPublica, Formulario
<1>3. /\ form[f].c \in Compromissos /\ form[f].fone \in Celulares /\ form[f].ficha = NinguemAgenda
  BY <1>1 DEF IInvPublica, IdentidadesOK, PassosComFicha
<1>4. \A h \in Formularios \ {f} : form[h].passo \in PassosComIdentidade => form[h].fone # form[f].fone
  BY DEF TravarIdentidade, IdentidadePresa, PassosComIdentidade
<1>5. atos' \in Nat
  BY <1>1 DEF IInvPublica, TipoPublica
<1> HIDE DEF x
<1> QED
  BY <1>1, <1>2, <1>3, <1>4, <1>5, FormAdiante DEF PassosComFicha

LEMMA FormAcha ==
    ASSUME IInvPublica, NEW f \in Formularios, AcharFicha(f)
    PROVE  IInvPublica'
<1> DEFINE achadas == {p \in Fichas : form[f].fone \in ficha[p].fones}
           livres == {p \in Fichas : ficha[p].origem = "livre" /\ \A h \in Formularios : form[h].ficha # p}
<1>1. PICK p \in IF achadas # {} THEN achadas ELSE livres :
         form' = [form EXCEPT ![f].passo = "participacao", ![f].ficha = p]
  BY DEF AcharFicha
<1>2. /\ form[f].passo = "ficha"
      /\ UNCHANGED <<agenda, compromisso, ficha, presenca, gestor, atos, apressados>>
  BY DEF AcharFicha
<1>3. p \in Fichas
  OBVIOUS
<1> DEFINE x == [form[f] EXCEPT !.passo = "participacao", !.ficha = p]
<1>4. /\ form' = [form EXCEPT ![f] = x]
      /\ x \in Formulario /\ x.passo = "participacao" /\ x.c = form[f].c /\ x.fone = form[f].fone
      /\ x.ficha = p
  BY <1>1, <1>3 DEF IInvPublica, TipoPublica, Formulario
<1>5. /\ form[f].c \in Compromissos /\ form[f].fone \in Celulares
      /\ \A h \in Formularios \ {f} : form[h].passo \in PassosComIdentidade => form[h].fone # form[f].fone
  BY <1>2 DEF IInvPublica, IdentidadesOK, PassosComIdentidade
<1>6. \/ form[f].fone \in ficha[p].fones /\ ficha[p].origem # "livre"
      \/ /\ ficha[p].origem = "livre" /\ \A h \in Formularios \ {f} : form[h].ficha # p
         /\ \A q \in Fichas : ficha[q].origem = "formulario" => form[f].fone \notin ficha[q].fones
  BY DEF IInvPublica, FichasOK
<1>7. atos' \in Nat
  BY <1>2 DEF IInvPublica, TipoPublica
<1> HIDE DEF x, achadas, livres
<1> QED
  BY <1>2, <1>3, <1>4, <1>5, <1>6, <1>7, FormAdiante DEF PassosComFicha

LEMMA FormLe ==
    ASSUME IInvPublica, NEW f \in Formularios, LerParticipacao(f)
    PROVE  IInvPublica'
<1> DEFINE v == presenca[form[f].c][form[f].ficha].v
           x == [form[f] EXCEPT !.passo = "gravar", !.lida = v]
<1>1. /\ form[f].passo = "participacao"
      /\ form' = [form EXCEPT ![f] = x]
      /\ UNCHANGED <<agenda, compromisso, ficha, presenca, gestor, atos, apressados>>
  BY DEF LerParticipacao, IInvPublica, TipoPublica
<1>2. /\ form[f].c \in Compromissos /\ form[f].fone \in Celulares /\ form[f].ficha \in Fichas
      /\ \A h \in Formularios \ {f} : form[h].passo \in PassosComIdentidade => form[h].fone # form[f].fone
  BY <1>1 DEF IInvPublica, IdentidadesOK, PassosComIdentidade, PassosComFicha
<1>3. v \in Valores
  BY <1>2 DEF IInvPublica, TipoPublica, Presenca
<1>4. v = presenca[form[f].c][form[f].ficha].v
  OBVIOUS
<1> HIDE DEF v
<1>5. /\ x \in Formulario /\ x.passo = "gravar" /\ x.c = form[f].c /\ x.fone = form[f].fone
      /\ x.ficha = form[f].ficha /\ x.lida = v
  BY <1>3 DEF IInvPublica, TipoPublica, Formulario
<1>6. \/ form[f].fone \in ficha[form[f].ficha].fones /\ ficha[form[f].ficha].origem # "livre"
      \/ /\ ficha[form[f].ficha].origem = "livre" /\ \A h \in Formularios \ {f} : form[h].ficha # form[f].ficha
         /\ \A q \in Fichas : ficha[q].origem = "formulario" => form[f].fone \notin ficha[q].fones
  BY <1>1, <1>2 DEF IInvPublica, FichasOK, PassosComFicha
<1>7. atos' \in Nat
  BY <1>1 DEF IInvPublica, TipoPublica
<1> HIDE DEF x
<1> QED
  BY <1>1, <1>2, <1>4, <1>5, <1>6, <1>7, FormAdiante DEF PassosComFicha

LEMMA DoisFones ==
    ASSUME NEW S, IsFiniteSet(S), NEW a \in S, NEW b \in S, a # b
    PROVE  Cardinality(S) > 1
<1>1. IsFiniteSet({a, b}) /\ Cardinality({a, b}) = 2
  <2>1. IsFiniteSet({a}) /\ Cardinality({a}) = 1
    BY FS_Singleton
  <2>2. {a, b} = {a} \cup {b} /\ b \notin {a}
    OBVIOUS
  <2> QED  BY <2>1, <2>2, FS_AddElement
<1>2. {a, b} \subseteq S
  OBVIOUS
<1>3. Cardinality({a, b}) <= Cardinality(S) /\ Cardinality(S) \in Nat
  BY <1>2, FS_Subset, FS_CardinalityType
<1> QED  BY <1>1, <1>3

LEMMA FormGrava ==
    ASSUME IInvPublica, NEW f \in Formularios, GravarParticipacao(f)
    PROVE  IInvPublica'
<1> USE DEF IInvPublica, TipoPublica
<1>1. PICK c \in Compromissos, p \in Fichas, fone \in Celulares, n \in Presenca :
         /\ form[f].passo = "gravar" /\ form[f].c = c /\ form[f].ficha = p /\ form[f].fone = fone
         /\ ficha' = IF ficha[p].origem # "livre" THEN ficha
                     ELSE [ficha EXCEPT ![p] = [origem |-> "formulario", fones |-> {fone}]]
         /\ presenca' = presenca \/ presenca' = [presenca EXCEPT ![c][p] = n]
  <2>1. form[f].passo = "gravar" /\ form[f].c \in Compromissos /\ form[f].ficha \in Fichas
        /\ form[f].fone \in Celulares
    BY DEF GravarParticipacao, IdentidadesOK, PassosComFicha
  <2>2. [v |-> IF form[f].periodo = "aberto" THEN "sim" ELSE "nulo", quem |-> "form"] \in Presenca
    BY DEF Presenca, Valores
  <2> QED  BY <2>1, <2>2 DEF GravarParticipacao
<1>2. /\ form' = [form EXCEPT ![f] = FormLivre] /\ UNCHANGED <<agenda, compromisso, gestor, atos, apressados>>
  BY DEF GravarParticipacao
<1>3. FormLivre \in Formulario /\ FormLivre.passo = "livre" /\ FormLivre.ficha = NinguemAgenda
  BY DEF FormLivre, Formulario, Valores
<1>4. [origem |-> "formulario", fones |-> {fone}] \in FichaPublica
  BY DEF FichaPublica
<1>5. TipoPublica'
  <2>1. [presenca EXCEPT ![c][p] = n] \in [Compromissos -> [Fichas -> Presenca]]
    OBVIOUS
  <2>2. presenca' \in [Compromissos -> [Fichas -> Presenca]]
    BY <1>1, <2>1
  <2>3. ficha' \in [Fichas -> FichaPublica]
    BY <1>1, <1>4
  <2> QED  BY <1>2, <1>3, <2>2, <2>3
<1>6. form'[f] = FormLivre /\ \A h \in Formularios \ {f} : form'[h] = form[h]
  BY <1>2
<1>7. IdentidadesOK'
  BY <1>3, <1>6 DEF IdentidadesOK, PassosComFicha, PassosComIdentidade
<1>8. ficha[p].origem = "livre" =>
         /\ \A h \in Formularios \ {f} : form[h].ficha # p
         /\ \A q \in Fichas : ficha[q].origem = "formulario" => fone \notin ficha[q].fones
  BY <1>1 DEF FichasOK, PassosComFicha
<1>9. \A h \in Formularios \ {f} : form[h].passo \in PassosComFicha => form[h].fone # fone /\ form[h].ficha \in Fichas
  BY <1>1 DEF IdentidadesOK, PassosComFicha, PassosComIdentidade
<1>10. /\ \A q \in Fichas \ {p} : ficha'[q] = ficha[q]
       /\ ficha[p].origem # "livre" => ficha'[p] = ficha[p]
       /\ ficha[p].origem = "livre" => ficha'[p].origem = "formulario" /\ ficha'[p].fones = {fone}
  BY <1>1
<1>11. FichasOK'
  <2>1. \A q \in Fichas : ficha'[q].origem = "livre" => ficha'[q].fones = {}
    BY <1>10 DEF FichasOK
  <2>2. ASSUME NEW h \in Formularios, form'[h].passo \in PassosComFicha
        PROVE  \/ form'[h].fone \in ficha'[form'[h].ficha].fones
               \/ /\ ficha'[form'[h].ficha].origem = "livre"
                  /\ \A m \in Formularios \ {h} : form'[m].ficha # form'[h].ficha
                  /\ \A q \in Fichas : ficha'[q].origem = "formulario" => form'[h].fone \notin ficha'[q].fones
    <3>1. h # f /\ form'[h] = form[h]
      BY <1>3, <1>6, <2>2 DEF PassosComFicha
    <3>2. PICK q \in Fichas, e \in Celulares : form[h].ficha = q /\ form[h].fone = e /\ e # fone
      BY <1>9, <2>2, <3>1 DEF IdentidadesOK, PassosComFicha
    <3>3. ficha'[q] = ficha[q]
      BY <1>8, <1>10, <3>1, <3>2
    <3>4. CASE e \in ficha[q].fones
      BY <3>1, <3>2, <3>3, <3>4
    <3>5. CASE e \notin ficha[q].fones
      <4>1. /\ ficha[q].origem = "livre"
            /\ \A m \in Formularios \ {h} : form[m].ficha # q
            /\ \A t \in Fichas : ficha[t].origem = "formulario" => e \notin ficha[t].fones
        BY <2>2, <3>1, <3>2, <3>5 DEF FichasOK
      <4>2. \A t \in Fichas : ficha'[t].origem = "formulario" => e \notin ficha'[t].fones
        BY <1>10, <3>2, <4>1
      <4>3. \A m \in Formularios \ {h} : form'[m].ficha # q
        <5>1. NinguemAgenda # q
          BY <1>1, <4>1, NinguemSemFicha
        <5> QED  BY <1>3, <1>6, <4>1, <5>1
      <4> QED  BY <3>1, <3>2, <3>3, <4>1, <4>2, <4>3
    <3> QED  BY <3>4, <3>5
  <2> QED  BY <2>1, <2>2 DEF FichasOK
<1>12. LidasPublicasOK'
  <2> SUFFICES ASSUME NEW h \in Formularios, form'[h].passo = "gravar", form'[h].lida # "sim"
               PROVE  \/ presenca'[form'[h].c][form'[h].ficha] # [v |-> "sim", quem |-> "form"]
                      \/ Cardinality(ficha'[form'[h].ficha].fones) > 1
    BY DEF LidasPublicasOK
  <2>1. h # f /\ form'[h] = form[h]
    BY <1>3, <1>6
  <2>2. PICK d \in Compromissos, q \in Fichas, e \in Celulares :
           form[h].c = d /\ form[h].ficha = q /\ form[h].fone = e /\ e # fone
    BY <1>9, <2>1 DEF IdentidadesOK, PassosComFicha
  <2>3. ficha'[q] = ficha[q]
    BY <1>8, <1>10, <2>1, <2>2
  <2>4. CASE q = p
    <3>1. ficha[p].origem # "livre"
      BY <1>8, <2>1, <2>2, <2>4
    <3>2. fone \in ficha[p].fones
      BY <1>1, <3>1 DEF FichasOK, PassosComFicha
    <3>3. e \in ficha[p].fones
      BY <2>1, <2>2, <2>4, <3>1 DEF FichasOK, PassosComFicha
    <3>4. IsFiniteSet(ficha[p].fones)
      BY CelularesContaveis, FS_Subset DEF FichaPublica
    <3> QED  BY <2>1, <2>2, <2>3, <2>4, <3>2, <3>3, <3>4, DoisFones
  <2>5. CASE q # p
    <3>1. presenca'[d][q] = presenca[d][q]
      BY <1>1, <2>5
    <3> QED  BY <2>1, <2>2, <2>3, <3>1 DEF LidasPublicasOK
  <2> QED  BY <2>4, <2>5
<1>13. UmaFicha'
  BY <1>8, <1>10 DEF PublicaConfere, UmaFicha
<1>14. GestoresOK' /\ AgendaExcluidaVazia'
  BY <1>2 DEF GestoresOK, PublicaConfere, AgendaExcluidaVazia, Alcancavel
<1> QED  BY <1>5, <1>7, <1>11, <1>12, <1>13, <1>14 DEF PublicaConfere

-----------------------------------------------------------------------------
\* The rest: records made by hand, periods that change, and the managers.
LEMMA FormsParados ==
    ASSUME IInvPublica, UNCHANGED <<ficha, form>>,
           presenca' = presenca
           \/ \E c \in Compromissos, p \in Fichas, n \in Presenca :
                 presenca' = [presenca EXCEPT ![c][p] = n] /\ n.quem = "gestor"
    PROVE  IdentidadesOK' /\ FichasOK' /\ LidasPublicasOK' /\ UmaFicha'
<1> USE DEF IInvPublica, TipoPublica
<1>1. IdentidadesOK' /\ FichasOK' /\ UmaFicha'
  BY DEF IdentidadesOK, FichasOK, PublicaConfere, UmaFicha
<1>2. \A d \in Compromissos, q \in Fichas :
         presenca'[d][q] = presenca[d][q] \/ presenca'[d][q].quem = "gestor"
  <2>1. ASSUME NEW c \in Compromissos, NEW p \in Fichas, NEW n \in Presenca,
               presenca' = [presenca EXCEPT ![c][p] = n], n.quem = "gestor",
               NEW d \in Compromissos, NEW q \in Fichas
        PROVE  presenca'[d][q] = presenca[d][q] \/ presenca'[d][q].quem = "gestor"
    BY <2>1
  <2> QED  BY <2>1
<1>3. \A f \in Formularios : form[f].passo = "gravar" => form[f].c \in Compromissos /\ form[f].ficha \in Fichas
  BY DEF IdentidadesOK, PassosComFicha
<1>4. \A d \in Compromissos, q \in Fichas :
         presenca'[d][q] = [v |-> "sim", quem |-> "form"] => presenca'[d][q] = presenca[d][q]
  BY <1>2
<1>5. LidasPublicasOK'
  BY <1>3, <1>4 DEF LidasPublicasOK
<1> QED  BY <1>1, <1>5

LEMMA Cadastra ==
    ASSUME IInvPublica, NEW p \in Fichas, NEW fones \in SUBSET Celulares \ {{}}, CadastrarFicha(p, fones)
    PROVE  IInvPublica'
<1> USE DEF IInvPublica, TipoPublica
<1>1. /\ ficha[p].origem = "livre" /\ \A f \in Formularios : form[f].ficha # p
      /\ ficha' = [ficha EXCEPT ![p] = [origem |-> "cadastro", fones |-> fones]]
      /\ UNCHANGED <<agenda, compromisso, presenca, form, gestor, apressados>> /\ atos' = atos + 1
  BY DEF CadastrarFicha, Ato
<1>2. [origem |-> "cadastro", fones |-> fones] \in FichaPublica
  BY DEF FichaPublica
<1>3. TipoPublica'
  BY <1>1, <1>2
<1>4. IdentidadesOK' /\ GestoresOK' /\ AgendaExcluidaVazia'
  BY <1>1 DEF IdentidadesOK, GestoresOK, PublicaConfere, AgendaExcluidaVazia, Alcancavel
<1>5. /\ \A q \in Fichas \ {p} : ficha'[q] = ficha[q]
      /\ ficha'[p].origem = "cadastro"
  BY <1>1
<1>6. \A f \in Formularios : form[f].passo \in PassosComFicha =>
         form[f].ficha \in Fichas \ {p} /\ ficha'[form[f].ficha] = ficha[form[f].ficha]
  BY <1>1, <1>5 DEF IdentidadesOK
<1>7. FichasOK'
  <2>1. \A q \in Fichas : ficha'[q].origem = "livre" => ficha'[q].fones = {}
    BY <1>5 DEF FichasOK
  <2>2. \A f \in Formularios : form[f].passo \in PassosComFicha =>
          \/ form[f].fone \in ficha'[form[f].ficha].fones
          \/ /\ ficha'[form[f].ficha].origem = "livre"
             /\ \A h \in Formularios \ {f} : form[h].ficha # form[f].ficha
             /\ \A q \in Fichas : ficha'[q].origem = "formulario" => form[f].fone \notin ficha'[q].fones
    BY <1>5, <1>6 DEF FichasOK
  <2> QED  BY <1>1, <2>1, <2>2 DEF FichasOK
<1>8. LidasPublicasOK'
  BY <1>1, <1>6 DEF LidasPublicasOK, PassosComFicha
<1>9. UmaFicha'
  BY <1>5 DEF PublicaConfere, UmaFicha
<1> QED  BY <1>3, <1>4, <1>7, <1>8, <1>9 DEF PublicaConfere

LEMMA Periodo ==
    ASSUME IInvPublica, NEW c \in Compromissos, MudarPeriodo(c)
    PROVE  IInvPublica'
<1> USE DEF IInvPublica, TipoPublica
<1> DEFINE t == IF compromisso[c].periodo = "aberto" THEN "fechado" ELSE "aberto"
           x == [compromisso[c] EXCEPT !.periodo = t]
<1>1. /\ compromisso' = [compromisso EXCEPT ![c] = x]
      /\ UNCHANGED <<agenda, ficha, presenca, form, gestor, apressados>> /\ atos' = atos + 1
  BY DEF MudarPeriodo, Ato
<1>2. t \in {"aberto", "fechado"}
  OBVIOUS
<1> HIDE DEF t
<1>3. x \in Compromisso /\ x.st = compromisso[c].st /\ x.agenda = compromisso[c].agenda
  BY <1>2 DEF Compromisso
<1> HIDE DEF x
<1>4. TipoPublica'
  BY <1>1, <1>3
<1>5. \A d \in Compromissos : compromisso'[d].st = compromisso[d].st /\ compromisso'[d].agenda = compromisso[d].agenda
  BY <1>1, <1>3
<1>6. GestoresOK' /\ AgendaExcluidaVazia'
  BY <1>1, <1>5 DEF GestoresOK, PublicaConfere, AgendaExcluidaVazia, Alcancavel
<1> QED  BY <1>1, <1>4, <1>6, FormsParados DEF PublicaConfere

LEMMA GestorLe ==
    ASSUME IInvPublica, NEW g \in Gestores, NEW op \in Iniciativas, NEW c \in Compromissos, NEW a \in Agendas,
           LerGestor(g, op, c, a)
    PROVE  IInvPublica'
<1> USE DEF IInvPublica, TipoPublica
<1>1. /\ gestor' = [gestor EXCEPT ![g] = [op |-> op, c |-> c, a |-> a]]
      /\ UNCHANGED <<agenda, compromisso, ficha, presenca, form, apressados>> /\ atos' = atos + 1
  BY DEF LerGestor, Ato
<1>2. [op |-> op, c |-> c, a |-> a] \in Gestor
  BY DEF Gestor
<1>3. TipoPublica'
  BY <1>1, <1>2
<1>4. GestoresOK' /\ AgendaExcluidaVazia'
  BY <1>1 DEF GestoresOK, PublicaConfere, AgendaExcluidaVazia, Alcancavel
<1> QED  BY <1>1, <1>3, <1>4, FormsParados DEF PublicaConfere

LEMMA GestorAcaba ==
    ASSUME IInvPublica, NEW g \in Gestores, Acabar(g)
    PROVE  /\ gestor' \in [Gestores -> Gestor] /\ UNCHANGED <<ficha, form, atos>>
           /\ \A h \in Gestores : gestor'[h].op # "nada" =>
                 gestor'[h].c \in Compromissos /\ gestor'[h].a \in Agendas
<1>1. GestorLivre \in Gestor /\ GestorLivre.op = "nada"
  BY DEF GestorLivre, Gestor
<1> QED
  BY <1>1 DEF IInvPublica, TipoPublica, GestoresOK, Acabar

LEMMA GestorGrava ==
    ASSUME IInvPublica, NEW g \in Gestores,
           PorNaAgenda(g) \/ MudarStatus(g) \/ ExcluirAgenda(g) \/ DesistirGestor(g)
    PROVE  IInvPublica'
<1> USE DEF IInvPublica, TipoPublica
<1>0. Acabar(g) /\ presenca' = presenca
  BY DEF PorNaAgenda, MudarStatus, ExcluirAgenda, DesistirGestor
<1>1. /\ gestor' \in [Gestores -> Gestor] /\ UNCHANGED <<ficha, form, atos>>
      /\ \A h \in Gestores : gestor'[h].op # "nada" => gestor'[h].c \in Compromissos /\ gestor'[h].a \in Agendas
  BY <1>0, GestorAcaba
<1>2. gestor[g].op # "nada" => gestor[g].c \in Compromissos /\ gestor[g].a \in Agendas
  BY DEF GestoresOK
<1>3. CASE PorNaAgenda(g)
  <2>1. PICK c \in Compromissos, a \in Agendas, s \in {"livre", "vivo", "cancelado", "excluido"} :
          /\ compromisso' = [compromisso EXCEPT ![c].agenda = a, ![c].st = s]
          /\ apressados' = IF agenda[a] = "viva" THEN apressados \ {c} ELSE apressados \cup {c}
    BY <1>2, <1>3 DEF PorNaAgenda, Compromisso
  <2> DEFINE x == [compromisso[c] EXCEPT !.agenda = a, !.st = s]
  <2>2. compromisso' = [compromisso EXCEPT ![c] = x] /\ x \in Compromisso /\ x.agenda = a
    BY <2>1 DEF Compromisso
  <2> HIDE DEF x
  <2>3. agenda' = agenda
    BY <1>3 DEF PorNaAgenda
  <2>4. TipoPublica'
    <3>1. apressados' \subseteq Compromissos
      BY <2>1
    <3>2. compromisso' \in [Compromissos -> Compromisso]
      BY <2>2
    <3> QED  BY <1>0, <1>1, <2>3, <3>1, <3>2
  <2>5. GestoresOK'
    BY <1>1, <2>2 DEF GestoresOK, Alcancavel
  <2>6. AgendaExcluidaVazia'
    BY <2>1, <2>2, <2>3 DEF PublicaConfere, AgendaExcluidaVazia, Alcancavel
  <2> QED  BY <1>0, <1>1, <2>4, <2>5, <2>6, FormsParados DEF PublicaConfere
<1>4. CASE MudarStatus(g)
  <2>1. PICK c \in Compromissos, s \in {"cancelado", "excluido"} :
          compromisso' = [compromisso EXCEPT ![c].st = s] /\ Alcancavel(c)
    <3>1. gestor[g].c \in Compromissos /\ Alcancavel(gestor[g].c)
      BY <1>2, <1>4 DEF MudarStatus
    <3> QED  BY <1>4, <3>1 DEF MudarStatus
  <2> DEFINE x == [compromisso[c] EXCEPT !.st = s]
  <2>2. compromisso' = [compromisso EXCEPT ![c] = x] /\ x \in Compromisso /\ x.agenda = compromisso[c].agenda
    BY <2>1 DEF Compromisso
  <2> HIDE DEF x
  <2>3. agenda' = agenda /\ apressados' = apressados
    BY <1>4 DEF MudarStatus
  <2>4. TipoPublica'
    BY <1>0, <1>1, <2>2, <2>3
  <2>5. GestoresOK'
    BY <1>1, <2>1, <2>2 DEF GestoresOK, Alcancavel
  <2>6. AgendaExcluidaVazia'
    BY <2>1, <2>2, <2>3 DEF PublicaConfere, AgendaExcluidaVazia, Alcancavel
  <2> QED  BY <1>0, <1>1, <2>4, <2>5, <2>6, FormsParados DEF PublicaConfere
<1>5. CASE ExcluirAgenda(g)
  <2>1. PICK a \in Agendas : agenda' = [agenda EXCEPT ![a] = "excluida"] /\ Desocupada(a)
    BY <1>2, <1>5 DEF ExcluirAgenda
  <2>2. UNCHANGED <<compromisso, apressados>>
    BY <1>5 DEF ExcluirAgenda
  <2>3. TipoPublica'
    BY <1>0, <1>1, <2>1, <2>2
  <2>4. GestoresOK' /\ AgendaExcluidaVazia'
    BY <1>1, <2>1, <2>2 DEF GestoresOK, PublicaConfere, AgendaExcluidaVazia, Alcancavel, Desocupada
  <2> QED  BY <1>0, <1>1, <2>3, <2>4, FormsParados DEF PublicaConfere
<1>6. CASE DesistirGestor(g)
  <2>1. UNCHANGED <<agenda, compromisso, apressados>>
    BY <1>6 DEF DesistirGestor
  <2>2. TipoPublica' /\ GestoresOK' /\ AgendaExcluidaVazia'
    BY <1>0, <1>1, <2>1 DEF GestoresOK, PublicaConfere, AgendaExcluidaVazia, Alcancavel
  <2> QED  BY <1>0, <1>1, <2>2, FormsParados DEF PublicaConfere
<1> QED  BY <1>3, <1>4, <1>5, <1>6

LEMMA GestorMarca ==
    ASSUME IInvPublica, NEW g \in Gestores, NEW p \in Fichas, NEW v \in Valores, MarcarPresenca(g, p, v)
    PROVE  IInvPublica'
<1> USE DEF IInvPublica, TipoPublica
<1> DEFINE n == [v |-> v, quem |-> "gestor"]
<1>1. n \in Presenca /\ n.quem = "gestor"
  BY DEF Presenca
<1>2. PICK c \in Compromissos : presenca' = [presenca EXCEPT ![c][p] = n]
  BY DEF MarcarPresenca, GestoresOK
<1>3. Acabar(g) /\ UNCHANGED <<agenda, compromisso, apressados>>
  BY DEF MarcarPresenca
<1>4. /\ gestor' \in [Gestores -> Gestor] /\ UNCHANGED <<ficha, form, atos>>
      /\ \A h \in Gestores : gestor'[h].op # "nada" => gestor'[h].c \in Compromissos /\ gestor'[h].a \in Agendas
  BY <1>3, GestorAcaba
<1> HIDE DEF n
<1>5. presenca' \in [Compromissos -> [Fichas -> Presenca]]
  BY <1>1, <1>2
<1>6. TipoPublica' /\ GestoresOK' /\ AgendaExcluidaVazia'
  BY <1>3, <1>4, <1>5 DEF GestoresOK, PublicaConfere, AgendaExcluidaVazia, Alcancavel
<1> QED  BY <1>1, <1>2, <1>4, <1>6, FormsParados DEF PublicaConfere

LEMMA PassoPublica == IInvPublica /\ [NextPublica]_varsPublica => IInvPublica'
<1> SUFFICES ASSUME IInvPublica, [NextPublica]_varsPublica PROVE IInvPublica'
  OBVIOUS
<1>1. CASE NextPublica
  BY <1>1, FormChega, FormTrava, FormAcha, FormLe, FormGrava, Cadastra, Periodo, GestorLe, GestorGrava,
     GestorMarca DEF NextPublica, Valores
<1>2. CASE UNCHANGED varsPublica
  BY <1>2 DEF varsPublica, IInvPublica, TipoPublica, IdentidadesOK, FichasOK, LidasPublicasOK, GestoresOK,
              PublicaConfere, UmaFicha, AgendaExcluidaVazia, Alcancavel
<1> QED  BY <1>1, <1>2

\* A form sent twice, or from two windows at once, makes one record, and a
\* deleted calendar takes no event with it, for any number of forms, people,
\* managers and calendars (confirm_public_attendance, delete_calendar).
THEOREM PublicaSempreConfere == SpecPublica => []PublicaConfere
<1>1. IInvPublica => PublicaConfere
  BY DEF IInvPublica
<1> QED  BY <1>1, InicioPublica, PassoPublica, PTL DEF SpecPublica

LEMMA ConfirmadaNoPasso ==
    ASSUME IInvPublica, [NextPublica]_varsPublica, NEW c \in Compromissos, NEW p \in Fichas,
           presenca[c][p] = [v |-> "sim", quem |-> "form"], presenca'[c][p].v # "sim"
    PROVE  gestor' # gestor \/ Cardinality(ficha[p].fones) > 1
<1> USE DEF IInvPublica, TipoPublica
<1>0. presenca' # presenca
  OBVIOUS
<1>1. CASE \E f \in Formularios : GravarParticipacao(f)
  <2>1. PICK f \in Formularios : GravarParticipacao(f)
    BY <1>1
  <2>2. /\ form[f].passo = "gravar" /\ form[f].c \in Compromissos /\ form[f].ficha \in Fichas
        /\ form[f].lida # "sim"
    BY <1>0, <2>1 DEF GravarParticipacao, JaConfirmada, IdentidadesOK, PassosComFicha
  <2>3. PICK n \in Presenca : presenca' = [presenca EXCEPT ![form[f].c][form[f].ficha] = n]
    BY <1>0, <2>1 DEF GravarParticipacao, Presenca, Valores
  <2>4. form[f].c = c /\ form[f].ficha = p
    BY <2>2, <2>3
  <2> QED  BY <2>2, <2>4 DEF LidasPublicasOK
<1>2. CASE \E g \in Gestores, q \in Fichas, v \in Valores : MarcarPresenca(g, q, v)
  <2>1. PICK g \in Gestores : gestor[g].op = "presenca" /\ Acabar(g)
    BY <1>2 DEF MarcarPresenca
  <2>2. gestor'[g].op = "nada"
    BY <2>1 DEF Acabar, GestorLivre
  <2> QED  BY <2>1, <2>2
<1> QED
  BY <1>0, <1>1, <1>2 DEF NextPublica, varsPublica, LerEventoPublico, TravarIdentidade, AcharFicha,
     LerParticipacao, CadastrarFicha, MudarPeriodo, LerGestor, PorNaAgenda, MudarStatus, ExcluirAgenda,
     DesistirGestor, Valores

\* A presence confirmed through the form is taken back only by a manager, or by
\* a form under another phone of the same person, however the forms overlap.
THEOREM ConfirmadaSempreFica == SpecPublica => ConfirmadaFica
<1>1. IInvPublica /\ [NextPublica]_varsPublica =>
        [\A c \in Compromissos, p \in Fichas :
            presenca[c][p] = [v |-> "sim", quem |-> "form"] /\ presenca'[c][p].v # "sim"
                => gestor' # gestor \/ Cardinality(ficha[p].fones) > 1]_varsPublica
  BY ConfirmadaNoPasso
<1> QED
  BY <1>1, InicioPublica, PassoPublica, PTL DEF SpecPublica, ConfirmadaFica

-----------------------------------------------------------------------------
(***************************************************************************)
(* Types.                                                                  *)
(***************************************************************************)
Parciais(A, B) == UNION {[S -> B] : S \in SUBSET A}
EventoT == [st : {"livre", "vivo", "cancelado", "excluido"}, cont : Nat, mod : Nat]
EloT == [g : Remotos \cup {SemRemoto}, ver : Nat, sist : Nat, st : {"sincronizado", "excluido"}]
RemotoT == [st : {"livre", "vivo", "cancelado"}, cont : Nat, ver : Nat,
            dono : Eventos \cup {SemEvento}]
ListadoT == [ev : EventoT, g : Remotos \cup {SemRemoto}]
RascunhoT == [ev : Parciais(Eventos, EventoT), elo : Parciais(Eventos, EloT)]
PassosSync == {"livre", "buscar", "importar", "aplicar", "ler", "enviar", "anotar", "fim"}
AcoesSync == {"nada", "inserir", "cancelar", "atualizar", "excluir", "vincular"}
SyncT == [passo : PassosSync, inicio : Nat, token : [Remotos -> Nat],
          itens : Parciais(Remotos, RemotoT), g : Remotos \cup {SemRemoto},
          e : Eventos \cup {SemEvento}, acao : AcoesSync, lista : Parciais(Eventos, ListadoT),
          ver : Nat, calmo : {"sim", "nao"}, junto : {"sim", "nao"}]
EdicaoT == [e : Eventos \cup {SemEvento}, tipo : {"nada", "vivo", "cancelado", "excluido"}, em : Nat]
TipoGoogle ==
    /\ direcao \in Direcoes
    /\ token \in [Remotos -> Nat]
    /\ evento \in [Eventos -> EventoT]
    /\ elo \in [Eventos -> EloT]
    /\ google \in [Remotos -> RemotoT]
    /\ sync \in [Syncs -> SyncT]
    /\ rasc \in [Syncs -> RascunhoT]
    /\ edicao \in [Edicoes -> EdicaoT]
    /\ relogio \in Nat
    /\ duvidosos \subseteq Eventos

\* What a synchronization under way is doing at its step.
PassoOK(s) ==
    LET y == sync[s] IN
    /\ y.passo = "livre" => y = [SyncLivre EXCEPT !.calmo = y.calmo] /\ rasc[s] = SemRascunho
    /\ y.passo = "buscar" => rasc[s] = SemRascunho
    /\ y.passo \in {"buscar", "importar", "aplicar"} => direcao # "sistema_google"
    /\ y.passo = "ler" /\ direcao = "sistema_google" => rasc[s] = SemRascunho
    /\ y.passo \in {"livre", "buscar", "importar", "ler", "enviar", "fim"} =>
          y.g = SemRemoto /\ y.e = SemEvento
    /\ y.passo \in {"buscar", "ler", "enviar", "anotar", "fim"} => DOMAIN y.itens = {}
    /\ y.passo \in {"buscar", "importar", "aplicar", "ler", "fim"} => DOMAIN y.lista = {}
    /\ y.passo = "aplicar" => /\ y.g \in DOMAIN y.itens
                              /\ y.acao \in {"nada", "inserir", "cancelar", "atualizar"}
                              /\ y.acao # "nada" => y.e \in Eventos
                              /\ y.acao \in {"cancelar", "atualizar"} =>
                                    evento[y.e].st # "livre" \/ y.e \in DOMAIN rasc[s].ev
    /\ y.passo = "anotar" => y.g \in Remotos /\ y.e \in DOMAIN y.lista /\ y.acao \in {"excluir", "vincular"}
    /\ y.passo = "anotar" /\ y.acao = "excluir" => y.g = y.lista[y.e].g

\* The rows it has written: locked against everybody else, of events that are
\* excluded where they were; the ones of a pull are not sent again.
RascunhoOK(s) ==
    LET ev == rasc[s].ev  l == rasc[s].elo IN
    /\ DOMAIN ev \subseteq DOMAIN l
    /\ \A e \in DOMAIN l : l[e].g # SemRemoto /\ (e \notin DOMAIN ev => evento[e].st # "livre")
    /\ \A e \in DOMAIN ev : /\ ev[e].st # "livre"
                            /\ ev[e].st = "excluido" <=> evento[e].st = "excluido"
    /\ \A e \in DOMAIN l : sync[s].passo \notin {"enviar", "anotar"} =>
          e \in DOMAIN ev /\ ev[e].mod <= l[e].sist
    /\ sync[s].inicio <= relogio
ListaOK(s) == \A e \in DOMAIN sync[s].lista :
    evento[e].st # "livre" /\ (sync[s].lista[e].g # SemRemoto => elo[e].g # SemRemoto)

\* The id that the sequence gave to a synchronization is not an event of anybody yet.
NovoOK(s) ==
    sync[s].passo = "aplicar" /\ sync[s].acao = "inserir" =>
        /\ evento[sync[s].e].st = "livre"
        /\ \A t \in Syncs : /\ sync[s].e \notin DOMAIN rasc[t].ev
                            /\ t # s => sync[t].e # sync[s].e
Separados(s, t) ==
    /\ DOMAIN rasc[s].elo \cap DOMAIN rasc[t].elo = {}
    /\ \A e \in DOMAIN rasc[s].elo, d \in DOMAIN rasc[t].elo : rasc[s].elo[e].g # rasc[t].elo[d].g
    /\ sync[s].passo # "livre" /\ sync[t].passo # "livre" => sync[s].junto = "sim"
SyncsOK ==
    /\ \A s \in Syncs : PassoOK(s) /\ RascunhoOK(s) /\ ListaOK(s) /\ NovoOK(s)
    /\ \A s, t \in Syncs : s # t => Separados(s, t)

\* The ids that one and another hold.
PorLigar(y, e, g) ==
    \/ y.passo = "aplicar" /\ y.acao # "nada" /\ y.e = e /\ y.g = g
    \/ y.passo = "anotar" /\ y.acao = "vincular" /\ y.e = e /\ y.g = g
FalaDe(y, r, e, g) ==
    \/ e \in DOMAIN r.elo /\ r.elo[e].g = g
    \/ e \in DOMAIN y.lista /\ y.lista[e].g = g
    \/ g \in DOMAIN y.itens /\ y.itens[g].dono = e
    \/ PorLigar(y, e, g)
Fala(e, g) ==
    google[g].dono = e \/ elo[e].g = g \/ \E s \in Syncs : FalaDe(sync[s], rasc[s], e, g)

\* A Google id nobody used, and an event that is not there yet.
Intacto(g) ==
    google[g].st = "livre" =>
        /\ google[g].ver = 0 /\ token[g] = 0 /\ \A s \in Syncs : sync[s].token[g] = 0
        /\ \A e \in Eventos : ~Fala(e, g)
        /\ \A s \in Syncs : g \notin DOMAIN sync[s].itens
VersaoOK(g) == google[g].st # "livre" => google[g].ver > 0
NaoNascido(e) ==
    evento[e].st = "livre" =>
        /\ elo[e].g = SemRemoto
        /\ \A g \in Remotos : google[g].dono # e
        /\ \A s \in Syncs : \A g \in DOMAIN sync[s].itens : sync[s].itens[g].dono # e

\* Wherever somebody speaks of the Google id of an event, it is the same one.
UmId == \A e \in Eventos \ duvidosos : \A g, h \in Remotos : Fala(e, g) /\ Fala(e, h) => g = h

\* The unique entry (integracao, google_event_id), committed and in each draft.
Unicos ==
    /\ \A e, d \in Eventos : e # d /\ elo[e].g # SemRemoto => elo[e].g # elo[d].g
    /\ \A s \in Syncs : \A e \in DOMAIN rasc[s].elo, d \in Eventos :
          e # d => rasc[s].elo[e].g # Elo(s, d).g

\* The list of a push has the committed links.
Listados == \A s \in Syncs, e \in Eventos \ duvidosos :
    e \in DOMAIN sync[s].lista /\ sync[s].lista[e].g # SemRemoto => elo[e].g = sync[s].lista[e].g

\* The copy of a living event: nobody else is linked to it, or could be before
\* the event is.
CopiaDe(e, g) ==
    /\ \A x \in Eventos \ {e} : elo[x].g # g
    /\ \A s \in Syncs, x \in Eventos \ {e} : x \in DOMAIN rasc[s].elo => rasc[s].elo[x].g # g
    /\ \A s \in Syncs, x \in Eventos \ {e} : PorLigar(sync[s], x, g) => elo[e].g = g
    /\ \A s \in Syncs : g \in DOMAIN sync[s].itens /\ sync[s].itens[g].dono # e => elo[e].g = g
Certo(e) == e \in Eventos \ duvidosos /\ evento[e].st # "excluido"
CopiasOK == \A e \in Eventos, g \in Remotos : Certo(e) /\ google[g].dono = e => CopiaDe(e, g)

\* What the token has gone past is linked; what a pull has seen is linked, or
\* will be.
ViuOK(y, ligado, e, g) ==
    /\ y.passo = "buscar" /\ google[g].ver <= y.token[g] => elo[e].g # SemRemoto
    /\ y.passo \notin {"livre", "buscar"} /\ y.token[g] > 0 =>
          ligado # SemRemoto \/ g \in DOMAIN y.itens
    /\ y.passo = "aplicar" /\ y.acao = "nada" /\ y.g = g => ligado # SemRemoto
PassadoOK(e, g) ==
    /\ google[g].ver <= token[g] => elo[e].g # SemRemoto
    /\ \A s \in Syncs : ViuOK(sync[s], Elo(s, e).g, e, g)
PuxadosOK ==
    direcao # "sistema_google" =>
        \A e \in Eventos, g \in Remotos : Certo(e) /\ google[g].dono = e => PassadoOK(e, g)
SozinhoViu(s) ==
    direcao # "sistema_google" /\ sync[s].junto = "nao"
        /\ sync[s].passo \in {"importar", "aplicar", "ler"} =>
        \A g \in Remotos : google[g].dono # SemEvento => sync[s].token[g] > 0

\* Where nothing is pulled, a copy is linked, or about to be.
SemPull ==
    direcao = "sistema_google" =>
        \A e \in Eventos \ duvidosos, g \in Remotos : google[g].dono = e =>
            \/ elo[e].g = g
            \/ \E s \in Syncs : e \in DOMAIN rasc[s].elo \/ PorLigar(sync[s], e, g)

\* A lone push is about to create only what has no copy.
ACriar(s) ==
    sync[s].junto = "nao" /\ sync[s].passo \in {"enviar", "anotar"} =>
        \A e \in DOMAIN sync[s].lista :
            e \notin duvidosos /\ sync[s].lista[e].g = SemRemoto /\ e # sync[s].e =>
                \A g \in Remotos : ~Fala(e, g)

IInvGoogle ==
    /\ TipoGoogle /\ SyncsOK
    /\ \A g \in Remotos : Intacto(g) /\ VersaoOK(g)
    /\ \A e \in Eventos : NaoNascido(e)
    /\ UmId /\ Unicos /\ Listados /\ CopiasOK /\ PuxadosOK /\ SemPull
    /\ \A s \in Syncs : SozinhoViu(s) /\ ACriar(s)

LEMMA ParcialTem ==
    ASSUME NEW A, NEW B, NEW f \in Parciais(A, B)
    PROVE  /\ DOMAIN f \subseteq A /\ \A x \in DOMAIN f : f[x] \in B
           /\ f = [x \in DOMAIN f |-> f[x]]
<1>1. PICK S \in SUBSET A : f \in [S -> B]  BY DEF Parciais
<1>2. DOMAIN f = S  BY <1>1
<1> QED  BY <1>1, <1>2

LEMMA ParcialE ==
    ASSUME NEW A, NEW B, NEW S \in SUBSET A, NEW f \in [S -> B]
    PROVE  f \in Parciais(A, B)
  BY DEF Parciais

LEMMA PorParcial ==
    ASSUME NEW A, NEW B, NEW f \in Parciais(A, B), NEW x \in A, NEW v \in B
    PROVE  Por(f, x, v) \in Parciais(A, B)
<1>1. DOMAIN f \subseteq A /\ \A y \in DOMAIN f : f[y] \in B  BY ParcialTem
<1>2. Por(f, x, v) \in [DOMAIN f \cup {x} -> B]  BY <1>1 DEF Por
<1> QED  BY <1>1, <1>2, ParcialE

LEMMA SemParcial ==
    ASSUME NEW A, NEW B, NEW f \in Parciais(A, B), NEW x
    PROVE  /\ [y \in DOMAIN f \ {x} |-> f[y]] \in Parciais(A, B)
           /\ DOMAIN [y \in DOMAIN f \ {x} |-> f[y]] = DOMAIN f \ {x}
<1>1. DOMAIN f \subseteq A /\ \A y \in DOMAIN f : f[y] \in B  BY ParcialTem
<1>2. [y \in DOMAIN f \ {x} |-> f[y]] \in [DOMAIN f \ {x} -> B]  BY <1>1
<1> QED  BY <1>1, <1>2, ParcialE

LEMMA VazioParcial ==
    ASSUME NEW A, NEW B, NEW v
    PROVE  [x \in {} |-> v] \in Parciais(A, B) /\ DOMAIN [x \in {} |-> v] = {}
<1>1. [x \in {} |-> v] \in [{} -> B]  OBVIOUS
<1> QED  BY <1>1, ParcialE

LEMMA MenorDeles ==
    ASSUME NEW S \in SUBSET Nat, S # {}
    PROVE  Min(S) \in S
<1>1. PICK m \in S : \A y \in S : <<y, m>> \notin OpToRel(<, Nat)
  BY Zenon, NatLessThanWellFounded, WFMin
<1>2. m \in Nat /\ \A y \in S : y \in Nat /\ ~(y < m)  BY <1>1, Zenon DEF OpToRel
<1>3. \A y \in S : m <= y  BY <1>2
<1> QED  BY <1>3 DEF Min

LEMMA LivresTipo ==
    /\ SemRascunho \in RascunhoT /\ SyncLivre \in SyncT /\ EdicaoLivre \in EdicaoT
    /\ SemElo \in EloT /\ EventoLivre \in EventoT /\ RemotoLivre \in RemotoT
    /\ DOMAIN SemRascunho.ev = {} /\ DOMAIN SemRascunho.elo = {}
    /\ DOMAIN SyncLivre.itens = {} /\ DOMAIN SyncLivre.lista = {}
<1>1. SemElo \in EloT /\ EventoLivre \in EventoT /\ RemotoLivre \in RemotoT
  BY DEF SemElo, EloT, EventoLivre, EventoT, RemotoLivre, RemotoT
<1>2. SemRascunho \in RascunhoT /\ DOMAIN SemRascunho.ev = {} /\ DOMAIN SemRascunho.elo = {}
  BY VazioParcial DEF SemRascunho, RascunhoT
<1>3. SyncLivre \in SyncT /\ DOMAIN SyncLivre.itens = {} /\ DOMAIN SyncLivre.lista = {}
  BY VazioParcial DEF SyncLivre, SyncT, SemToken, PassosSync, AcoesSync
<1>4. EdicaoLivre \in EdicaoT  BY DEF EdicaoLivre, EdicaoT
<1> QED  BY <1>1, <1>2, <1>3, <1>4

LEMMA SyncTem ==
    ASSUME TipoGoogle, NEW s \in Syncs
    PROVE  /\ sync[s] \in SyncT /\ rasc[s] \in RascunhoT
           /\ DOMAIN sync[s].itens \subseteq Remotos
           /\ \A g \in DOMAIN sync[s].itens : sync[s].itens[g] \in RemotoT
           /\ DOMAIN sync[s].lista \subseteq Eventos
           /\ \A e \in DOMAIN sync[s].lista : sync[s].lista[e] \in ListadoT
           /\ DOMAIN rasc[s].ev \subseteq Eventos /\ DOMAIN rasc[s].elo \subseteq Eventos
           /\ \A e \in DOMAIN rasc[s].ev : rasc[s].ev[e] \in EventoT
           /\ \A e \in DOMAIN rasc[s].elo : rasc[s].elo[e] \in EloT
<1>1. sync[s] \in SyncT /\ rasc[s] \in RascunhoT  BY DEF TipoGoogle
<1>2. /\ sync[s].itens \in Parciais(Remotos, RemotoT) /\ sync[s].lista \in Parciais(Eventos, ListadoT)
      /\ rasc[s].ev \in Parciais(Eventos, EventoT) /\ rasc[s].elo \in Parciais(Eventos, EloT)
  BY <1>1 DEF SyncT, RascunhoT
<1> QED  BY <1>1, <1>2, ParcialTem

LEMMA EvTem ==
    ASSUME TipoGoogle, NEW s \in Syncs, NEW e \in Eventos
    PROVE  Ev(s, e) \in EventoT /\ Elo(s, e) \in EloT
  BY SyncTem DEF TipoGoogle, Ev, Elo

(***************************************************************************)
(* People: they change contents and versions, and take the calm away.      *)
(***************************************************************************)
MesmaSync(y, x) ==
    /\ y.passo = x.passo /\ y.inicio = x.inicio /\ y.token = x.token /\ y.itens = x.itens
    /\ y.g = x.g /\ y.e = x.e /\ y.acao = x.acao /\ y.lista = x.lista /\ y.ver = x.ver
    /\ y.junto = x.junto

LEMMA Perturbada ==
    ASSUME TipoGoogle, Perturbar
    PROVE  sync' \in [Syncs -> SyncT] /\ \A s \in Syncs : MesmaSync(sync'[s], sync[s])
<1>1. ASSUME NEW s \in Syncs
      PROVE  sync'[s] \in SyncT /\ MesmaSync(sync'[s], sync[s])
  <2>1. sync[s] \in SyncT /\ sync'[s] = [sync[s] EXCEPT !.calmo = "nao"]
    BY DEF TipoGoogle, Perturbar
  <2> QED  BY <2>1 DEF SyncT, MesmaSync
<1> QED  BY <1>1 DEF Perturbar

\* What one synchronization says is what it said.
LEMMA MesmaFala ==
    ASSUME NEW y, NEW x, NEW r, MesmaSync(y, x)
    PROVE  \A e, g : /\ FalaDe(y, r, e, g) <=> FalaDe(x, r, e, g)
                     /\ PorLigar(y, e, g) <=> PorLigar(x, e, g)
  BY DEF MesmaSync, FalaDe, PorLigar

LEMMA PassoMesmo ==
    ASSUME NEW s \in Syncs, sync[s] \in SyncT, sync'[s] \in SyncT, PassoOK(s),
           MesmaSync(sync'[s], sync[s]), UNCHANGED <<rasc, direcao>>,
           \A e \in Eventos : evento'[e].st = "livre" => evento[e].st = "livre"
    PROVE  PassoOK(s)'
<1>1. ASSUME sync'[s].passo = "livre"
      PROVE  sync'[s] = [SyncLivre EXCEPT !.calmo = sync'[s].calmo] /\ rasc'[s] = SemRascunho
  <2>1. sync[s] = [SyncLivre EXCEPT !.calmo = sync[s].calmo] /\ rasc[s] = SemRascunho
    BY <1>1 DEF PassoOK, MesmaSync
  <2>2. sync'[s] = [SyncLivre EXCEPT !.calmo = sync'[s].calmo]
    BY <2>1 DEF MesmaSync, SyncT, SyncLivre
  <2> QED  BY <2>1, <2>2
<1> QED  BY <1>1 DEF PassoOK, MesmaSync

LEMMA PessoasSegue ==
    ASSUME IInvGoogle, TipoGoogle', Perturbar,
           UNCHANGED <<direcao, token, elo, rasc, duvidosos>>, relogio' >= relogio,
           \A g \in Remotos :
              /\ google'[g].dono = google[g].dono /\ google'[g].ver >= google[g].ver
              /\ google'[g].st # "livre" => google'[g].ver > 0
              /\ google'[g].st = "livre" => google'[g] = google[g],
           \A e \in Eventos :
              /\ evento'[e].st = "livre" => evento[e].st = "livre"
              /\ evento[e].st = "excluido" => evento'[e].st = "excluido"
              /\ (\E s \in Syncs : e \in DOMAIN rasc[s].ev) => evento'[e] = evento[e]
              /\ evento[e].st = "livre" /\ (\E s \in Syncs : sync[s].e = e) => evento'[e].st = "livre"
    PROVE  IInvGoogle'
<1> USE DEF IInvGoogle
<1>1. /\ \A s \in Syncs : MesmaSync(sync'[s], sync[s]) /\ sync'[s] \in SyncT /\ sync[s] \in SyncT
      /\ relogio \in Nat /\ relogio' \in Nat /\ \A s \in Syncs : sync[s].inicio \in Nat
  BY Perturbada DEF TipoGoogle, SyncT
<1>2. \A s \in Syncs : \A e, g :
            /\ FalaDe(sync'[s], rasc[s], e, g) <=> FalaDe(sync[s], rasc[s], e, g)
            /\ PorLigar(sync'[s], e, g) <=> PorLigar(sync[s], e, g)
  BY <1>1, MesmaFala
<1>3. \A e \in Eventos, g \in Remotos : Fala(e, g)' <=> Fala(e, g)  BY <1>2 DEF Fala
<1>4. SyncsOK'
  <2>1. ASSUME NEW s \in Syncs PROVE PassoOK(s)' /\ RascunhoOK(s)' /\ ListaOK(s)' /\ NovoOK(s)'
    <3>1. PassoOK(s)'  BY <1>1, PassoMesmo DEF SyncsOK
    <3>2. RascunhoOK(s)'
      <4>1. RascunhoOK(s) /\ DOMAIN rasc[s].ev \subseteq Eventos /\ DOMAIN rasc[s].elo \subseteq Eventos
        BY SyncTem DEF SyncsOK
      <4>2. sync'[s].inicio <= relogio'  BY <1>1, <4>1 DEF RascunhoOK, MesmaSync
      <4> QED  BY <1>1, <4>1, <4>2 DEF RascunhoOK, MesmaSync
    <3>3. ListaOK(s)'
      <4>1. ListaOK(s) /\ DOMAIN sync[s].lista \subseteq Eventos  BY SyncTem DEF SyncsOK
      <4> QED  BY <1>1, <4>1 DEF ListaOK, MesmaSync
    <3>4. NovoOK(s)'
      <4>1. NovoOK(s) /\ PassoOK(s)  BY DEF SyncsOK
      <4>2. \A t \in Syncs : sync'[t].e = sync[t].e  BY <1>1 DEF MesmaSync
      <4>3. sync'[s].passo = sync[s].passo /\ sync'[s].acao = sync[s].acao  BY <1>1 DEF MesmaSync
      <4> QED  BY <4>1, <4>2, <4>3 DEF NovoOK, PassoOK
    <3> QED  BY <3>1, <3>2, <3>3, <3>4
  <2>2. ASSUME NEW s \in Syncs, NEW t \in Syncs, s # t PROVE Separados(s, t)'
    BY <1>1, <2>2 DEF SyncsOK, Separados, MesmaSync
  <2> QED  BY <2>1, <2>2 DEF SyncsOK
<1>5. ASSUME NEW g \in Remotos PROVE Intacto(g)' /\ VersaoOK(g)'
  BY <1>1, <1>3 DEF Intacto, VersaoOK, MesmaSync
<1>6. ASSUME NEW e \in Eventos PROVE NaoNascido(e)'
  <2>1. \A s \in Syncs : sync'[s].itens = sync[s].itens  BY <1>1 DEF MesmaSync
  <2> QED  BY <2>1 DEF NaoNascido
<1>7. UmId' /\ Unicos'
  <2>1. UmId'  BY <1>3 DEF UmId
  <2>2. Unicos'  BY DEF Unicos, Elo
  <2> QED  BY <2>1, <2>2
<1>8. Listados'  BY <1>1 DEF Listados, MesmaSync
<1>9. \A e \in Eventos : Certo(e)' => Certo(e)  BY DEF Certo
<1>10. CopiasOK'
  <2>1. ASSUME NEW e \in Eventos, NEW g \in Remotos, CopiaDe(e, g) PROVE CopiaDe(e, g)'
    <3>1. \A s \in Syncs : sync'[s].itens = sync[s].itens  BY <1>1 DEF MesmaSync
    <3>2. \A s \in Syncs : \A x \in Eventos \ {e} : PorLigar(sync'[s], x, g) => elo'[e].g = g
      BY <1>2, <2>1 DEF CopiaDe
    <3> QED  BY <2>1, <3>1, <3>2 DEF CopiaDe
  <2> QED  BY <1>9, <2>1 DEF CopiasOK
<1>11. PuxadosOK'
  <2>1. ASSUME NEW e \in Eventos, NEW g \in Remotos, PassadoOK(e, g) PROVE PassadoOK(e, g)'
    <3>1. \A s \in Syncs : Elo(s, e)' = Elo(s, e)  BY DEF Elo
    <3>2. /\ google[g].ver \in Nat /\ google'[g].ver \in Nat /\ token[g] \in Nat
          /\ \A s \in Syncs : sync[s].token[g] \in Nat
      BY DEF TipoGoogle, SyncT, RemotoT
    <3> QED  BY <1>1, <2>1, <3>1, <3>2 DEF PassadoOK, ViuOK, MesmaSync
  <2>2. ASSUME direcao # "sistema_google", NEW e \in Eventos, NEW g \in Remotos, Certo(e)',
               google'[g].dono = e
        PROVE  PassadoOK(e, g)'
    <3>1. Certo(e) /\ google[g].dono = e  BY <1>9, <2>2
    <3>2. PassadoOK(e, g)  BY <2>2, <3>1 DEF PuxadosOK
    <3> QED  BY <2>1, <3>2
  <2> QED  BY <2>2 DEF PuxadosOK
<1>12. SemPull'
  <2>1. /\ SemPull /\ direcao' = direcao /\ duvidosos' = duvidosos /\ elo' = elo /\ rasc' = rasc
        /\ \A g \in Remotos : google'[g].dono = google[g].dono
    OBVIOUS
  <2> QED  BY ONLY <1>2, <2>1 DEF SemPull
<1>13. ASSUME NEW s \in Syncs PROVE SozinhoViu(s)' /\ ACriar(s)'
  <2>1. SozinhoViu(s)'  BY <1>1 DEF SozinhoViu, MesmaSync
  <2>2. DOMAIN sync[s].lista \subseteq Eventos  BY SyncTem
  <2>3. ACriar(s)'  BY <1>1, <1>3, <2>2 DEF ACriar, MesmaSync
  <2> QED  BY <2>1, <2>3
<1> QED  BY <1>4, <1>5, <1>6, <1>7, <1>8, <1>10, <1>11, <1>12, <1>13

LEMMA GoogleCriaSegue ==
    ASSUME IInvGoogle, NEW g \in Remotos, GoogleCria(g)
    PROVE  IInvGoogle'
<1>1. /\ google[g].st = "livre" /\ Perturbar /\ relogio' = relogio + 1
      /\ google' = [google EXCEPT ![g] = [st |-> "vivo", cont |-> relogio', ver |-> 1,
                                          dono |-> SemEvento]]
      /\ UNCHANGED <<direcao, token, evento, elo, rasc, edicao, duvidosos>>
  BY DEF GoogleCria, Mudar, tabelasAgenda
<1>2. /\ TipoGoogle /\ google[g] \in RemotoT /\ Intacto(g) /\ relogio \in Nat
      /\ google \in [Remotos -> RemotoT]
  BY DEF IInvGoogle, TipoGoogle
<1>3. google[g].dono = SemEvento /\ google[g].ver = 0
  <2>1. google[g].dono \notin Eventos  BY <1>1, <1>2 DEF Intacto, Fala
  <2> QED  BY <1>1, <1>2, <2>1 DEF Intacto, RemotoT
<1>4. TipoGoogle'
  <2>1. google' \in [Remotos -> RemotoT] /\ relogio' \in Nat  BY <1>1, <1>2 DEF RemotoT
  <2> QED  BY <1>1, <1>2, <2>1, Perturbada DEF TipoGoogle
<1>5. \A h \in Remotos :
        /\ google'[h].dono = google[h].dono /\ google'[h].ver >= google[h].ver
        /\ google'[h].st # "livre" => google'[h].ver > 0
        /\ google'[h].st = "livre" => google'[h] = google[h]
  <2>1. \A h \in Remotos : google[h].ver \in Nat /\ VersaoOK(h)
    BY <1>2 DEF RemotoT, IInvGoogle
  <2> QED  BY <1>1, <1>2, <1>3, <2>1 DEF VersaoOK
<1> QED  BY <1>1, <1>2, <1>4, <1>5, PessoasSegue

LEMMA GoogleAlteraSegue ==
    ASSUME IInvGoogle, NEW g \in Remotos, NEW st \in {"vivo", "cancelado"}, GoogleAltera(g, st)
    PROVE  IInvGoogle'
<1>1. /\ google[g].st = "vivo" /\ Perturbar /\ relogio' = relogio + 1
      /\ google' = [google EXCEPT ![g].st = st, ![g].cont = relogio', ![g].ver = @ + 1]
      /\ UNCHANGED <<direcao, token, evento, elo, rasc, edicao, duvidosos>>
  BY DEF GoogleAltera, Mudar, tabelasAgenda
<1>2. TipoGoogle /\ google[g] \in RemotoT /\ relogio \in Nat /\ google \in [Remotos -> RemotoT]
  BY DEF IInvGoogle, TipoGoogle
<1> DEFINE x == [google[g] EXCEPT !.st = st, !.cont = relogio', !.ver = @ + 1]
<1>3. /\ x \in RemotoT /\ x.dono = google[g].dono /\ x.st = st /\ x.ver = google[g].ver + 1
      /\ relogio' \in Nat /\ google[g].ver \in Nat
  BY <1>1, <1>2 DEF RemotoT
<1>4. google' = [google EXCEPT ![g] = x]  BY <1>1, <1>2
<1> HIDE DEF x
<1>5. TipoGoogle'
  <2>1. google' \in [Remotos -> RemotoT]  BY <1>2, <1>3, <1>4
  <2> QED  BY <1>1, <1>2, <1>3, <2>1, Perturbada DEF TipoGoogle
<1>6. \A h \in Remotos :
        /\ google'[h].dono = google[h].dono /\ google'[h].ver >= google[h].ver
        /\ google'[h].st # "livre" => google'[h].ver > 0
        /\ google'[h].st = "livre" => google'[h] = google[h]
  <2>1. \A h \in Remotos : google[h].ver \in Nat /\ VersaoOK(h)
    BY <1>2 DEF RemotoT, IInvGoogle
  <2> QED  BY <1>1, <1>2, <1>3, <1>4, <2>1 DEF VersaoOK
<1> QED  BY <1>1, <1>2, <1>3, <1>5, <1>6, PessoasSegue

\* What stays of Google when only the agenda changes.
LEMMA GoogleFica ==
    ASSUME IInvGoogle, UNCHANGED google
    PROVE  \A h \in Remotos :
              /\ google'[h].dono = google[h].dono /\ google'[h].ver >= google[h].ver
              /\ google'[h].st # "livre" => google'[h].ver > 0
              /\ google'[h].st = "livre" => google'[h] = google[h]
<1>1. \A h \in Remotos : google[h].ver \in Nat /\ VersaoOK(h)
  BY DEF RemotoT, IInvGoogle, TipoGoogle
<1> QED  BY <1>1 DEF VersaoOK

LEMMA CriarEventoSegue ==
    ASSUME IInvGoogle, NEW e \in Eventos, CriarEvento(e)
    PROVE  IInvGoogle'
<1>1. /\ Livre(e) /\ Perturbar /\ relogio' = relogio + 1
      /\ evento' = [evento EXCEPT ![e] = [st |-> "vivo", cont |-> relogio', mod |-> relogio']]
      /\ UNCHANGED <<direcao, token, elo, google, rasc, edicao, duvidosos>>
  BY DEF CriarEvento, Mudar
<1>2. TipoGoogle /\ relogio \in Nat /\ evento \in [Eventos -> EventoT]  BY DEF IInvGoogle, TipoGoogle
<1>3. evento' \in [Eventos -> EventoT] /\ relogio' \in Nat  BY <1>1, <1>2 DEF EventoT
<1>4. TipoGoogle'  BY <1>1, <1>2, <1>3, Perturbada DEF TipoGoogle
<1>5. \A d \in Eventos :
        /\ evento'[d].st = "livre" => evento[d].st = "livre"
        /\ evento[d].st = "excluido" => evento'[d].st = "excluido"
        /\ (\E s \in Syncs : d \in DOMAIN rasc[s].ev) => evento'[d] = evento[d]
        /\ evento[d].st = "livre" /\ (\E s \in Syncs : sync[s].e = d) => evento'[d].st = "livre"
  BY <1>1, <1>2 DEF Livre
<1>6. relogio' >= relogio  BY <1>1, <1>2
<1> QED  BY <1>1, <1>4, <1>5, <1>6, GoogleFica, PessoasSegue

LEMMA LerEventoSegue ==
    ASSUME IInvGoogle, NEW r \in Edicoes, NEW e \in Eventos,
           NEW tipo \in {"vivo", "cancelado", "excluido"}, LerEvento(r, e, tipo)
    PROVE  IInvGoogle'
<1>1. /\ Perturbar /\ relogio' = relogio + 1
      /\ edicao' = [edicao EXCEPT ![r] = [e |-> e, tipo |-> tipo, em |-> relogio']]
      /\ UNCHANGED <<direcao, token, evento, elo, google, rasc, duvidosos>>
  BY DEF LerEvento, Mudar, tabelasAgenda
<1>2. TipoGoogle /\ relogio \in Nat /\ edicao \in [Edicoes -> EdicaoT]  BY DEF IInvGoogle, TipoGoogle
<1>3. edicao' \in [Edicoes -> EdicaoT] /\ relogio' \in Nat  BY <1>1, <1>2 DEF EdicaoT
<1>4. TipoGoogle'  BY <1>1, <1>2, <1>3, Perturbada DEF TipoGoogle
<1>5. relogio' >= relogio  BY <1>1, <1>2
<1> QED  BY <1>1, <1>4, <1>5, GoogleFica, PessoasSegue

LEMMA GravarEventoSegue ==
    ASSUME IInvGoogle, NEW r \in Edicoes, GravarEvento(r)
    PROVE  IInvGoogle'
<1> PICK d : d = edicao[r]  BY Zenon
<1>1. /\ d.tipo # "nada" /\ \A s \in Syncs : d.e \notin DOMAIN rasc[s].ev
      /\ edicao' = [edicao EXCEPT ![r] = EdicaoLivre] /\ Perturbar
      /\ UNCHANGED <<direcao, token, elo, google, rasc, relogio, duvidosos>>
  BY DEF GravarEvento
<1> PICK st \in IF d.tipo = "vivo" THEN {"vivo", "cancelado"} ELSE {d.tipo} :
        evento' = IF ~Existente(d.e) THEN evento
                  ELSE [evento EXCEPT ![d.e] = [st |-> st, mod |-> d.em,
                             cont |-> IF d.tipo = "vivo" THEN d.em ELSE @.cont]]
  BY DEF GravarEvento
<1>2. /\ TipoGoogle /\ relogio \in Nat /\ edicao \in [Edicoes -> EdicaoT] /\ d \in EdicaoT
      /\ evento \in [Eventos -> EventoT]
  BY DEF IInvGoogle, TipoGoogle
<1>3. edicao' \in [Edicoes -> EdicaoT]  BY <1>1, <1>2, LivresTipo
<1>4. /\ evento' \in [Eventos -> EventoT]
      /\ \A e \in Eventos :
            /\ evento'[e].st = "livre" => evento[e].st = "livre"
            /\ evento[e].st = "excluido" => evento'[e].st = "excluido"
            /\ (\E s \in Syncs : e \in DOMAIN rasc[s].ev) => evento'[e] = evento[e]
            /\ evento[e].st = "livre" => evento'[e].st = "livre"
  <2>1. CASE ~Existente(d.e)  BY <1>1, <1>2, <2>1
  <2>2. CASE Existente(d.e)
    <3> PICK x : x = [st |-> st, mod |-> d.em,
                      cont |-> IF d.tipo = "vivo" THEN d.em ELSE evento[d.e].cont]
      BY Zenon
    <3>1. evento' = [evento EXCEPT ![d.e] = x]  BY <1>1, <2>2
    <3>2. d.e \in Eventos => x \in EventoT  BY <1>1, <1>2 DEF EdicaoT, EventoT
    <3>3. x.st # "livre"  BY <1>1, <1>2 DEF EdicaoT
    <3>4. d.e \in Eventos => evento[d.e].st # "excluido"  BY <2>2 DEF Existente
    <3>5. \A e \in Eventos : evento'[e] = IF e = d.e THEN x ELSE evento[e]  BY <1>2, <3>1
    <3>6. evento' \in [Eventos -> EventoT]  BY <1>2, <3>1, <3>2
    <3>7. \A e \in Eventos : (\E s \in Syncs : e \in DOMAIN rasc[s].ev) => evento'[e] = evento[e]
      BY <1>1, <3>5
    <3>8. d.e \in Eventos => evento[d.e].st # "livre"  BY <2>2 DEF Existente
    <3> QED  BY <3>3, <3>4, <3>5, <3>6, <3>7, <3>8
  <2> QED  BY <2>1, <2>2
<1>5. TipoGoogle'  BY <1>1, <1>2, <1>3, <1>4, Perturbada DEF TipoGoogle
<1>6. relogio' >= relogio  BY <1>1, <1>2
<1> QED  BY <1>1, <1>4, <1>5, <1>6, GoogleFica, PessoasSegue

(***************************************************************************)
(* A synchronization goes on, and only what it says changes.               *)
(***************************************************************************)
LEMMA DuvidaSegue ==
    ASSUME IInvGoogle, NEW s \in Syncs, NEW x \in SyncT,
           sync' = [sync EXCEPT ![s] = x],
           UNCHANGED <<direcao, token, evento, elo, google, rasc, edicao, relogio>>,
           duvidosos \subseteq duvidosos', duvidosos' \subseteq Eventos,
           x.junto = sync[s].junto, sync[s].passo \notin {"livre", "anotar"}, x.passo # "livre",
           PassoOK(s)', RascunhoOK(s)', ListaOK(s)', NovoOK(s)',
           \A t \in Syncs \ {s} : sync[t].passo = "aplicar" /\ sync[t].acao = "inserir" =>
              x.e # sync[t].e,
           \A e \in Eventos, g \in Remotos : FalaDe(x, rasc[s], e, g) /\ ~Fala(e, g) =>
              /\ google[g].st # "livre"
              /\ \A h \in Remotos : ~Fala(e, h) /\ (FalaDe(x, rasc[s], e, h) => h = g),
           \A g \in Remotos : google[g].st = "livre" => x.token[g] = 0 /\ g \notin DOMAIN x.itens,
           \A g \in DOMAIN x.itens, e \in Eventos : x.itens[g].dono = e => evento[e].st # "livre",
           \A e \in Eventos \ duvidosos' :
              e \in DOMAIN x.lista /\ x.lista[e].g # SemRemoto => elo[e].g = x.lista[e].g,
           \A e \in Eventos, g \in Remotos : Certo(e)' /\ google[g].dono = e =>
              /\ \A d \in Eventos \ {e} : PorLigar(x, d, g) => elo[e].g = g
              /\ g \in DOMAIN x.itens /\ x.itens[g].dono # e => elo[e].g = g
              /\ direcao # "sistema_google" => ViuOK(x, Elo(s, e).g, e, g),
           SozinhoViu(s)', ACriar(s)'
    PROVE  IInvGoogle'
<1> USE DEF IInvGoogle
<1>1. /\ sync \in [Syncs -> SyncT] /\ sync' \in [Syncs -> SyncT]
      /\ sync'[s] = x /\ \A t \in Syncs : t # s => sync'[t] = sync[t]
  BY DEF TipoGoogle
<1>2. TipoGoogle'  BY <1>1 DEF TipoGoogle
<1>3. \A e \in Eventos, g \in Remotos : Fala(e, g)' => Fala(e, g) \/ FalaDe(x, rasc[s], e, g)
  BY <1>1 DEF Fala
<1>4. SyncsOK'
  <2>1. ASSUME NEW t \in Syncs, t # s PROVE PassoOK(t)' /\ RascunhoOK(t)' /\ ListaOK(t)' /\ NovoOK(t)'
    <3>1. PassoOK(t)' /\ RascunhoOK(t)' /\ ListaOK(t)'
      BY <1>1, <2>1 DEF SyncsOK, PassoOK, RascunhoOK, ListaOK
    <3>2. NovoOK(t)  BY DEF SyncsOK
    <3>3. NovoOK(t)'  BY <1>1, <2>1, <3>2 DEF NovoOK
    <3> QED  BY <3>1, <3>3
  <2>2. ASSUME NEW t \in Syncs, NEW u \in Syncs, t # u PROVE Separados(t, u)'
    BY <1>1, <2>2 DEF SyncsOK, Separados
  <2> QED  BY <2>1, <2>2 DEF SyncsOK
<1>5. ASSUME NEW g \in Remotos PROVE Intacto(g)' /\ VersaoOK(g)'
  <2>1. Intacto(g)'  BY <1>1, <1>3 DEF Intacto
  <2> QED  BY <2>1 DEF VersaoOK
<1>6. ASSUME NEW e \in Eventos PROVE NaoNascido(e)'
  BY <1>1 DEF NaoNascido
<1>7. UmId'
  <2> SUFFICES ASSUME NEW e \in Eventos, e \notin duvidosos', NEW g \in Remotos, NEW h \in Remotos,
                      Fala(e, g)', Fala(e, h)'
               PROVE  g = h
    BY DEF UmId
  <2>1. /\ Fala(e, g) \/ FalaDe(x, rasc[s], e, g)
        /\ Fala(e, h) \/ FalaDe(x, rasc[s], e, h)
    BY <1>3
  <2>2. Fala(e, g) /\ Fala(e, h) => g = h  BY DEF UmId
  <2> QED  BY <2>1, <2>2
<1>8. Unicos'  BY DEF Unicos, Elo
<1>9. Listados'  BY <1>1 DEF Listados
<1>14. \A e : Certo(e)' => Certo(e)  BY DEF Certo
<1>10. CopiasOK'
  <2> SUFFICES ASSUME NEW e \in Eventos, NEW g \in Remotos, Certo(e)', google[g].dono = e
               PROVE  CopiaDe(e, g)'
    BY DEF CopiasOK, Certo
  <2>1. CopiaDe(e, g)  BY <1>14 DEF CopiasOK
  <2> QED  BY <1>1, <2>1 DEF CopiaDe
<1>11. PuxadosOK'
  <2> SUFFICES ASSUME direcao # "sistema_google", NEW e \in Eventos, NEW g \in Remotos, Certo(e)',
                      google[g].dono = e
               PROVE  PassadoOK(e, g)'
    BY DEF PuxadosOK, Certo
  <2>1. PassadoOK(e, g)  BY <1>14 DEF PuxadosOK
  <2>2. \A t \in Syncs : Elo(t, e)' = Elo(t, e)  BY DEF Elo
  <2> QED  BY <1>1, <2>1, <2>2 DEF PassadoOK, ViuOK
<1>12. SemPull'
  <2>1. \A e, g : PorLigar(sync[s], e, g) => direcao # "sistema_google"
    BY DEF PorLigar, SyncsOK, PassoOK
  <2> QED  BY <1>1, <2>1 DEF SemPull
<1>13. ASSUME NEW t \in Syncs PROVE SozinhoViu(t)' /\ ACriar(t)'
  <2>1. CASE t = s  BY <2>1
  <2>2. CASE t # s
    <3>1. SozinhoViu(t)'  BY <1>1, <2>2 DEF SozinhoViu
    <3>2. sync[t].passo = "livre" \/ sync[t].junto = "sim"  BY <2>2 DEF SyncsOK, Separados
    <3>3. ACriar(t)'  BY <1>1, <2>2, <3>2 DEF ACriar
    <3> QED  BY <3>1, <3>3
  <2> QED  BY <2>1, <2>2
<1> QED  BY <1>2, <1>4, <1>5, <1>6, <1>7, <1>8, <1>9, <1>10, <1>11, <1>12, <1>13

LEMMA QuietoSegue ==
    ASSUME IInvGoogle, NEW s \in Syncs, NEW x \in SyncT,
           sync' = [sync EXCEPT ![s] = x],
           UNCHANGED <<direcao, token, evento, elo, google, rasc, edicao, relogio, duvidosos>>,
           x.junto = sync[s].junto, sync[s].passo \notin {"livre", "anotar"}, x.passo # "livre",
           PassoOK(s)', RascunhoOK(s)', ListaOK(s)', NovoOK(s)',
           \A t \in Syncs \ {s} : sync[t].passo = "aplicar" /\ sync[t].acao = "inserir" =>
              x.e # sync[t].e,
           \A e \in Eventos, g \in Remotos : FalaDe(x, rasc[s], e, g) /\ ~Fala(e, g) =>
              /\ google[g].st # "livre"
              /\ \A h \in Remotos : ~Fala(e, h) /\ (FalaDe(x, rasc[s], e, h) => h = g),
           \A g \in Remotos : google[g].st = "livre" => x.token[g] = 0 /\ g \notin DOMAIN x.itens,
           \A g \in DOMAIN x.itens, e \in Eventos : x.itens[g].dono = e => evento[e].st # "livre",
           \A e \in Eventos \ duvidosos :
              e \in DOMAIN x.lista /\ x.lista[e].g # SemRemoto => elo[e].g = x.lista[e].g,
           \A e \in Eventos, g \in Remotos : Certo(e) /\ google[g].dono = e =>
              /\ \A d \in Eventos \ {e} : PorLigar(x, d, g) => elo[e].g = g
              /\ g \in DOMAIN x.itens /\ x.itens[g].dono # e => elo[e].g = g
              /\ direcao # "sistema_google" => ViuOK(x, Elo(s, e).g, e, g),
           SozinhoViu(s)', ACriar(s)'
    PROVE  IInvGoogle'
<1>1. /\ duvidosos' = duvidosos /\ duvidosos' \subseteq Eventos
      /\ UNCHANGED <<direcao, token, evento, elo, google, rasc, edicao, relogio>>
  BY DEF IInvGoogle, TipoGoogle
<1>2. \A e : Certo(e)' => Certo(e)  BY DEF Certo
<1> QED  BY <1>1, <1>2, DuvidaSegue

\* An id that nobody holds is one that nobody speaks of.
LEMMA LivreSemFala ==
    ASSUME IInvGoogle, NEW e \in Eventos, Livre(e)
    PROVE  \A h \in Remotos : ~Fala(e, h)
<1> USE DEF IInvGoogle
<1>1. /\ evento[e].st = "livre" /\ NaoNascido(e)
      /\ \A s \in Syncs : e \notin DOMAIN rasc[s].ev /\ sync[s].e # e
  BY DEF Livre
<1> SUFFICES ASSUME NEW h \in Remotos, Fala(e, h) PROVE FALSE
  OBVIOUS
<1>2. elo[e].g # h /\ google[h].dono # e  BY <1>1, NomesAgenda DEF NaoNascido
<1>3. PICK s \in Syncs : FalaDe(sync[s], rasc[s], e, h)  BY <1>2 DEF Fala
<1>4. RascunhoOK(s) /\ ListaOK(s)  BY DEF SyncsOK
<1> QED  BY <1>1, <1>3, <1>4 DEF FalaDe, PorLigar, RascunhoOK, ListaOK, NaoNascido

\* The copy of an event is imported into that event.
LEMMA AlvoDaCopia ==
    ASSUME IInvGoogle, NEW s \in Syncs, NEW g \in DOMAIN sync[s].itens, NEW e \in Eventos,
           Certo(e), google[g].dono = e
    PROVE  Alvos(s, g) = {e}
<1> USE DEF IInvGoogle
<1>1. g \in Remotos /\ TipoGoogle  BY SyncTem
<1>2. CopiaDe(e, g) /\ e \notin duvidosos /\ evento[e].st # "excluido" /\ evento[e].st # "livre"
  BY <1>1 DEF CopiasOK, Certo, NaoNascido
<1>3. \A d \in Eventos \ {e} : Elo(s, d).g # g  BY <1>2 DEF CopiaDe, Elo
<1>4. Vinculados(s, g) = {} \/ Vinculados(s, g) = {e}  BY <1>3 DEF Vinculados
<1>5. ASSUME Vinculados(s, g) = {}
      PROVE  Alvos(s, g) = {e}
  <2>1. Elo(s, e).g # g  BY <1>5 DEF Vinculados
  <2>2. elo[e].g # g
    <3>1. SUFFICES ASSUME elo[e].g = g PROVE FALSE
      OBVIOUS
    <3>2. e \in DOMAIN rasc[s].elo /\ rasc[s].elo[e].g # g  BY <2>1, <3>1 DEF Elo
    <3>3. rasc[s].elo[e].g \in Remotos
      BY <3>2, SyncTem, <1>1 DEF SyncsOK, RascunhoOK, EloT
    <3>4. Fala(e, g) /\ Fala(e, rasc[s].elo[e].g)  BY <3>1, <3>2 DEF Fala, FalaDe
    <3> QED  BY <1>1, <1>2, <3>2, <3>3, <3>4 DEF UmId
  <2>3. sync[s].itens[g].dono = e  BY <1>2, <2>2 DEF CopiaDe
  <2>4. Ev(s, e).st \in {"vivo", "cancelado"}
    <3>1. RascunhoOK(s) /\ Ev(s, e) \in EventoT  BY <1>1, EvTem DEF SyncsOK
    <3> QED  BY <1>2, <3>1 DEF RascunhoOK, Ev, EventoT
  <2> QED  BY <1>5, <2>3, <2>4 DEF Alvos, Adotavel
<1> QED  BY <1>4, <1>5 DEF Alvos

\* Whoever is alone has the others stopped, and nothing in their hands.
LEMMA SoEla ==
    ASSUME IInvGoogle, NEW s \in Syncs, sync[s].junto = "nao", sync[s].passo # "livre",
           NEW t \in Syncs, t # s
    PROVE  /\ sync[t].passo = "livre" /\ DOMAIN rasc[t].elo = {}
           /\ \A e, g : ~FalaDe(sync[t], rasc[t], e, g) /\ ~PorLigar(sync[t], e, g)
<1>1. sync[t].passo = "livre"  BY DEF IInvGoogle, SyncsOK, Separados
<1>2. rasc[t] = SemRascunho /\ sync[t] = [SyncLivre EXCEPT !.calmo = sync[t].calmo]
  BY <1>1 DEF IInvGoogle, SyncsOK, PassoOK
<1>3. DOMAIN sync[t].itens = {} /\ DOMAIN sync[t].lista = {} /\ DOMAIN rasc[t].elo = {}
  BY <1>2, LivresTipo DEF SyncT
<1> QED  BY <1>1, <1>3 DEF FalaDe, PorLigar

LEMMA BuscarSegue ==
    ASSUME IInvGoogle, NEW s \in Syncs, Buscar(s)
    PROVE  IInvGoogle'
<1>1. PICK base \in {sync[s].token, SemToken} :
        Seguir(s, [sync[s] EXCEPT
              !.passo = "importar",
              !.itens = [g \in {h \in Remotos : google[h].ver > base[h]} |-> google[g]],
              !.token = [g \in Remotos |-> google[g].ver]])
  BY DEF Buscar
<1>2. /\ sync[s].passo = "buscar"
      /\ UNCHANGED <<direcao, token, evento, elo, google, rasc, edicao, relogio, duvidosos>>
  BY DEF Buscar, tabelasAgenda, fixoAgenda, historiaAgenda
<1> DEFINE itens == [g \in {h \in Remotos : google[h].ver > base[h]} |-> google[g]]
           token2 == [g \in Remotos |-> google[g].ver]
           x == [sync[s] EXCEPT !.passo = "importar", !.itens = itens, !.token = token2]
<1>3. /\ TipoGoogle /\ sync[s] \in SyncT /\ google \in [Remotos -> RemotoT]
      /\ PassoOK(s) /\ RascunhoOK(s)
  BY DEF IInvGoogle, TipoGoogle, SyncsOK
<1>4. \A g \in Remotos : google[g].ver \in Nat /\ base[g] \in Nat
  BY <1>3 DEF RemotoT, SyncT, SemToken
<1>5. /\ itens \in Parciais(Remotos, RemotoT)
      /\ DOMAIN itens = {h \in Remotos : google[h].ver > base[h]}
      /\ \A g \in DOMAIN itens : itens[g] = google[g]
  <2>1. itens \in [{h \in Remotos : google[h].ver > base[h]} -> RemotoT]  BY <1>3
  <2> QED  BY <2>1, ParcialE
<1>6. token2 \in [Remotos -> Nat] /\ \A g \in Remotos : token2[g] = google[g].ver  BY <1>4
<1>7. sync' = [sync EXCEPT ![s] = x]  BY <1>1 DEF Seguir
<1> HIDE DEF itens, token2
<1>8. /\ x \in SyncT /\ x.passo = "importar" /\ x.itens = itens /\ x.token = token2
      /\ x.junto = sync[s].junto /\ x.g = sync[s].g /\ x.e = sync[s].e /\ x.lista = sync[s].lista
      /\ x.inicio = sync[s].inicio
  BY <1>3, <1>5, <1>6 DEF SyncT, PassosSync
<1> HIDE DEF x
<1>9. /\ sync'[s] = x /\ x.g = SemRemoto /\ x.e = SemEvento /\ DOMAIN x.lista = {}
      /\ rasc[s] = SemRascunho /\ direcao # "sistema_google"
      /\ DOMAIN rasc[s].ev = {} /\ DOMAIN rasc[s].elo = {}
  BY <1>2, <1>3, <1>7, <1>8, LivresTipo DEF PassoOK, TipoGoogle
<1>10. PassoOK(s)' /\ RascunhoOK(s)' /\ ListaOK(s)' /\ NovoOK(s)'
  BY <1>2, <1>3, <1>8, <1>9 DEF PassoOK, RascunhoOK, ListaOK, NovoOK
<1>11. \A e \in Eventos, g \in Remotos : FalaDe(x, rasc[s], e, g) => Fala(e, g)
  BY <1>5, <1>8, <1>9 DEF FalaDe, PorLigar, Fala
<1>12. \A g \in Remotos : google[g].st = "livre" <=> google[g].ver = 0
  <2>1. \A g \in Remotos : Intacto(g) /\ VersaoOK(g)  BY DEF IInvGoogle
  <2> QED  BY <2>1, <1>4 DEF Intacto, VersaoOK
<1>13. \A g \in Remotos : google[g].st = "livre" => x.token[g] = 0 /\ g \notin DOMAIN x.itens
  BY <1>4, <1>5, <1>6, <1>8, <1>12
<1>14. \A g \in DOMAIN x.itens, e \in Eventos : x.itens[g].dono = e => evento[e].st # "livre"
  BY <1>5, <1>8 DEF IInvGoogle, NaoNascido
<1>15. \A e \in Eventos, g \in Remotos : google[g].dono = e => google[g].ver > 0
  <2>1. \A e \in Eventos, g \in Remotos : google[g].dono = e => google[g].st # "livre"
    BY DEF IInvGoogle, Intacto, Fala
  <2> QED  BY <2>1, <1>4, <1>12
<1>16. ASSUME NEW e \in Eventos, NEW g \in Remotos, Certo(e), google[g].dono = e
       PROVE  /\ \A d \in Eventos \ {e} : PorLigar(x, d, g) => elo[e].g = g
              /\ g \in DOMAIN x.itens /\ x.itens[g].dono # e => elo[e].g = g
              /\ ViuOK(x, Elo(s, e).g, e, g)
  <2>1. ~\E d : PorLigar(x, d, g)  BY <1>8 DEF PorLigar
  <2>2. g \in DOMAIN x.itens => x.itens[g].dono = e  BY <1>5, <1>8, <1>16
  <2>3. PassadoOK(e, g)  BY <1>9, <1>16 DEF IInvGoogle, PuxadosOK
  <2>4. ASSUME g \notin DOMAIN x.itens PROVE Elo(s, e).g # SemRemoto
    <3>1. google[g].ver <= base[g] /\ google[g].ver > 0  BY <1>4, <1>5, <1>8, <1>15, <1>16, <2>4
    <3>2. base = sync[s].token  BY <1>4, <3>1 DEF SemToken
    <3>3. elo[e].g # SemRemoto  BY <1>2, <2>3, <3>1, <3>2 DEF PassadoOK, ViuOK
    <3> QED  BY <1>9, <3>3 DEF Elo
  <2>5. ViuOK(x, Elo(s, e).g, e, g)  BY <1>8, <2>4 DEF ViuOK
  <2> QED  BY <2>1, <2>2, <2>5
<1>17. SozinhoViu(s)'
  <2>1. \A g \in Remotos : google[g].dono # SemEvento => x.token[g] > 0
    <3>1. \A g \in Remotos : google[g].dono # SemEvento => google[g].dono \in Eventos
      BY <1>3 DEF RemotoT
    <3> QED  BY <3>1, <1>6, <1>8, <1>15
  <2> QED  BY <1>2, <1>9, <2>1 DEF SozinhoViu
<1>18. ACriar(s)'  BY <1>8, <1>9 DEF ACriar
<1>19. \A e \in Eventos \ duvidosos :
         e \in DOMAIN x.lista /\ x.lista[e].g # SemRemoto => elo[e].g = x.lista[e].g
  BY <1>9
<1>20. \A t \in Syncs \ {s} : sync[t].passo = "aplicar" /\ sync[t].acao = "inserir" => x.e # sync[t].e
  BY <1>9, NomesAgenda DEF IInvGoogle, SyncsOK, PassoOK
<1> QED
  BY ONLY IInvGoogle, <1>2, <1>7, <1>8, <1>10, <1>11, <1>13, <1>14, <1>16, <1>17, <1>18, <1>19,
     <1>20, QuietoSegue

LEMMA EscolherSegue ==
    ASSUME IInvGoogle, NEW s \in Syncs, NEW g \in Remotos, Escolher(s, g)
    PROVE  IInvGoogle'
<1> DEFINE Ida(ex, acao) ==
       Seguir(s, [sync[s] EXCEPT !.passo = "aplicar", !.g = g, !.e = ex, !.acao = acao])
<1>1. /\ sync[s].passo = "importar" /\ g \in DOMAIN sync[s].itens
      /\ IF sync[s].itens[g].st = "cancelado"
         THEN IF Alvos(s, g) = {} THEN Ida(SemEvento, "nada")
              ELSE \E e \in Alvos(s, g) : Ida(e, "cancelar")
         ELSE IF Alvos(s, g) = {}
         THEN \E e \in Eventos : Livre(e) /\ Ida(e, "inserir")
         ELSE \E e \in Alvos(s, g) :
                 Ida(e, IF \E d \in Vinculados(s, g) : sync[s].itens[g].ver <= Elo(s, d).ver
                        THEN "nada" ELSE "atualizar")
      /\ UNCHANGED <<tabelasAgenda, google, rasc, edicao, fixoAgenda, historiaAgenda>>
  BY Zenon DEF Escolher, Visto
<1> HIDE DEF Ida
<1>2. /\ sync[s].passo = "importar" /\ g \in DOMAIN sync[s].itens
      /\ UNCHANGED <<direcao, token, evento, elo, google, rasc, edicao, relogio, duvidosos>>
  BY ONLY <1>1 DEF tabelasAgenda, fixoAgenda, historiaAgenda
<1>3. \E ex \in Eventos \cup {SemEvento} : \E acao \in AcoesSync :
        /\ Ida(ex, acao)
        /\ \/ acao = "nada" /\ ex = SemEvento /\ Alvos(s, g) = {}
           \/ acao \in {"cancelar", "atualizar"} /\ ex \in Alvos(s, g)
           \/ acao = "inserir" /\ Livre(ex) /\ ex \in Eventos /\ Alvos(s, g) = {}
           \/ /\ acao = "nada" /\ ex \in Alvos(s, g)
              /\ \E e \in Vinculados(s, g) : sync[s].itens[g].ver <= Elo(s, e).ver
  <2>1. Alvos(s, g) \subseteq Eventos  BY DEF Alvos, Vinculados
  <2> QED  BY ONLY <1>1, <2>1 DEF AcoesSync
<1>4. PICK ex \in Eventos \cup {SemEvento}, acao \in AcoesSync :
        /\ Ida(ex, acao)
        /\ \/ acao = "nada" /\ ex = SemEvento /\ Alvos(s, g) = {}
           \/ acao \in {"cancelar", "atualizar"} /\ ex \in Alvos(s, g)
           \/ acao = "inserir" /\ Livre(ex) /\ ex \in Eventos /\ Alvos(s, g) = {}
           \/ /\ acao = "nada" /\ ex \in Alvos(s, g)
              /\ \E e \in Vinculados(s, g) : sync[s].itens[g].ver <= Elo(s, e).ver
  BY ONLY <1>3
<1> DEFINE x == [sync[s] EXCEPT !.passo = "aplicar", !.g = g, !.e = ex, !.acao = acao]
<1>5. /\ TipoGoogle /\ sync[s] \in SyncT /\ sync \in [Syncs -> SyncT]
      /\ PassoOK(s) /\ RascunhoOK(s) /\ ListaOK(s) /\ Intacto(g)
  BY DEF IInvGoogle, TipoGoogle, SyncsOK
<1>6. /\ x \in SyncT /\ x.passo = "aplicar" /\ x.g = g /\ x.e = ex /\ x.acao = acao
      /\ x.itens = sync[s].itens /\ x.token = sync[s].token /\ x.junto = sync[s].junto
      /\ x.lista = sync[s].lista /\ x.inicio = sync[s].inicio
  BY <1>5 DEF SyncT, PassosSync
<1>7. sync' = [sync EXCEPT ![s] = x] /\ sync'[s] = x  BY <1>4, <1>5 DEF Ida, Seguir
<1> HIDE DEF x
<1>8. /\ DOMAIN x.lista = {} /\ direcao # "sistema_google" /\ google[g].st # "livre"
      /\ acao \in {"nada", "inserir", "cancelar", "atualizar"}
      /\ acao # "nada" => ex \in Eventos
  BY <1>2, <1>4, <1>5, <1>6 DEF PassoOK, Intacto, Alvos, Vinculados
\* Whom it chose is spoken of with this item, or is nobody's.
<1>9. ASSUME ex \in Alvos(s, g)
      PROVE  Fala(ex, g) /\ Ev(s, ex).st # "livre"
  <2>1. CASE Elo(s, ex).g = g
    <3>1. Fala(ex, g)  BY <2>1 DEF Elo, Fala, FalaDe
    <3>2. evento[ex].st = "livre" => ex \in DOMAIN rasc[s].ev
      <4>1. ex \in Eventos  BY <1>9 DEF Alvos, Vinculados
      <4>2. NaoNascido(ex)  BY <4>1 DEF IInvGoogle
      <4> QED  BY <2>1, <4>2, <1>5, NomesAgenda DEF NaoNascido, Elo, RascunhoOK
    <3> QED  BY <3>1, <3>2, <1>5 DEF RascunhoOK, Ev
  <2>2. CASE Elo(s, ex).g # g
    <3>1. Adotavel(s, g, ex)  BY <1>9, <2>2 DEF Alvos, Vinculados
    <3> QED  BY <1>2, <3>1 DEF Adotavel, Fala, FalaDe
  <2> QED  BY <2>1, <2>2
<1>10. acao \in {"cancelar", "atualizar"} => ex \in Alvos(s, g) /\ Fala(ex, g) /\ Ev(s, ex).st # "livre"
  BY <1>4, <1>9
<1>11. acao = "inserir" => Livre(ex) /\ ex \in Eventos /\ Alvos(s, g) = {}
  BY <1>4
<1>12. PassoOK(s)'
  <2>1. acao \in {"cancelar", "atualizar"} => evento[ex].st # "livre" \/ ex \in DOMAIN rasc[s].ev
    BY <1>10 DEF Ev
  <2>2. g \in DOMAIN x.itens  BY <1>2, <1>6
  <2>3. direcao' = direcao /\ evento' = evento /\ rasc' = rasc  BY <1>2
  <2> QED  BY ONLY <2>1, <2>2, <2>3, <1>6, <1>7, <1>8 DEF PassoOK
<1>13. RascunhoOK(s)' /\ ListaOK(s)' /\ NovoOK(s)'
  <2>1. RascunhoOK(s)'  BY <1>2, <1>5, <1>6, <1>7 DEF RascunhoOK
  <2>2. ListaOK(s)'  BY <1>7, <1>8 DEF ListaOK
  <2>3. NovoOK(s)'
    <3>1. \A t \in Syncs : t # s => sync'[t] = sync[t]  BY <1>5, <1>7
    <3> QED  BY <1>2, <1>6, <1>7, <1>11, <3>1 DEF NovoOK, Livre
  <2> QED  BY <2>1, <2>2, <2>3
<1>14. ASSUME NEW t \in Syncs \ {s}, sync[t].passo = "aplicar", sync[t].acao = "inserir"
       PROVE  x.e # sync[t].e
  <2>1. NovoOK(t) /\ PassoOK(t)  BY DEF IInvGoogle, SyncsOK
  <2>2. /\ evento[sync[t].e].st = "livre" /\ sync[t].e \in Eventos
        /\ sync[t].e \notin DOMAIN rasc[s].ev
    BY <1>14, <2>1 DEF NovoOK, PassoOK
  <2>3. ex # sync[t].e
    <3>1. CASE ex \in Alvos(s, g)  BY <1>9, <2>2, <3>1 DEF Ev
    <3>2. CASE ex = SemEvento  BY <2>2, <3>2, NomesAgenda
    <3>3. CASE Livre(ex)  BY <3>3 DEF Livre
    <3> QED  BY <1>4, <3>1, <3>2, <3>3
  <2> QED  BY <1>6, <2>3
<1>15. ASSUME NEW e \in Eventos, NEW h \in Remotos, Certo(e), google[h].dono = e
       PROVE  /\ \A d \in Eventos \ {e} : PorLigar(x, d, h) => elo[e].g = h
              /\ h \in DOMAIN x.itens /\ x.itens[h].dono # e => elo[e].g = h
              /\ direcao # "sistema_google" => ViuOK(x, Elo(s, e).g, e, h)
  <2>1. CopiaDe(e, h) /\ ViuOK(sync[s], Elo(s, e).g, e, h)
    BY <1>8, <1>15 DEF IInvGoogle, CopiasOK, PuxadosOK, PassadoOK
  <2>2. h = g => Alvos(s, g) = {e}  BY <1>2, <1>15, AlvoDaCopia
  <2>3. \A d \in Eventos \ {e} : ~PorLigar(x, d, h)
    BY <1>4, <1>6, <2>2 DEF PorLigar
  <2>4. acao = "nada" /\ h = g => Elo(s, e).g # SemRemoto
    <3>1. acao = "nada" /\ h = g => \E d \in Vinculados(s, g) : TRUE  BY <1>4, <2>2
    <3>2. Vinculados(s, g) # {} => Alvos(s, g) = Vinculados(s, g)  BY DEF Alvos
    <3>3. acao = "nada" /\ h = g => e \in Vinculados(s, g)  BY <2>2, <3>1, <3>2
    <3> QED  BY <3>3, NomesAgenda DEF Vinculados
  <2>5. ViuOK(x, Elo(s, e).g, e, h)  BY <1>2, <1>6, <2>1, <2>4 DEF ViuOK
  <2>6. h \in DOMAIN x.itens /\ x.itens[h].dono # e => elo[e].g = h  BY <1>6, <2>1 DEF CopiaDe
  <2> QED  BY <2>3, <2>5, <2>6
<1>16. SozinhoViu(s)'
  <2>1. SozinhoViu(s)  BY DEF IInvGoogle
  <2> QED  BY <1>2, <1>6, <1>7, <2>1 DEF SozinhoViu
<1>17. ACriar(s)'  BY <1>6, <1>7 DEF ACriar
<1>18. \A h \in Remotos : google[h].st = "livre" => x.token[h] = 0 /\ h \notin DOMAIN x.itens
  BY <1>6 DEF IInvGoogle, Intacto
<1>19. \A h \in DOMAIN x.itens, e \in Eventos : x.itens[h].dono = e => evento[e].st # "livre"
  BY <1>6 DEF IInvGoogle, NaoNascido
<1>20. \A e \in Eventos \ duvidosos :
         e \in DOMAIN x.lista /\ x.lista[e].g # SemRemoto => elo[e].g = x.lista[e].g
  BY <1>8
<1>21. \A e \in Eventos, h \in Remotos :
         FalaDe(x, rasc[s], e, h) => Fala(e, h) \/ (acao = "inserir" /\ e = ex /\ h = g)
  <2> SUFFICES ASSUME NEW e \in Eventos, NEW h \in Remotos, FalaDe(x, rasc[s], e, h), ~Fala(e, h)
               PROVE  acao = "inserir" /\ e = ex /\ h = g
    OBVIOUS
  <2>1. ~FalaDe(sync[s], rasc[s], e, h)  BY DEF Fala
  <2>2. PorLigar(x, e, h)  BY <2>1, <1>6, <1>8 DEF FalaDe
  <2>3. acao # "nada" /\ e = ex /\ h = g  BY <2>2, <1>6 DEF PorLigar
  <2> QED  BY <2>3, <1>8, <1>10
<1>22. \A e \in Eventos, h \in Remotos : FalaDe(x, rasc[s], e, h) /\ ~Fala(e, h) =>
         /\ google[h].st # "livre"
         /\ \A k \in Remotos : ~Fala(e, k) /\ (FalaDe(x, rasc[s], e, k) => k = h)
  BY <1>8, <1>11, <1>21, LivreSemFala
<1> QED
  BY ONLY IInvGoogle, <1>2, <1>6, <1>7, <1>12, <1>13, <1>14, <1>15, <1>16, <1>17, <1>18, <1>19,
     <1>20, <1>22, QuietoSegue

\* The item it was at is done with.
LEMMA ItemFeitoTem ==
    ASSUME TipoGoogle, NEW s \in Syncs
    PROVE  /\ ItemFeito(s) \in SyncT /\ ItemFeito(s).passo = "importar"
           /\ ItemFeito(s).g = SemRemoto /\ ItemFeito(s).e = SemEvento
           /\ ItemFeito(s).acao = "nada" /\ ItemFeito(s).token = sync[s].token
           /\ DOMAIN ItemFeito(s).itens = DOMAIN sync[s].itens \ {sync[s].g}
           /\ \A h \in DOMAIN ItemFeito(s).itens : ItemFeito(s).itens[h] = sync[s].itens[h]
           /\ ItemFeito(s).lista = sync[s].lista /\ ItemFeito(s).junto = sync[s].junto
           /\ ItemFeito(s).inicio = sync[s].inicio
<1> PICK y \in SyncT : y = sync[s]  BY DEF TipoGoogle
<1> PICK f \in Parciais(Remotos, RemotoT) : f = y.itens  BY DEF SyncT
<1> PICK z : z = [g \in DOMAIN f \ {y.g} |-> f[g]]
  BY Zenon
<1>1. z \in Parciais(Remotos, RemotoT) /\ DOMAIN z = DOMAIN f \ {y.g}  BY SemParcial
<1>2. \A h \in DOMAIN z : z[h] = f[h]  OBVIOUS
<1>3. ItemFeito(s) = [y EXCEPT !.passo = "importar", !.g = SemRemoto, !.e = SemEvento,
                               !.acao = "nada", !.itens = z]
  BY DEF ItemFeito, SyncT
<1> PICK w : w = [y EXCEPT !.passo = "importar", !.g = SemRemoto, !.e = SemEvento,
                           !.acao = "nada", !.itens = z]
  BY Zenon
<1>4. w \in SyncT
  <2>1. y \in SyncT  OBVIOUS
  <2> QED
    BY ONLY <1>1, <2>1, w = [y EXCEPT !.passo = "importar", !.g = SemRemoto, !.e = SemEvento,
                                      !.acao = "nada", !.itens = z]
       DEF SyncT, PassosSync, AcoesSync
<1>5. /\ w.passo = "importar" /\ w.g = SemRemoto /\ w.e = SemEvento
      /\ w.acao = "nada" /\ w.token = y.token /\ w.itens = z /\ w.lista = y.lista
      /\ w.junto = y.junto /\ w.inicio = y.inicio
  BY DEF SyncT
<1>6. ItemFeito(s) = w  BY <1>3
<1> QED  BY ONLY <1>1, <1>2, <1>4, <1>5, <1>6, f = y.itens, y = sync[s]

LEMMA IgnorarSegue ==
    ASSUME IInvGoogle, NEW s \in Syncs, Ignorar(s)
    PROVE  IInvGoogle'
<1>1. /\ sync[s].passo = "aplicar" /\ sync[s].acao = "nada"
      /\ sync' = [sync EXCEPT ![s] = ItemFeito(s)]
      /\ UNCHANGED <<direcao, token, evento, elo, google, rasc, edicao, relogio, duvidosos>>
  BY DEF Ignorar, Seguir, tabelasAgenda, fixoAgenda, historiaAgenda
<1>2. /\ TipoGoogle /\ sync[s] \in SyncT /\ sync \in [Syncs -> SyncT]
      /\ PassoOK(s) /\ RascunhoOK(s) /\ ListaOK(s)
  BY DEF IInvGoogle, TipoGoogle, SyncsOK
<1> PICK x \in SyncT :
      /\ x = ItemFeito(s)
      /\ x.passo = "importar" /\ x.g = SemRemoto /\ x.e = SemEvento /\ x.acao = "nada"
      /\ x.token = sync[s].token /\ DOMAIN x.itens = DOMAIN sync[s].itens \ {sync[s].g}
      /\ \A h \in DOMAIN x.itens : x.itens[h] = sync[s].itens[h]
      /\ x.lista = sync[s].lista /\ x.junto = sync[s].junto /\ x.inicio = sync[s].inicio
  BY <1>2, ItemFeitoTem
<1>3. sync' = [sync EXCEPT ![s] = x] /\ sync'[s] = x  BY <1>1, <1>2
<1>4. DOMAIN x.lista = {} /\ direcao # "sistema_google"  BY <1>1, <1>2 DEF PassoOK
<1>5. /\ PassoOK(s)' /\ RascunhoOK(s)' /\ ListaOK(s)' /\ NovoOK(s)'
  BY <1>1, <1>2, <1>3, <1>4 DEF PassoOK, RascunhoOK, ListaOK, NovoOK
<1>6. \A t \in Syncs \ {s} : sync[t].passo = "aplicar" /\ sync[t].acao = "inserir" => x.e # sync[t].e
  BY NomesAgenda DEF IInvGoogle, SyncsOK, PassoOK
<1>7. \A e \in Eventos, g \in Remotos : FalaDe(x, rasc[s], e, g) => Fala(e, g)
  BY <1>4 DEF FalaDe, PorLigar, Fala
<1>8. \A g \in Remotos : google[g].st = "livre" => x.token[g] = 0 /\ g \notin DOMAIN x.itens
  BY DEF IInvGoogle, Intacto
<1>9. \A g \in DOMAIN x.itens, e \in Eventos : x.itens[g].dono = e => evento[e].st # "livre"
  BY DEF IInvGoogle, NaoNascido
<1>10. ASSUME NEW e \in Eventos, NEW g \in Remotos, Certo(e), google[g].dono = e
       PROVE  /\ \A d \in Eventos \ {e} : PorLigar(x, d, g) => elo[e].g = g
              /\ g \in DOMAIN x.itens /\ x.itens[g].dono # e => elo[e].g = g
              /\ direcao # "sistema_google" => ViuOK(x, Elo(s, e).g, e, g)
  <2>1. CopiaDe(e, g) /\ ViuOK(sync[s], Elo(s, e).g, e, g)
    BY <1>4, <1>10 DEF IInvGoogle, CopiasOK, PuxadosOK, PassadoOK
  <2>2. ViuOK(x, Elo(s, e).g, e, g)  BY <1>1, <2>1 DEF ViuOK
  <2> QED  BY <2>1, <2>2 DEF CopiaDe, PorLigar
<1>11. SozinhoViu(s)'
  <2>1. SozinhoViu(s)  BY DEF IInvGoogle
  <2> QED  BY <1>1, <1>3, <2>1 DEF SozinhoViu
<1>12. ACriar(s)'  BY <1>3 DEF ACriar
<1> QED
  BY ONLY IInvGoogle, <1>1, <1>3, <1>4, <1>5, <1>6, <1>7, <1>8, <1>9, <1>10, <1>11, <1>12, QuietoSegue,
     x.passo = "importar", x.junto = sync[s].junto

\* The rest of a synchronization that passed over a copy.
PuladaPor(s, g) == [sync[s] EXCEPT !.itens = [h \in DOMAIN @ \ {g} |-> @[h]]]

LEMMA PuladaTem ==
    ASSUME NEW s \in Syncs, sync[s] \in SyncT, NEW g
    PROVE  LET x == PuladaPor(s, g)  y == sync[s] IN
           /\ x \in SyncT
           /\ x.passo = y.passo /\ x.g = y.g /\ x.e = y.e /\ x.acao = y.acao /\ x.ver = y.ver
           /\ x.token = y.token /\ DOMAIN x.itens = DOMAIN y.itens \ {g}
           /\ \A h \in DOMAIN x.itens : x.itens[h] = y.itens[h]
           /\ x.lista = y.lista /\ x.junto = y.junto /\ x.inicio = y.inicio /\ x.calmo = y.calmo
<1> PICK y : y = sync[s]  BY Zenon
<1> PICK f : f = [h \in DOMAIN y.itens \ {g} |-> y.itens[h]]  BY Zenon
<1>1. y \in SyncT /\ y.itens \in Parciais(Remotos, RemotoT)  BY DEF SyncT
<1>2. f \in Parciais(Remotos, RemotoT) /\ DOMAIN f = DOMAIN y.itens \ {g}
      /\ \A h \in DOMAIN f : f[h] = y.itens[h]
  BY <1>1, SemParcial
<1>3. PuladaPor(s, g) = [y EXCEPT !.itens = f]  BY DEF PuladaPor
<1> PICK x : x = [y EXCEPT !.itens = f]  BY Zenon
<1>4. /\ x \in SyncT /\ x.itens = f
      /\ x.passo = y.passo /\ x.g = y.g /\ x.e = y.e /\ x.acao = y.acao /\ x.ver = y.ver
      /\ x.token = y.token /\ x.lista = y.lista /\ x.junto = y.junto /\ x.inicio = y.inicio
      /\ x.calmo = y.calmo
  BY <1>1, <1>2 DEF SyncT
<1> QED  BY <1>2, <1>3, <1>4

LEMMA PularSegue ==
    ASSUME IInvGoogle, NEW s \in Syncs, NEW g0 \in Remotos, Pular(s, g0)
    PROVE  IInvGoogle'
<1>1. /\ sync[s].passo = "importar" /\ g0 \in DOMAIN sync[s].itens
      /\ sync' = [sync EXCEPT ![s] = PuladaPor(s, g0)]
      /\ UNCHANGED <<direcao, token, evento, elo, google, rasc, edicao, relogio>>
  BY DEF Pular, Seguir, PuladaPor, tabelasAgenda, fixoAgenda
<1>15. duvidosos' = IF Vinculados(s, g0) # {} THEN duvidosos
                    ELSE duvidosos \cup {e \in Eventos : Adotavel(s, g0, e)}
  BY DEF Pular
<1>2. /\ TipoGoogle /\ sync[s] \in SyncT /\ sync \in [Syncs -> SyncT]
      /\ PassoOK(s) /\ RascunhoOK(s) /\ ListaOK(s)
  BY DEF IInvGoogle, TipoGoogle, SyncsOK
<1>16. sync[s].g = SemRemoto /\ sync[s].e = SemEvento /\ DOMAIN sync[s].lista = {}
       /\ direcao # "sistema_google"
  BY <1>1, <1>2 DEF PassoOK
<1> PICK x \in SyncT :
      /\ x = PuladaPor(s, g0)
      /\ x.passo = "importar" /\ x.g = SemRemoto /\ x.e = SemEvento
      /\ x.token = sync[s].token /\ DOMAIN x.itens = DOMAIN sync[s].itens \ {g0}
      /\ \A h \in DOMAIN x.itens : x.itens[h] = sync[s].itens[h]
      /\ x.lista = sync[s].lista /\ x.junto = sync[s].junto /\ x.inicio = sync[s].inicio
  BY <1>1, <1>2, <1>16, PuladaTem
<1>3. sync' = [sync EXCEPT ![s] = x] /\ sync'[s] = x  BY <1>1, <1>2
<1>4. DOMAIN x.lista = {} /\ direcao # "sistema_google"  BY <1>16
<1>14. duvidosos \subseteq duvidosos' /\ duvidosos' \subseteq Eventos
  BY <1>2, <1>15 DEF TipoGoogle
<1>5. /\ PassoOK(s)' /\ RascunhoOK(s)' /\ ListaOK(s)' /\ NovoOK(s)'
  BY <1>1, <1>2, <1>3, <1>4 DEF PassoOK, RascunhoOK, ListaOK, NovoOK
<1>6. \A t \in Syncs \ {s} : sync[t].passo = "aplicar" /\ sync[t].acao = "inserir" => x.e # sync[t].e
  BY NomesAgenda DEF IInvGoogle, SyncsOK, PassoOK
<1>7. \A e \in Eventos, g \in Remotos : FalaDe(x, rasc[s], e, g) => Fala(e, g)
  BY <1>4 DEF FalaDe, PorLigar, Fala
<1>8. \A g \in Remotos : google[g].st = "livre" => x.token[g] = 0 /\ g \notin DOMAIN x.itens
  BY DEF IInvGoogle, Intacto
<1>9. \A g \in DOMAIN x.itens, e \in Eventos : x.itens[g].dono = e => evento[e].st # "livre"
  BY DEF IInvGoogle, NaoNascido
<1>10. ASSUME NEW e \in Eventos, NEW g \in Remotos, Certo(e)', google[g].dono = e
       PROVE  /\ \A d \in Eventos \ {e} : PorLigar(x, d, g) => elo[e].g = g
              /\ g \in DOMAIN x.itens /\ x.itens[g].dono # e => elo[e].g = g
              /\ direcao # "sistema_google" => ViuOK(x, Elo(s, e).g, e, g)
  <2>1. Certo(e)  BY <1>1, <1>10, <1>14 DEF Certo
  <2>2. CopiaDe(e, g) /\ ViuOK(sync[s], Elo(s, e).g, e, g)
    BY <1>4, <1>10, <2>1 DEF IInvGoogle, CopiasOK, PuxadosOK, PassadoOK
  <2>3. g = g0 => Elo(s, e).g = g0
    <3> SUFFICES ASSUME g = g0 PROVE Elo(s, e).g = g0
      OBVIOUS
    <3>1. Alvos(s, g0) = {e}  BY <1>1, <1>10, <2>1, AlvoDaCopia
    <3>2. CASE Vinculados(s, g0) # {}  BY <3>1, <3>2 DEF Alvos, Vinculados
    <3>3. CASE Vinculados(s, g0) = {}
      <4>1. e \in duvidosos'  BY <1>15, <3>1, <3>3 DEF Alvos
      <4> QED  BY <1>10, <4>1 DEF Certo
    <3> QED  BY <3>2, <3>3
  <2>4. ViuOK(x, Elo(s, e).g, e, g)  BY <1>1, <2>2, <2>3, NomesAgenda DEF ViuOK
  <2> QED  BY <2>2, <2>4 DEF CopiaDe, PorLigar
<1>11. SozinhoViu(s)'
  <2>1. SozinhoViu(s)  BY DEF IInvGoogle
  <2> QED  BY <1>1, <1>3, <2>1 DEF SozinhoViu
<1>12. ACriar(s)'  BY <1>3 DEF ACriar
<1> QED
  BY ONLY IInvGoogle, <1>1, <1>3, <1>4, <1>5, <1>6, <1>7, <1>8, <1>9, <1>10, <1>11, <1>12, <1>14, DuvidaSegue,
     x.passo = "importar", x.junto = sync[s].junto

LEMMA FimDaBuscaSegue ==
    ASSUME IInvGoogle, NEW s \in Syncs, FimDaBusca(s)
    PROVE  IInvGoogle'
<1>1. /\ sync[s].passo = "importar" /\ DOMAIN sync[s].itens = {}
      /\ sync' = [sync EXCEPT ![s] =
                    [sync[s] EXCEPT !.passo = IF direcao = "bidirecional" THEN "ler" ELSE "fim"]]
      /\ UNCHANGED <<direcao, token, evento, elo, google, rasc, edicao, relogio, duvidosos>>
  BY DEF FimDaBusca, Seguir, tabelasAgenda, fixoAgenda, historiaAgenda
<1>2. /\ TipoGoogle /\ sync[s] \in SyncT /\ sync \in [Syncs -> SyncT]
      /\ PassoOK(s) /\ RascunhoOK(s) /\ ListaOK(s)
  BY DEF IInvGoogle, TipoGoogle, SyncsOK
<1> PICK x : x = [sync[s] EXCEPT !.passo = IF direcao = "bidirecional" THEN "ler" ELSE "fim"]
  BY Zenon
<1>3. /\ x \in SyncT /\ x.passo \in {"ler", "fim"}
      /\ x.g = sync[s].g /\ x.e = sync[s].e /\ x.acao = sync[s].acao /\ x.itens = sync[s].itens
      /\ x.token = sync[s].token /\ x.lista = sync[s].lista /\ x.junto = sync[s].junto
      /\ x.inicio = sync[s].inicio
  BY <1>2 DEF SyncT, PassosSync
<1>4. sync' = [sync EXCEPT ![s] = x] /\ sync'[s] = x  BY <1>1, <1>2
<1>5. /\ DOMAIN x.lista = {} /\ direcao # "sistema_google" /\ x.g = SemRemoto /\ x.e = SemEvento
      /\ DOMAIN x.itens = {}
  BY <1>1, <1>2, <1>3 DEF PassoOK
<1>6. /\ PassoOK(s)' /\ RascunhoOK(s)' /\ ListaOK(s)' /\ NovoOK(s)'
  BY <1>1, <1>2, <1>3, <1>4, <1>5 DEF PassoOK, RascunhoOK, ListaOK, NovoOK
<1>7. \A t \in Syncs \ {s} : sync[t].passo = "aplicar" /\ sync[t].acao = "inserir" => x.e # sync[t].e
  BY <1>5, NomesAgenda DEF IInvGoogle, SyncsOK, PassoOK
<1>8. \A e \in Eventos, g \in Remotos : FalaDe(x, rasc[s], e, g) => Fala(e, g)
  BY <1>3, <1>5 DEF FalaDe, PorLigar, Fala
<1>9. \A g \in Remotos : google[g].st = "livre" => x.token[g] = 0 /\ g \notin DOMAIN x.itens
  BY <1>3, <1>5 DEF IInvGoogle, Intacto
<1>10. ASSUME NEW e \in Eventos, NEW g \in Remotos, Certo(e), google[g].dono = e
       PROVE  /\ \A d \in Eventos \ {e} : PorLigar(x, d, g) => elo[e].g = g
              /\ g \in DOMAIN x.itens /\ x.itens[g].dono # e => elo[e].g = g
              /\ direcao # "sistema_google" => ViuOK(x, Elo(s, e).g, e, g)
  <2>1. ViuOK(sync[s], Elo(s, e).g, e, g)
    BY <1>5, <1>10 DEF IInvGoogle, PuxadosOK, PassadoOK
  <2>2. ViuOK(x, Elo(s, e).g, e, g)  BY <1>1, <1>3, <2>1 DEF ViuOK
  <2> QED  BY <1>3, <1>5, <2>2 DEF PorLigar
<1>11. SozinhoViu(s)'
  <2>1. SozinhoViu(s)  BY DEF IInvGoogle
  <2> QED  BY <1>1, <1>3, <1>4, <2>1 DEF SozinhoViu
<1>12. ACriar(s)'  BY <1>3, <1>4 DEF ACriar
<1> QED
  BY ONLY IInvGoogle, <1>1, <1>3, <1>4, <1>5, <1>6, <1>7, <1>8, <1>9, <1>10, <1>11, <1>12, QuietoSegue

LEMMA LerEventosSegue ==
    ASSUME IInvGoogle, NEW s \in Syncs, LerEventos(s)
    PROVE  IInvGoogle'
<1> PICK l : l = [e \in AEnviar(s) |-> [ev |-> Ev(s, e), g |-> Elo(s, e).g]]
  BY Zenon
<1>1. /\ sync[s].passo = "ler"
      /\ sync' = [sync EXCEPT ![s] = [sync[s] EXCEPT !.passo = "enviar", !.lista = l]]
      /\ UNCHANGED <<direcao, token, evento, elo, google, rasc, edicao, relogio, duvidosos>>
  BY DEF LerEventos, Seguir, tabelasAgenda, fixoAgenda, historiaAgenda
<1>2. /\ TipoGoogle /\ sync[s] \in SyncT /\ sync \in [Syncs -> SyncT]
      /\ PassoOK(s) /\ RascunhoOK(s)
  BY DEF IInvGoogle, TipoGoogle, SyncsOK
<1>3. DOMAIN l = AEnviar(s) /\ \A e \in DOMAIN l : l[e] = [ev |-> Ev(s, e), g |-> Elo(s, e).g]
  OBVIOUS
<1>4. AEnviar(s) \subseteq Eventos  BY DEF AEnviar
<1>5. l \in Parciais(Eventos, ListadoT)
  <2>1. \A e \in AEnviar(s) : [ev |-> Ev(s, e), g |-> Elo(s, e).g] \in ListadoT
    BY <1>2, <1>4, EvTem DEF ListadoT, EloT
  <2>2. l \in [AEnviar(s) -> ListadoT]  BY <2>1
  <2> QED  BY <1>4, <2>2, ParcialE
<1> PICK x : x = [sync[s] EXCEPT !.passo = "enviar", !.lista = l]
  BY Zenon
<1>6. /\ x \in SyncT /\ x.passo = "enviar" /\ x.lista = l
      /\ x.g = sync[s].g /\ x.e = sync[s].e /\ x.acao = sync[s].acao /\ x.itens = sync[s].itens
      /\ x.token = sync[s].token /\ x.junto = sync[s].junto /\ x.inicio = sync[s].inicio
  BY <1>2, <1>5 DEF SyncT, PassosSync
<1>7. sync' = [sync EXCEPT ![s] = x] /\ sync'[s] = x  BY <1>1, <1>2
<1>8. x.g = SemRemoto /\ x.e = SemEvento /\ DOMAIN x.itens = {}  BY <1>1, <1>2, <1>6 DEF PassoOK
\* What this synchronization has written is not sent again.
<1>9. ASSUME NEW e \in AEnviar(s)
      PROVE  /\ e \notin DOMAIN rasc[s].elo /\ l[e].g = elo[e].g /\ evento[e].st # "livre"
             /\ l[e].g = SemRemoto => evento[e].st # "excluido"
  <2>1. /\ e \in Eventos
        /\ \/ Ev(s, e).st \in {"vivo", "cancelado"}
           \/ Ev(s, e).st = "excluido" /\ Elo(s, e).g # SemRemoto
        /\ Elo(s, e).g = SemRemoto \/ Ev(s, e).mod > Elo(s, e).sist
    BY DEF AEnviar
  <2>2. e \notin DOMAIN rasc[s].elo
    <3>1. SUFFICES ASSUME e \in DOMAIN rasc[s].elo PROVE FALSE
      OBVIOUS
    <3>2. /\ rasc[s].elo[e].g # SemRemoto /\ e \in DOMAIN rasc[s].ev
          /\ rasc[s].ev[e].mod <= rasc[s].elo[e].sist
      BY <1>1, <1>2, <3>1 DEF RascunhoOK
    <3>3. rasc[s].ev[e].mod \in Nat /\ rasc[s].elo[e].sist \in Nat
      BY <1>2, <3>1, <3>2, SyncTem DEF EventoT, EloT
    <3> QED  BY <2>1, <3>1, <3>2, <3>3 DEF Ev, Elo
  <2>3. e \notin DOMAIN rasc[s].ev  BY <1>2, <2>2 DEF RascunhoOK
  <2>4. Ev(s, e) = evento[e] /\ Elo(s, e) = elo[e]  BY <2>2, <2>3 DEF Ev, Elo
  <2> QED  BY <1>3, <2>1, <2>2, <2>4
<1>10. PassoOK(s)' /\ NovoOK(s)'
  BY <1>1, <1>2, <1>6, <1>7, <1>8 DEF PassoOK, NovoOK
<1>11. RascunhoOK(s)' /\ ListaOK(s)'
  <2>1. RascunhoOK(s)'  BY <1>1, <1>2, <1>6, <1>7 DEF RascunhoOK
  <2>2. ListaOK(s)'
    <3>1. sync'[s].lista = l /\ evento' = evento /\ elo' = elo  BY <1>1, <1>6, <1>7
    <3> QED  BY ONLY <1>3, <1>9, <3>1 DEF ListaOK
  <2> QED  BY <2>1, <2>2
<1>12. \A t \in Syncs \ {s} : sync[t].passo = "aplicar" /\ sync[t].acao = "inserir" => x.e # sync[t].e
  BY <1>8, NomesAgenda DEF IInvGoogle, SyncsOK, PassoOK
<1>13. \A e \in Eventos, g \in Remotos : FalaDe(x, rasc[s], e, g) => Fala(e, g)
  BY <1>3, <1>6, <1>8, <1>9 DEF FalaDe, PorLigar, Fala
<1>14. \A g \in Remotos : google[g].st = "livre" => x.token[g] = 0 /\ g \notin DOMAIN x.itens
  BY <1>6, <1>8 DEF IInvGoogle, Intacto
<1>15. \A e \in Eventos \ duvidosos :
         e \in DOMAIN x.lista /\ x.lista[e].g # SemRemoto => elo[e].g = x.lista[e].g
  BY <1>3, <1>6, <1>9
<1>16. ASSUME NEW e \in Eventos, NEW g \in Remotos, Certo(e), google[g].dono = e
       PROVE  /\ \A d \in Eventos \ {e} : PorLigar(x, d, g) => elo[e].g = g
              /\ g \in DOMAIN x.itens /\ x.itens[g].dono # e => elo[e].g = g
              /\ direcao # "sistema_google" => ViuOK(x, Elo(s, e).g, e, g)
  <2>1. direcao # "sistema_google" => ViuOK(sync[s], Elo(s, e).g, e, g)
    BY <1>16 DEF IInvGoogle, PuxadosOK, PassadoOK
  <2>2. direcao # "sistema_google" => ViuOK(x, Elo(s, e).g, e, g)
    BY <1>1, <1>6, <2>1 DEF ViuOK
  <2> QED  BY <1>6, <1>8, <2>2 DEF PorLigar
<1>17. SozinhoViu(s)'  BY <1>6, <1>7 DEF SozinhoViu
\* Alone, it creates what it saw nowhere.
<1>18. ASSUME x.junto = "nao", NEW e \in AEnviar(s), e \notin duvidosos, l[e].g = SemRemoto,
              NEW g \in Remotos, Fala(e, g)
       PROVE  FALSE
  <2>1. sync[s].junto = "nao" /\ e \in Eventos  BY <1>4, <1>6, <1>18
  <2>2. \A t \in Syncs \ {s} : ~FalaDe(sync[t], rasc[t], e, g) /\ DOMAIN rasc[t].elo = {}
                               /\ ~PorLigar(sync[t], e, g)
    BY <1>1, <2>1, SoEla
  <2>3. ~FalaDe(sync[s], rasc[s], e, g) /\ ~PorLigar(sync[s], e, g)
    BY <1>1, <1>2, <1>9 DEF FalaDe, PorLigar, PassoOK
  <2>4. google[g].dono = e
    <3>1. elo[e].g # g  BY <1>9, <1>18, NomesAgenda
    <3> QED  BY <1>18, <2>2, <2>3, <3>1 DEF Fala
  <2>5. CASE direcao = "sistema_google"
    <3>1. \/ elo[e].g = g
          \/ \E t \in Syncs : e \in DOMAIN rasc[t].elo \/ PorLigar(sync[t], e, g)
      BY <1>18, <2>1, <2>4, <2>5 DEF IInvGoogle, SemPull
    <3> QED  BY <1>9, <1>18, <2>2, <2>3, <3>1, NomesAgenda
  <2>6. CASE direcao # "sistema_google"
    <3>1. Certo(e)  BY <1>9, <1>18, <2>1 DEF Certo
    <3>2. ViuOK(sync[s], Elo(s, e).g, e, g)
      BY <2>4, <2>6, <2>1, <3>1 DEF IInvGoogle, PuxadosOK, PassadoOK
    <3>3. sync[s].token[g] > 0
      <4>1. SozinhoViu(s)  BY DEF IInvGoogle
      <4> QED  BY <1>1, <2>1, <2>4, <2>6, <4>1, NomesAgenda DEF SozinhoViu
    <3>4. Elo(s, e).g = SemRemoto  BY <1>9, <1>18 DEF Elo
    <3>5. DOMAIN sync[s].itens = {}  BY <1>6, <1>8
    <3> QED  BY <1>1, <3>2, <3>3, <3>4, <3>5 DEF ViuOK
  <2> QED  BY <2>5, <2>6
<1>19. \A g \in DOMAIN x.itens, e \in Eventos : x.itens[g].dono = e => evento[e].st # "livre"
  BY <1>8
<1>20. ACriar(s)'
  <2>1. \A e \in Eventos, g \in Remotos : Fala(e, g)' => Fala(e, g)
    <3>1. /\ elo' = elo /\ google' = google /\ rasc' = rasc
          /\ \A t \in Syncs : t # s => sync'[t] = sync[t]
      BY <1>1, <1>2, <1>7
    <3>2. \A e \in Eventos, g \in Remotos : FalaDe(x, rasc[s], e, g) => Fala(e, g)  BY <1>13
    <3> QED  BY ONLY <1>7, <3>1, <3>2 DEF Fala
  <2>2. duvidosos' = duvidosos  BY <1>1
  <2>3. \A e \in DOMAIN l : e \in AEnviar(s) /\ e \in Eventos  BY <1>3, <1>4
  <2>4. \A e \in AEnviar(s), g \in Remotos :
          x.junto = "nao" /\ e \notin duvidosos /\ l[e].g = SemRemoto => ~Fala(e, g)
    BY <1>18
  <2> QED  BY ONLY <1>6, <1>7, <2>1, <2>2, <2>3, <2>4 DEF ACriar
<1> QED
  BY ONLY IInvGoogle, <1>1, <1>6, <1>7, <1>10, <1>11, <1>12, <1>13, <1>14, <1>15, <1>16, <1>17,
     <1>19, <1>20, QuietoSegue

LEMMA SincronizarSegue ==
    ASSUME IInvGoogle, NEW s \in Syncs, Sincronizar(s)
    PROVE  IInvGoogle'
<1> USE DEF IInvGoogle
<1>1. /\ sync[s].passo = "livre"
      /\ UNCHANGED <<direcao, token, evento, elo, google, rasc, edicao, relogio, duvidosos>>
  BY DEF Sincronizar, tabelasAgenda
<1>2. /\ TipoGoogle /\ PassoOK(s) /\ RascunhoOK(s) /\ \A t \in Syncs : sync[t] \in SyncT
      /\ token \in [Remotos -> Nat] /\ relogio \in Nat
  BY DEF TipoGoogle, SyncsOK
<1> PICK calmo \in {"sim", "nao"} :
      calmo = IF Outros(s) = {} /\ \A r \in Edicoes : edicao[r] = EdicaoLivre THEN "sim" ELSE "nao"
  OBVIOUS
<1> PICK x : x = [SyncLivre EXCEPT
                    !.passo = IF direcao = "sistema_google" THEN "ler" ELSE "buscar",
                    !.inicio = relogio, !.token = token, !.calmo = calmo,
                    !.junto = IF Outros(s) = {} THEN "nao" ELSE "sim"]
  BY Zenon
<1>3. sync' = [t \in Syncs |->
                 IF t = s THEN x
                 ELSE IF sync[t].passo = "livre" THEN sync[t]
                 ELSE [sync[t] EXCEPT !.calmo = "nao", !.junto = "sim"]]
  BY DEF Sincronizar
<1>4. /\ x \in SyncT /\ x.passo = (IF direcao = "sistema_google" THEN "ler" ELSE "buscar")
      /\ x.inicio = relogio /\ x.token = token /\ DOMAIN x.itens = {} /\ DOMAIN x.lista = {}
      /\ x.g = SemRemoto /\ x.e = SemEvento /\ x.acao = "nada"
      /\ x.junto = IF Outros(s) = {} THEN "nao" ELSE "sim"
  <2>1. SyncLivre \in SyncT /\ DOMAIN SyncLivre.itens = {} /\ DOMAIN SyncLivre.lista = {}
    BY LivresTipo
  <2>2. SyncLivre.g = SemRemoto /\ SyncLivre.e = SemEvento /\ SyncLivre.acao = "nada"
    BY DEF SyncLivre
  <2> PICK z \in SyncT : z = SyncLivre  BY <2>1
  <2> PICK p \in {"ler", "buscar"} : p = IF direcao = "sistema_google" THEN "ler" ELSE "buscar"
    OBVIOUS
  <2> PICK j \in {"sim", "nao"} : j = IF Outros(s) = {} THEN "nao" ELSE "sim"
    OBVIOUS
  <2>3. x = [z EXCEPT !.passo = p, !.inicio = relogio, !.token = token, !.calmo = calmo, !.junto = j]
    OBVIOUS
  <2>4. x \in SyncT  BY ONLY <1>2, <2>3, z \in SyncT, p \in {"ler", "buscar"}, j \in {"sim", "nao"},
                           calmo \in {"sim", "nao"} DEF SyncT, PassosSync
  <2>5. /\ x.passo = p /\ x.inicio = relogio /\ x.token = token /\ x.itens = z.itens
        /\ x.lista = z.lista /\ x.g = z.g /\ x.e = z.e /\ x.acao = z.acao /\ x.junto = j
    BY ONLY <2>3, z \in SyncT DEF SyncT
  <2> QED  BY <2>1, <2>2, <2>4, <2>5
<1>5. ASSUME NEW t \in Syncs, t # s
      PROVE  /\ sync'[t] \in SyncT
             /\ sync'[t].passo = sync[t].passo /\ sync'[t].inicio = sync[t].inicio
             /\ sync'[t].token = sync[t].token /\ sync'[t].itens = sync[t].itens
             /\ sync'[t].g = sync[t].g /\ sync'[t].e = sync[t].e /\ sync'[t].acao = sync[t].acao
             /\ sync'[t].lista = sync[t].lista
             /\ sync[t].passo = "livre" => sync'[t] = sync[t]
             /\ sync[t].passo # "livre" => sync'[t].junto = "sim" /\ x.junto = "sim"
  <2>1. CASE sync[t].passo = "livre"  BY ONLY <1>2, <1>3, <1>5, <2>1
  <2>2. CASE sync[t].passo # "livre"
    <3>1. t \in Outros(s)  BY <1>5, <2>2 DEF Outros
    <3>2. sync'[t] = [sync[t] EXCEPT !.calmo = "nao", !.junto = "sim"]  BY ONLY <1>3, <1>5, <2>2
    <3>3. sync[t] \in SyncT /\ x.junto = "sim"  BY <1>2, <1>4, <3>1
    <3> QED  BY ONLY <2>2, <3>2, <3>3 DEF SyncT
  <2> QED  BY <2>1, <2>2
<1>6. /\ sync'[s] = x /\ sync' \in [Syncs -> SyncT]
      /\ rasc[s] = SemRascunho /\ DOMAIN rasc[s].elo = {} /\ DOMAIN rasc[s].ev = {}
  <2>1. sync'[s] = x  BY ONLY <1>3
  <2>2. DOMAIN sync' = Syncs /\ sync' = [t \in Syncs |-> sync'[t]]  BY ONLY <1>3
  <2>3. rasc[s] = SemRascunho  BY <1>1, <1>2 DEF PassoOK
  <2> QED  BY ONLY <1>4, <1>5, <2>1, <2>2, <2>3, LivresTipo
<1>7. TipoGoogle'  BY <1>1, <1>2, <1>6 DEF TipoGoogle
<1>8. \A t \in Syncs : \A e, g :
        /\ FalaDe(sync'[t], rasc[t], e, g) => FalaDe(sync[t], rasc[t], e, g)
        /\ PorLigar(sync'[t], e, g) => PorLigar(sync[t], e, g)
        /\ t # s /\ PorLigar(sync[t], e, g) => PorLigar(sync'[t], e, g)
  <2> SUFFICES ASSUME NEW t \in Syncs, NEW e, NEW g
               PROVE  /\ FalaDe(sync'[t], rasc[t], e, g) => FalaDe(sync[t], rasc[t], e, g)
                      /\ PorLigar(sync'[t], e, g) => PorLigar(sync[t], e, g)
                      /\ t # s /\ PorLigar(sync[t], e, g) => PorLigar(sync'[t], e, g)
    OBVIOUS
  <2>1. CASE t = s  BY <1>4, <1>6, <2>1 DEF FalaDe, PorLigar
  <2>2. CASE t # s  BY <1>5, <2>2 DEF FalaDe, PorLigar
  <2> QED  BY <2>1, <2>2
<1>9. \A e \in Eventos, g \in Remotos : Fala(e, g)' => Fala(e, g)
  <2>1. elo' = elo /\ google' = google /\ rasc' = rasc  BY <1>1
  <2> QED  BY <1>8, <2>1 DEF Fala
<1>10. SyncsOK'
  <2>1. ASSUME NEW t \in Syncs PROVE PassoOK(t)' /\ RascunhoOK(t)' /\ ListaOK(t)' /\ NovoOK(t)'
    <3>1. PassoOK(t) /\ RascunhoOK(t) /\ ListaOK(t) /\ NovoOK(t)  BY DEF SyncsOK
    <3>2. CASE t = s
      <4>1. evento' = evento /\ rasc' = rasc /\ direcao' = direcao /\ relogio' = relogio
        BY <1>1
      <4>2. PassoOK(s)'  BY ONLY <1>4, <1>6, <4>1 DEF PassoOK
      <4>3. RascunhoOK(s)'
        <5>1. sync'[s].inicio <= relogio'  BY <1>2, <1>4, <1>6, <4>1
        <5> QED  BY ONLY <1>6, <4>1, <5>1 DEF RascunhoOK
      <4>4. ListaOK(s)' /\ NovoOK(s)'  BY ONLY <1>4, <1>6 DEF ListaOK, NovoOK
      <4> QED  BY <3>2, <4>2, <4>3, <4>4
    <3>3. CASE t # s
      <4>1. evento' = evento /\ elo' = elo /\ rasc' = rasc /\ direcao' = direcao /\ relogio' = relogio
        BY <1>1
      <4>2. PassoOK(t)'  BY <1>5, <3>1, <3>3, <4>1 DEF PassoOK
      <4>3. RascunhoOK(t)' /\ ListaOK(t)'  BY <1>5, <3>1, <3>3, <4>1 DEF RascunhoOK, ListaOK
      <4>4. NovoOK(t)'
        <5>1. \A u \in Syncs : sync'[u].e = sync[u].e \/ (u = s /\ sync'[u].e = SemEvento)
          BY <1>4, <1>5, <1>6
        <5>2. sync'[t].passo = sync[t].passo /\ sync'[t].acao = sync[t].acao /\ sync'[t].e = sync[t].e
          BY <1>5, <3>3
        <5>3. sync[t].passo = "aplicar" /\ sync[t].acao = "inserir" => sync[t].e \in Eventos
          BY <3>1 DEF PassoOK
        <5> QED  BY <3>1, <4>1, <5>1, <5>2, <5>3, NomesAgenda DEF NovoOK
      <4> QED  BY <4>2, <4>3, <4>4
    <3> QED  BY <3>2, <3>3
  <2>2. ASSUME NEW t \in Syncs, NEW u \in Syncs, t # u PROVE Separados(t, u)'
    <3>1. Separados(t, u) /\ Separados(u, t) /\ rasc' = rasc  BY <1>1, <2>2 DEF SyncsOK
    <3>2. sync'[t].passo # "livre" /\ sync'[u].passo # "livre" => sync'[t].junto = "sim"
      <4>1. CASE t = s  BY ONLY <1>5, <1>6, <2>2, <4>1
      <4>2. CASE t # s  BY <1>5, <4>2
      <4> QED  BY <4>1, <4>2
    <3> QED  BY <3>1, <3>2 DEF Separados
  <2> QED  BY <2>1, <2>2 DEF SyncsOK
<1>11. \A t \in Syncs : /\ DOMAIN sync'[t].itens \subseteq DOMAIN sync[t].itens
                        /\ \A g \in DOMAIN sync'[t].itens : sync'[t].itens[g] = sync[t].itens[g]
                        /\ DOMAIN sync'[t].lista \subseteq DOMAIN sync[t].lista
                        /\ \A e \in DOMAIN sync'[t].lista : sync'[t].lista[e] = sync[t].lista[e]
                        /\ sync'[t].token = sync[t].token \/ sync'[t].token = token
  BY <1>4, <1>5, <1>6
<1>12. ASSUME NEW g \in Remotos PROVE Intacto(g)' /\ VersaoOK(g)'
  <2>1. Intacto(g) /\ VersaoOK(g) /\ google' = google /\ token' = token  BY <1>1
  <2> QED  BY <1>9, <1>11, <2>1 DEF Intacto, VersaoOK
<1>13. ASSUME NEW e \in Eventos PROVE NaoNascido(e)'
  <2>1. NaoNascido(e) /\ google' = google /\ evento' = evento /\ elo' = elo  BY <1>1
  <2> QED  BY <1>11, <2>1 DEF NaoNascido
<1>14. UmId' /\ Unicos' /\ Listados'
  <2>1. elo' = elo /\ rasc' = rasc /\ duvidosos' = duvidosos  BY <1>1
  <2>2. UmId'  BY <1>9, <2>1 DEF UmId
  <2>3. Unicos'  BY <2>1 DEF Unicos, Elo
  <2>4. Listados'
    <3>1. Listados  OBVIOUS
    <3> QED  BY ONLY <1>11, <2>1, <3>1 DEF Listados
  <2> QED  BY <2>2, <2>3, <2>4
<1>15. CopiasOK'
  <2> SUFFICES ASSUME NEW e \in Eventos, NEW g \in Remotos, Certo(e), google[g].dono = e
               PROVE  CopiaDe(e, g)'
    BY <1>1 DEF CopiasOK, Certo
  <2>1. CopiaDe(e, g) /\ elo' = elo /\ rasc' = rasc  BY <1>1 DEF CopiasOK
  <2> QED  BY ONLY <1>8, <1>11, <2>1 DEF CopiaDe
<1>16. PuxadosOK'
  <2> SUFFICES ASSUME direcao # "sistema_google", NEW e \in Eventos, NEW g \in Remotos, Certo(e),
                      google[g].dono = e
               PROVE  PassadoOK(e, g)'
    BY <1>1 DEF PuxadosOK, Certo
  <2>1. /\ PassadoOK(e, g) /\ elo' = elo /\ rasc' = rasc /\ token' = token /\ google' = google
        /\ \A t \in Syncs : Elo(t, e)' = Elo(t, e)
    BY <1>1 DEF PuxadosOK, Elo
  <2>2. ASSUME NEW t \in Syncs PROVE ViuOK(sync[t], Elo(t, e).g, e, g)'
    <3>1. CASE t = s  BY <1>4, <1>6, <2>1, <3>1 DEF ViuOK, PassadoOK
    <3>2. CASE t # s  BY <1>5, <2>1, <3>2 DEF ViuOK, PassadoOK
    <3> QED  BY <3>1, <3>2
  <2> QED  BY <2>1, <2>2 DEF PassadoOK
<1>17. SemPull'
  <2>1. /\ SemPull /\ elo' = elo /\ rasc' = rasc /\ google' = google /\ direcao' = direcao
        /\ duvidosos' = duvidosos
    BY <1>1
  <2>2. \A e, g : ~PorLigar(sync[s], e, g)  BY <1>1 DEF PorLigar
  <2> QED  BY ONLY <1>8, <2>1, <2>2 DEF SemPull
<1>18. ASSUME NEW t \in Syncs PROVE SozinhoViu(t)' /\ ACriar(t)'
  <2>1. CASE t = s  BY ONLY <1>1, <1>4, <1>6, <2>1 DEF SozinhoViu, ACriar
  <2>2. CASE t # s  BY <1>5, <2>2 DEF SozinhoViu, ACriar
  <2> QED  BY ONLY <2>1, <2>2
<1> QED  BY ONLY <1>7, <1>10, <1>12, <1>13, <1>14, <1>15, <1>16, <1>17, <1>18

(***************************************************************************)
(* A synchronization writes the link of an event.                          *)
(***************************************************************************)
Ligacao(s, x, r, e0, l) ==
    /\ sync' = [sync EXCEPT ![s] = x] /\ rasc' = [rasc EXCEPT ![s] = r]
    /\ UNCHANGED <<direcao, token, evento, elo, google, edicao, relogio, duvidosos>>
    /\ sync[s].passo \in {"aplicar", "anotar"} /\ sync[s].acao # "nada" /\ sync[s].e = e0
    /\ x.passo = IF sync[s].passo = "aplicar" THEN "importar" ELSE "enviar"
    /\ x.junto = sync[s].junto /\ x.token = sync[s].token /\ x.e = SemEvento
    /\ DOMAIN x.itens = DOMAIN sync[s].itens \ {sync[s].g}
    /\ \A h \in DOMAIN x.itens : x.itens[h] = sync[s].itens[h]
    /\ DOMAIN x.lista = DOMAIN sync[s].lista \ {e0}
    /\ \A d \in DOMAIN x.lista : x.lista[d] = sync[s].lista[d]
    /\ DOMAIN r.elo = DOMAIN rasc[s].elo \cup {e0} /\ r.elo[e0] = l /\ l.g # SemRemoto
    /\ \A d \in DOMAIN rasc[s].elo : d # e0 => r.elo[d] = rasc[s].elo[d]
    /\ \A d \in DOMAIN r.ev : d \in DOMAIN rasc[s].ev \/ d = e0
    /\ PorLigar(sync[s], e0, l.g) \/ Elo(s, e0).g = l.g
    /\ \A h \in Remotos : PorLigar(sync[s], e0, h) => h = l.g
    /\ \A d \in Eventos : d # e0 => Elo(s, d).g # l.g
    /\ \A t \in Syncs : t # s => /\ e0 \notin DOMAIN rasc[t].elo
                                /\ \A d \in DOMAIN rasc[t].elo : rasc[t].elo[d].g # l.g
    /\ PassoOK(s)' /\ RascunhoOK(s)'

LEMMA LigarSegue ==
    ASSUME IInvGoogle, NEW s \in Syncs, NEW x \in SyncT, NEW r \in RascunhoT, NEW e0 \in Eventos,
           NEW l \in EloT, Ligacao(s, x, r, e0, l)
    PROVE  IInvGoogle'
<1> USE DEF Ligacao
<1> USE DEF IInvGoogle
<1>1. /\ sync \in [Syncs -> SyncT] /\ sync' \in [Syncs -> SyncT] /\ rasc \in [Syncs -> RascunhoT]
      /\ rasc' \in [Syncs -> RascunhoT] /\ sync'[s] = x /\ rasc'[s] = r
      /\ \A t \in Syncs : t # s => sync'[t] = sync[t] /\ rasc'[t] = rasc[t]
  BY DEF TipoGoogle
<1>2. /\ direcao' = direcao /\ token' = token /\ evento' = evento /\ elo' = elo /\ google' = google
      /\ relogio' = relogio /\ duvidosos' = duvidosos
  OBVIOUS
<1>3. TipoGoogle'  BY <1>1 DEF TipoGoogle
<1>4. /\ TipoGoogle /\ DOMAIN rasc[s].elo \subseteq Eventos /\ l.g \in Remotos
      /\ DOMAIN sync[s].lista \subseteq Eventos
  BY SyncTem DEF EloT
<1>5. Fala(e0, l.g)  BY <1>4 DEF Fala, FalaDe, Elo
<1>6. \A e, g : ~PorLigar(x, e, g)  BY DEF PorLigar
<1>7. ASSUME NEW e \in Eventos, NEW g \in Remotos, Fala(e, g)' PROVE Fala(e, g)
  <2>1. \/ google[g].dono = e \/ elo[e].g = g
        \/ \E t \in Syncs : FalaDe(sync'[t], rasc'[t], e, g)
    BY <1>2, <1>7 DEF Fala
  <2>2. CASE FalaDe(x, r, e, g)
    BY <1>5, <1>6, <2>2 DEF FalaDe, Fala
  <2> QED  BY <1>1, <2>1, <2>2 DEF Fala
<1>8. SyncsOK'
  <2>1. ListaOK(s)' /\ NovoOK(s)'
    <3>1. ListaOK(s)  BY DEF SyncsOK
    <3> QED  BY <1>1, <1>2, <3>1 DEF ListaOK, NovoOK
  <2>2. ASSUME NEW t \in Syncs, t # s PROVE PassoOK(t)' /\ RascunhoOK(t)' /\ ListaOK(t)' /\ NovoOK(t)'
    <3>1. PassoOK(t) /\ RascunhoOK(t) /\ ListaOK(t) /\ NovoOK(t)  BY DEF SyncsOK
    <3>2. PassoOK(t)' /\ RascunhoOK(t)' /\ ListaOK(t)'
      BY ONLY <1>1, <1>2, <2>2, <3>1 DEF PassoOK, RascunhoOK, ListaOK
    <3>3. NovoOK(t)'
      <4>1. sync[t].passo = "aplicar" /\ sync[t].acao = "inserir" =>
              /\ evento[sync[t].e].st = "livre" /\ sync[t].e # e0 /\ sync[t].e # SemEvento
              /\ \A u \in Syncs : /\ sync[t].e \notin DOMAIN rasc[u].ev
                                  /\ u # t => sync[u].e # sync[t].e
        BY <2>2, <3>1, NomesAgenda DEF NovoOK, PassoOK
      <4>2. \A d \in DOMAIN r.ev : d \in DOMAIN rasc[s].ev \/ d = e0  OBVIOUS
      <4>3. x.e = SemEvento  OBVIOUS
      <4> QED  BY ONLY <1>1, <1>2, <2>2, <4>1, <4>2, <4>3 DEF NovoOK
    <3> QED  BY <3>2, <3>3
  <2>3. ASSUME NEW t \in Syncs, t # s PROVE Separados(s, t)' /\ Separados(t, s)'
    <3>1. Separados(s, t) /\ Separados(t, s)  BY <2>3 DEF SyncsOK
    <3>2. /\ e0 \notin DOMAIN rasc[t].elo
          /\ \A d \in DOMAIN rasc[t].elo : rasc[t].elo[d].g # l.g
      BY <2>3
    <3>3. DOMAIN r.elo \cap DOMAIN rasc[t].elo = {}  BY <3>1, <3>2 DEF Separados
    <3>4. \A e \in DOMAIN r.elo, d \in DOMAIN rasc[t].elo : r.elo[e].g # rasc[t].elo[d].g
      <4> SUFFICES ASSUME NEW e \in DOMAIN r.elo, NEW d \in DOMAIN rasc[t].elo
                   PROVE  r.elo[e].g # rasc[t].elo[d].g
        OBVIOUS
      <4>1. CASE e = e0  BY <3>2, <4>1
      <4>2. CASE e # e0  BY <3>1, <4>2 DEF Separados
      <4> QED  BY <4>1, <4>2
    <3>5. x.passo # "livre" /\ sync[s].passo # "livre" /\ x.junto = sync[s].junto  OBVIOUS
    <3> QED  BY ONLY <1>1, <2>3, <3>1, <3>3, <3>4, <3>5 DEF Separados
  <2>4. ASSUME NEW t \in Syncs, NEW u \in Syncs, t # u, t # s, u # s PROVE Separados(t, u)'
    <3>1. Separados(t, u)  BY <2>4 DEF SyncsOK
    <3> QED  BY ONLY <1>1, <2>4, <3>1 DEF Separados
  <2> QED  BY <2>1, <2>2, <2>3, <2>4 DEF SyncsOK
<1>9. ASSUME NEW g \in Remotos PROVE Intacto(g)' /\ VersaoOK(g)'
  <2>1. Intacto(g) /\ VersaoOK(g)  OBVIOUS
  <2>2. Intacto(g)'
    <3> SUFFICES ASSUME google[g].st = "livre"
                 PROVE  /\ google[g].ver = 0 /\ token[g] = 0 /\ \A t \in Syncs : sync'[t].token[g] = 0
                        /\ \A e \in Eventos : ~Fala(e, g)'
                        /\ \A t \in Syncs : g \notin DOMAIN sync'[t].itens
      BY <1>2 DEF Intacto
    <3> QED  BY <1>1, <1>7, <2>1 DEF Intacto
  <2> QED  BY <1>2, <2>1, <2>2 DEF VersaoOK
<1>10. ASSUME NEW e \in Eventos PROVE NaoNascido(e)'
  <2>1. NaoNascido(e)  OBVIOUS
  <2> QED  BY <1>1, <1>2, <2>1 DEF NaoNascido
<1>11. UmId'
  <2>1. UmId  OBVIOUS
  <2> QED  BY ONLY <1>2, <1>7, <2>1 DEF UmId
<1>12. Unicos'
  <2>1. Unicos  OBVIOUS
  <2>2. \A d \in Eventos : d # e0 => Elo(s, d)' = Elo(s, d) /\ Elo(s, d).g # l.g
    BY <1>1, <1>2 DEF Elo
  <2>3. Elo(s, e0)' = l  BY <1>1 DEF Elo
  <2>4. \A t \in Syncs : t # s => \A d \in Eventos : Elo(t, d)' = Elo(t, d)  BY <1>1, <1>2 DEF Elo
  <2>5. ASSUME NEW e \in DOMAIN r.elo, NEW d \in Eventos, e # d PROVE r.elo[e].g # Elo(s, d)'.g
    <3>1. CASE e = e0  BY <2>2, <2>5, <3>1
    <3>2. CASE e # e0
      <4>1. e \in DOMAIN rasc[s].elo /\ r.elo[e] = rasc[s].elo[e] /\ e \in Eventos  BY <1>4, <3>2
      <4>2. rasc[s].elo[e].g # Elo(s, d).g  BY <2>1, <2>5, <4>1 DEF Unicos
      <4>3. rasc[s].elo[e].g = Elo(s, e).g  BY <4>1 DEF Elo
      <4>4. rasc[s].elo[e].g # l.g  BY <2>2, <3>2, <4>1, <4>3
      <4> QED  BY <2>2, <2>3, <4>1, <4>2, <4>4
    <3> QED  BY <3>1, <3>2
  <2>6. ASSUME NEW t \in Syncs, NEW e \in DOMAIN rasc'[t].elo, NEW d \in Eventos, e # d
        PROVE  rasc'[t].elo[e].g # Elo(t, d)'.g
    <3>1. CASE t = s
      <4>1. e \in DOMAIN r.elo /\ rasc'[t].elo[e] = r.elo[e]  BY <1>1, <2>6, <3>1
      <4>2. r.elo[e].g # Elo(s, d)'.g  BY <2>5, <2>6, <4>1
      <4> QED  BY <3>1, <4>1, <4>2
    <3>2. CASE t # s
      <4>1. rasc'[t] = rasc[t] /\ Elo(t, d)' = Elo(t, d)  BY <1>1, <2>4, <3>2
      <4> QED  BY <2>1, <2>6, <4>1 DEF Unicos
    <3> QED  BY <3>1, <3>2
  <2>7. \A e, d \in Eventos : e # d /\ elo'[e].g # SemRemoto => elo'[e].g # elo'[d].g
    BY <1>2, <2>1 DEF Unicos
  <2> QED  BY <2>6, <2>7 DEF Unicos
<1>13. Listados'
  <2>1. Listados  OBVIOUS
  <2>2. /\ DOMAIN x.lista \subseteq DOMAIN sync[s].lista
        /\ \A d \in DOMAIN x.lista : x.lista[d] = sync[s].lista[d]
    OBVIOUS
  <2> QED  BY ONLY <1>1, <1>2, <2>1, <2>2 DEF Listados
\* The link of an event with a copy is the one of the copy.
<1>14. ASSUME NEW e \in Eventos, NEW g \in Remotos, Certo(e), google[g].dono = e
       PROVE  e = e0 \/ g # l.g
  <2>1. CopiaDe(e, g)  BY <1>14 DEF CopiasOK
  <2>2. SUFFICES ASSUME e # e0, g = l.g PROVE FALSE
    OBVIOUS
  <2>3. CASE Elo(s, e0).g = l.g  BY <2>1, <2>2, <2>3 DEF CopiaDe, Elo
  <2>4. CASE PorLigar(sync[s], e0, l.g)
    <3>1. elo[e].g = g  BY <2>1, <2>2, <2>4 DEF CopiaDe
    <3>2. e \in DOMAIN rasc[s].elo /\ rasc[s].elo[e].g # g  BY <2>2, <3>1 DEF Elo
    <3>3. rasc[s].elo[e].g \in Remotos
      <4>1. RascunhoOK(s) /\ rasc[s].elo[e] \in EloT  BY <1>4, <3>2, SyncTem DEF SyncsOK
      <4> QED  BY <3>2, <4>1 DEF RascunhoOK, EloT
    <3>4. Fala(e, g) /\ Fala(e, rasc[s].elo[e].g)  BY <3>1, <3>2 DEF Fala, FalaDe
    <3> QED  BY <1>14, <3>2, <3>3, <3>4 DEF UmId, Certo
  <2> QED  BY <2>3, <2>4
<1>15. CopiasOK'
  <2> SUFFICES ASSUME NEW e \in Eventos, NEW g \in Remotos, Certo(e), google[g].dono = e
               PROVE  CopiaDe(e, g)'
    BY <1>2 DEF CopiasOK, Certo
  <2>1. CopiaDe(e, g)  BY DEF CopiasOK
  <2>2. \A t \in Syncs, d \in Eventos \ {e} : d \in DOMAIN rasc'[t].elo => rasc'[t].elo[d].g # g
    <3> SUFFICES ASSUME NEW t \in Syncs, NEW d \in Eventos \ {e}, d \in DOMAIN rasc'[t].elo
                 PROVE  rasc'[t].elo[d].g # g
      OBVIOUS
    <3>1. CASE t = s /\ d = e0  BY <1>1, <1>14, <3>1
    <3>2. CASE ~(t = s /\ d = e0)
      <4>1. d \in DOMAIN rasc[t].elo /\ rasc'[t].elo[d] = rasc[t].elo[d]  BY <1>1, <3>2
      <4> QED  BY <2>1, <4>1 DEF CopiaDe
    <3> QED  BY <3>1, <3>2
  <2>3. \A t \in Syncs, d \in Eventos \ {e} : PorLigar(sync'[t], d, g) => elo'[e].g = g
    BY <1>1, <1>2, <1>6, <2>1 DEF CopiaDe
  <2>4. \A t \in Syncs : g \in DOMAIN sync'[t].itens /\ sync'[t].itens[g].dono # e => elo'[e].g = g
    BY <1>1, <1>2, <2>1 DEF CopiaDe
  <2> QED  BY <1>2, <2>1, <2>2, <2>3, <2>4 DEF CopiaDe
<1>16. PuxadosOK'
  <2> SUFFICES ASSUME direcao # "sistema_google", NEW e \in Eventos, NEW g \in Remotos, Certo(e),
                      google[g].dono = e
               PROVE  PassadoOK(e, g)'
    BY <1>2 DEF PuxadosOK, Certo
  <2>1. PassadoOK(e, g)  BY DEF PuxadosOK
  <2>2. \A t \in Syncs : t # s => Elo(t, e)' = Elo(t, e)  BY <1>1, <1>2 DEF Elo
  <2>3. Elo(s, e).g # SemRemoto => Elo(s, e)'.g # SemRemoto  BY <1>1, <1>2 DEF Elo
  <2>4. e = e0 => Elo(s, e)'.g # SemRemoto  BY <1>1 DEF Elo
  <2>5. ViuOK(sync[s], Elo(s, e).g, e, g)  BY <2>1 DEF PassadoOK
  <2>6. sync[s].passo = "aplicar" /\ sync[s].g = g /\ e # e0 => Elo(s, e).g # SemRemoto
    <3>1. SUFFICES ASSUME sync[s].passo = "aplicar", sync[s].g = g, e # e0
                   PROVE  Elo(s, e).g # SemRemoto
      OBVIOUS
    <3>2. PorLigar(sync[s], e0, g)  BY <3>1 DEF PorLigar
    <3> QED  BY <1>14, <3>1, <3>2
  <2>7. sync[s].passo = "anotar" => DOMAIN sync[s].itens = {}  BY DEF SyncsOK, PassoOK
  <2>8. ViuOK(x, Elo(s, e)'.g, e, g)  BY <2>3, <2>4, <2>5, <2>6, <2>7 DEF ViuOK
  <2>9. \A t \in Syncs : ViuOK(sync[t], Elo(t, e).g, e, g)'
    <3> SUFFICES ASSUME NEW t \in Syncs PROVE ViuOK(sync[t], Elo(t, e).g, e, g)'
      OBVIOUS
    <3>1. CASE t = s  BY <1>1, <1>2, <2>8, <3>1 DEF ViuOK
    <3>2. CASE t # s
      <4>1. ViuOK(sync[t], Elo(t, e).g, e, g)  BY <2>1 DEF PassadoOK
      <4> QED  BY <1>1, <1>2, <2>2, <3>2, <4>1 DEF ViuOK
    <3> QED  BY <3>1, <3>2
  <2> QED  BY <1>2, <2>1, <2>9 DEF PassadoOK
<1>17. SemPull'
  <2> SUFFICES ASSUME direcao = "sistema_google", NEW e \in Eventos, e \notin duvidosos,
                      NEW g \in Remotos, google[g].dono = e
               PROVE  elo[e].g = g \/ \E t \in Syncs : e \in DOMAIN rasc'[t].elo \/ PorLigar(sync'[t], e, g)
    BY <1>2 DEF SemPull
  <2>1. \/ elo[e].g = g
        \/ \E t \in Syncs : e \in DOMAIN rasc[t].elo \/ PorLigar(sync[t], e, g)
    BY DEF SemPull
  <2>2. CASE elo[e].g = g  BY <2>2
  <2>3. ASSUME NEW t \in Syncs, e \in DOMAIN rasc[t].elo \/ PorLigar(sync[t], e, g)
        PROVE  \E u \in Syncs : e \in DOMAIN rasc'[u].elo \/ PorLigar(sync'[u], e, g)
    <3>1. CASE t # s  BY <1>1, <2>3, <3>1
    <3>2. CASE t = s
      <4>1. e \in DOMAIN rasc'[s].elo  BY <1>1, <2>3, <3>2 DEF PorLigar
      <4> QED  BY <4>1
    <3> QED  BY <3>1, <3>2
  <2> QED  BY <2>1, <2>2, <2>3
<1>18. ASSUME NEW t \in Syncs PROVE SozinhoViu(t)' /\ ACriar(t)'
  <2>1. SozinhoViu(t) /\ ACriar(t)  OBVIOUS
  <2>2. CASE t # s
    <3>1. SozinhoViu(t)'  BY <1>1, <1>2, <2>1, <2>2 DEF SozinhoViu
    <3>2. sync[t].passo = "livre" \/ sync[t].junto = "sim"  BY <2>2 DEF SyncsOK, Separados
    <3>3. ACriar(t)'  BY <1>1, <2>2, <3>2 DEF ACriar
    <3> QED  BY <3>1, <3>3
  <2>3. CASE t = s
    <3>1. SozinhoViu(s)'  BY <1>1, <1>2, <2>1, <2>3 DEF SozinhoViu
    <3>2. /\ x.passo = "enviar" => sync[s].passo = "anotar"
          /\ x.passo # "anotar" /\ x.junto = sync[s].junto /\ sync[s].e = e0
          /\ DOMAIN x.lista = DOMAIN sync[s].lista \ {e0}
          /\ \A d \in DOMAIN x.lista : x.lista[d] = sync[s].lista[d]
      OBVIOUS
    <3>3. ASSUME x.junto = "nao", x.passo \in {"enviar", "anotar"}, NEW e \in DOMAIN x.lista,
                 e \notin duvidosos, x.lista[e].g = SemRemoto, NEW g \in Remotos
          PROVE  ~Fala(e, g)'
      <4>1. e \in DOMAIN sync[s].lista /\ e # sync[s].e /\ e \in Eventos  BY <1>4, <3>2, <3>3
      <4>2. ~Fala(e, g)  BY <2>1, <2>3, <3>2, <3>3, <4>1 DEF ACriar
      <4> QED  BY <1>7, <4>1, <4>2
    <3>4. ACriar(s)'  BY ONLY <1>1, <1>2, <3>3 DEF ACriar
    <3> QED  BY <2>3, <3>1, <3>4
  <2> QED  BY <2>2, <2>3
<1> QED  BY <1>3, <1>8, <1>9, <1>10, <1>11, <1>12, <1>13, <1>15, <1>16, <1>17, <1>18

\* Whoever is stopped has written nothing.
LEMMA ParadaVazia ==
    ASSUME IInvGoogle, NEW s \in Syncs, NEW t \in Syncs \ Outros(s), t # s
    PROVE  DOMAIN rasc[t].elo = {}
<1>1. sync[t].passo = "livre"  BY DEF Outros
<1>2. PassoOK(t)  BY DEF IInvGoogle, SyncsOK
<1>3. rasc[t] = SemRascunho  BY <1>1, <1>2 DEF PassoOK
<1> QED  BY <1>3, LivresTipo

LEMMA AplicarSegue ==
    ASSUME IInvGoogle, NEW s \in Syncs, Aplicar(s)
    PROVE  IInvGoogle'
<1> PICK e : e = sync[s].e  BY Zenon
<1> PICK g : g = sync[s].g  BY Zenon
<1> PICK item : item = sync[s].itens[g]  BY Zenon
<1> PICK novo : novo = Importado(s, e, item)  BY Zenon
<1> PICK l : l = [g |-> g, ver |-> item.ver, sist |-> relogio, st |-> "sincronizado"]  BY Zenon
<1>1. /\ sync[s].passo = "aplicar" /\ sync[s].acao # "nada" /\ e = sync[s].e /\ g = sync[s].g
      /\ ~EloPreso(s, e, g) /\ ~Repetido(s, e, g)
      /\ rasc' = [rasc EXCEPT ![s].ev = Por(@, e, novo), ![s].elo = Por(@, e, l)]
      /\ sync' = [sync EXCEPT ![s] = ItemFeito(s)]
      /\ UNCHANGED <<direcao, token, evento, elo, google, edicao, relogio, duvidosos>>
  BY DEF Aplicar, Seguir, tabelasAgenda, fixoAgenda, historiaAgenda
<1>2. /\ TipoGoogle /\ sync[s] \in SyncT /\ rasc \in [Syncs -> RascunhoT] /\ rasc[s] \in RascunhoT
      /\ sync \in [Syncs -> SyncT] /\ relogio \in Nat
      /\ PassoOK(s) /\ RascunhoOK(s) /\ ListaOK(s) /\ NovoOK(s)
  BY DEF IInvGoogle, TipoGoogle, SyncsOK
<1>3. /\ e \in Eventos /\ g \in DOMAIN sync[s].itens /\ g \in Remotos /\ item \in RemotoT
      /\ sync[s].acao \in {"inserir", "cancelar", "atualizar"} /\ DOMAIN sync[s].lista = {}
      /\ direcao # "sistema_google"
  BY <1>1, <1>2, SyncTem DEF PassoOK
<1>4. l \in EloT /\ l.g = g /\ l.g # SemRemoto /\ l.sist = relogio
  BY <1>2, <1>3, NomesAgenda DEF EloT, RemotoT
<1>5. /\ novo \in EventoT /\ novo.mod = sync[s].inicio /\ novo.mod <= relogio
      /\ novo.st # "livre" /\ (novo.st = "excluido" <=> evento[e].st = "excluido")
  <2>1. Ev(s, e) \in EventoT /\ sync[s].inicio \in Nat /\ sync[s].inicio <= relogio
    BY <1>2, <1>3, EvTem DEF SyncT, RascunhoOK
  <2>2. Ev(s, e).st = "excluido" <=> evento[e].st = "excluido"  BY <1>2 DEF Ev, RascunhoOK
  <2>3. sync[s].acao = "inserir" => evento[e].st = "livre"  BY <1>1, <1>2 DEF NovoOK
  <2>4. sync[s].acao # "inserir" => Ev(s, e).st # "livre"
    BY <1>1, <1>2, <1>3 DEF PassoOK, RascunhoOK, Ev
  <2>5. novo.mod = sync[s].inicio  BY DEF Importado
  <2>6. novo.st = CASE sync[s].acao = "inserir" -> "vivo"
                    [] sync[s].acao = "cancelar" /\ Ev(s, e).st # "excluido" -> "cancelado"
                    [] OTHER -> Ev(s, e).st
    BY DEF Importado
  <2>7. novo.st # "livre" /\ (novo.st = "excluido" <=> evento[e].st = "excluido")
    BY <1>3, <2>2, <2>3, <2>4, <2>6
  <2>8. novo \in EventoT
    <3>1. novo.st \in {"vivo", "cancelado", "excluido", "livre"}  BY <1>3, <2>1, <2>6 DEF EventoT
    <3>2. item.cont \in Nat /\ Ev(s, e).cont \in Nat  BY <1>3, <2>1 DEF RemotoT, EventoT
    <3> QED  BY <2>1, <3>1, <3>2 DEF Importado, EventoT
  <2> QED  BY <2>1, <2>5, <2>7, <2>8
<1>6. rasc[s].ev \in Parciais(Eventos, EventoT) /\ rasc[s].elo \in Parciais(Eventos, EloT)
  BY ONLY <1>2 DEF RascunhoT
<1> PICK ev1 \in Parciais(Eventos, EventoT) : ev1 = rasc[s].ev  BY Zenon, <1>6
<1> PICK elo1 \in Parciais(Eventos, EloT) : elo1 = rasc[s].elo  BY Zenon, <1>6
<1> PICK ev2 : ev2 = Por(ev1, e, novo)  BY Zenon
<1> PICK elo2 : elo2 = Por(elo1, e, l)  BY Zenon
<1>7. /\ ev2 \in Parciais(Eventos, EventoT) /\ DOMAIN ev2 = DOMAIN ev1 \cup {e}
      /\ ev2[e] = novo /\ \A d \in DOMAIN ev1 : d # e => ev2[d] = ev1[d]
  <2>1. ev2 \in Parciais(Eventos, EventoT)  BY Zenon, <1>3, <1>5, PorParcial
  <2> QED  BY ONLY <2>1, ev2 = Por(ev1, e, novo) DEF Por
<1>8. /\ elo2 \in Parciais(Eventos, EloT) /\ DOMAIN elo2 = DOMAIN elo1 \cup {e}
      /\ elo2[e] = l /\ \A d \in DOMAIN elo1 : d # e => elo2[d] = elo1[d]
  <2>1. elo2 \in Parciais(Eventos, EloT)  BY Zenon, <1>3, <1>4, PorParcial
  <2> QED  BY ONLY <2>1, elo2 = Por(elo1, e, l) DEF Por
<1> PICK r : r = [rasc[s] EXCEPT !.ev = ev2, !.elo = elo2]  BY Zenon
<1>9. /\ r \in RascunhoT /\ r.ev = ev2 /\ r.elo = elo2 /\ ev1 = rasc[s].ev /\ elo1 = rasc[s].elo
  <2>1. rasc[s] \in RascunhoT /\ ev2 \in Parciais(Eventos, EventoT) /\ elo2 \in Parciais(Eventos, EloT)
    BY Zenon, <1>2, <1>7, <1>8
  <2>2. r = [ev |-> ev2, elo |-> elo2]
    BY ONLY <2>1, r = [rasc[s] EXCEPT !.ev = ev2, !.elo = elo2] DEF RascunhoT
  <2>3. r \in RascunhoT /\ r.ev = ev2 /\ r.elo = elo2  BY ONLY <2>1, <2>2 DEF RascunhoT
  <2>4. ev1 = rasc[s].ev /\ elo1 = rasc[s].elo  BY Zenon
  <2> QED  BY Zenon, <2>3, <2>4
<1>10. rasc' = [rasc EXCEPT ![s] = r] /\ rasc'[s] = r
  <2>1. rasc' = [rasc EXCEPT ![s] = r]  BY <1>1, <1>2
  <2> QED  BY ONLY <1>2, <2>1
<1>11. PICK x \in SyncT :
      /\ x = ItemFeito(s)
      /\ x.passo = "importar" /\ x.g = SemRemoto /\ x.e = SemEvento /\ x.acao = "nada"
      /\ x.token = sync[s].token /\ DOMAIN x.itens = DOMAIN sync[s].itens \ {sync[s].g}
      /\ \A h \in DOMAIN x.itens : x.itens[h] = sync[s].itens[h]
      /\ x.lista = sync[s].lista /\ x.junto = sync[s].junto /\ x.inicio = sync[s].inicio
  BY <1>2, ItemFeitoTem
<1>12. sync' = [sync EXCEPT ![s] = x] /\ sync'[s] = x  BY ONLY <1>1, <1>2, <1>11
<1>13. PassoOK(s)'
  <2>1. direcao' = direcao  BY ONLY <1>1
  <2> QED  BY ONLY <1>3, <1>11, <1>12, <2>1 DEF PassoOK
<1>14. RascunhoOK(s)'
  <2>1. evento' = evento /\ relogio' = relogio  BY ONLY <1>1
  <2>2. /\ DOMAIN ev1 \subseteq DOMAIN elo1
        /\ \A d \in DOMAIN elo1 : elo1[d].g # SemRemoto /\ (d \notin DOMAIN ev1 => evento[d].st # "livre")
        /\ \A d \in DOMAIN ev1 : /\ ev1[d].st # "livre"
                                 /\ ev1[d].st = "excluido" <=> evento[d].st = "excluido"
        /\ \A d \in DOMAIN elo1 : d \in DOMAIN ev1 /\ ev1[d].mod <= elo1[d].sist
    <3>1. RascunhoOK(s)  BY ONLY <1>2
    <3> QED  BY ONLY <1>1, <1>9, <3>1 DEF RascunhoOK
  <2>3. DOMAIN ev2 \subseteq DOMAIN elo2 /\ e \in DOMAIN ev2  BY ONLY <1>7, <1>8, <2>2
  <2>4. ASSUME NEW d \in DOMAIN elo2
        PROVE  /\ elo2[d].g # SemRemoto /\ (d \notin DOMAIN ev2 => evento[d].st # "livre")
               /\ d \in DOMAIN ev2 /\ ev2[d].mod <= elo2[d].sist
    <3>1. CASE d = e  BY ONLY <1>4, <1>5, <1>7, <1>8, <3>1
    <3>2. CASE d # e  BY ONLY <1>7, <1>8, <2>2, <2>4, <3>2
    <3> QED  BY ONLY <3>1, <3>2
  <2>5. ASSUME NEW d \in DOMAIN ev2
        PROVE  ev2[d].st # "livre" /\ (ev2[d].st = "excluido" <=> evento[d].st = "excluido")
    <3>1. CASE d = e  BY ONLY <1>5, <1>7, <3>1
    <3>2. CASE d # e  BY ONLY <1>7, <2>2, <2>5, <3>2
    <3> QED  BY ONLY <3>1, <3>2
  <2>6. sync'[s].inicio <= relogio'  BY ONLY <1>2, <1>11, <1>12, <2>1 DEF RascunhoOK
  <2>7. rasc'[s].ev = ev2 /\ rasc'[s].elo = elo2  BY ONLY <1>9, <1>10
  <2> QED  BY ONLY <1>11, <1>12, <2>1, <2>3, <2>4, <2>5, <2>6, <2>7 DEF RascunhoOK
<1>15. PorLigar(sync[s], e, l.g) /\ \A h \in Remotos : PorLigar(sync[s], e, h) => h = l.g
  BY ONLY <1>1, <1>4 DEF PorLigar
<1>16. \A d \in Eventos : d # e => Elo(s, d).g # l.g  BY ONLY <1>1, <1>4 DEF Repetido
<1>17. ASSUME NEW t \in Syncs, t # s
       PROVE  e \notin DOMAIN rasc[t].elo /\ \A d \in DOMAIN rasc[t].elo : rasc[t].elo[d].g # l.g
  <2>1. CASE t \in Outros(s)  BY ONLY <1>1, <1>4, <2>1 DEF EloPreso
  <2>2. CASE t \notin Outros(s)
    <3>1. DOMAIN rasc[t].elo = {}  BY ONLY IInvGoogle, <1>17, <2>2, ParadaVazia
    <3> QED  BY ONLY <3>1
  <2> QED  BY ONLY <2>1, <2>2
<1>18. /\ DOMAIN r.elo = DOMAIN rasc[s].elo \cup {e} /\ r.elo[e] = l
       /\ \A d \in DOMAIN rasc[s].elo : d # e => r.elo[d] = rasc[s].elo[d]
       /\ \A d \in DOMAIN r.ev : d \in DOMAIN rasc[s].ev \/ d = e
  <2>1. /\ DOMAIN elo2 = DOMAIN elo1 \cup {e} /\ elo2[e] = l
        /\ \A d \in DOMAIN elo1 : d # e => elo2[d] = elo1[d]
        /\ \A d \in DOMAIN ev2 : d \in DOMAIN ev1 \/ d = e
    BY ONLY <1>7, <1>8
  <2> QED  BY ONLY <1>9, <2>1
<1>19. /\ DOMAIN x.lista = DOMAIN sync[s].lista \ {e}
       /\ \A d \in DOMAIN x.lista : x.lista[d] = sync[s].lista[d]
       /\ DOMAIN x.itens = DOMAIN sync[s].itens \ {sync[s].g}
       /\ \A h \in DOMAIN x.itens : x.itens[h] = sync[s].itens[h]
       /\ x.passo = (IF sync[s].passo = "aplicar" THEN "importar" ELSE "enviar")
       /\ x.junto = sync[s].junto /\ x.token = sync[s].token /\ x.e = SemEvento
       /\ sync[s].passo \in {"aplicar", "anotar"} /\ sync[s].acao # "nada" /\ sync[s].e = e
  BY ONLY <1>1, <1>3, <1>11
<1>20. Ligacao(s, x, r, e, l)
  BY ONLY <1>1, <1>4, <1>10, <1>12, <1>13, <1>14, <1>15, <1>16, <1>17, <1>18, <1>19 DEF Ligacao
<1> QED  BY ONLY IInvGoogle, <1>3, <1>4, <1>9, <1>20, LigarSegue

LEMMA AnotarSegue ==
    ASSUME IInvGoogle, NEW s \in Syncs, Anotar(s)
    PROVE  IInvGoogle'
<1> PICK e : e = sync[s].e  BY Zenon
<1> PICK g : g = sync[s].g  BY Zenon
<1> PICK f : f = sync[s].lista  BY Zenon
<1> PICK l : l = IF sync[s].acao = "excluir" THEN [Elo(s, e) EXCEPT !.st = "excluido"]
                 ELSE [g |-> g, ver |-> sync[s].ver, sist |-> VistoAte(s, e), st |-> "sincronizado"]
  BY Zenon
<1> PICK resto : resto = [d \in DOMAIN f \ {e} |-> f[d]]  BY Zenon
<1> PICK x : x = [sync[s] EXCEPT !.passo = "enviar", !.e = SemEvento, !.g = SemRemoto,
                                 !.acao = "nada", !.ver = 0, !.lista = resto]
  BY Zenon
<1>1. /\ sync[s].passo = "anotar" /\ ~EloPreso(s, e, g) /\ e = sync[s].e /\ g = sync[s].g
      /\ f = sync[s].lista
      /\ sync[s].acao = "vincular" => ~Repetido(s, e, g)
      /\ rasc' = [rasc EXCEPT ![s].elo = Por(@, e, l)]
      /\ UNCHANGED <<direcao, token, evento, elo, google, edicao, relogio, duvidosos>>
  BY DEF Anotar, tabelasAgenda, fixoAgenda, historiaAgenda
<1>2. /\ TipoGoogle /\ sync[s] \in SyncT /\ rasc \in [Syncs -> RascunhoT] /\ rasc[s] \in RascunhoT
      /\ sync \in [Syncs -> SyncT]
      /\ PassoOK(s) /\ RascunhoOK(s) /\ ListaOK(s)
  BY DEF IInvGoogle, TipoGoogle, SyncsOK
<1>3. /\ g \in Remotos /\ e \in DOMAIN f /\ e \in Eventos /\ sync[s].acao \in {"excluir", "vincular"}
      /\ sync[s].acao = "excluir" => g = f[e].g
      /\ DOMAIN sync[s].itens = {} /\ evento[e].st # "livre" /\ f[e].ev \in EventoT
      /\ f[e].g # SemRemoto => elo[e].g # SemRemoto
  BY <1>1, <1>2, SyncTem DEF PassoOK, ListaOK, ListadoT
<1>4. sync' = [sync EXCEPT ![s] = x]
  BY <1>2 DEF Anotar, Seguir, SyncT
<1>5. resto \in Parciais(Eventos, ListadoT) /\ DOMAIN resto = DOMAIN f \ {e}
  <2> PICK f1 \in Parciais(Eventos, ListadoT) : f1 = f  BY <1>2 DEF SyncT
  <2> QED  BY SemParcial
<1>6. \A d \in DOMAIN resto : resto[d] = f[d]  OBVIOUS
<1>7. x \in SyncT
  BY ONLY <1>2, <1>5, x = [sync[s] EXCEPT !.passo = "enviar", !.e = SemEvento, !.g = SemRemoto,
                                 !.acao = "nada", !.ver = 0, !.lista = resto]
     DEF SyncT, PassosSync, AcoesSync
<1>8. /\ x.passo = "enviar" /\ x.e = SemEvento /\ x.g = SemRemoto /\ x.acao = "nada"
      /\ x.lista = resto /\ x.itens = sync[s].itens /\ x.token = sync[s].token
      /\ x.junto = sync[s].junto /\ x.inicio = sync[s].inicio
  BY <1>2 DEF SyncT
<1>9. sync'[s] = x  BY <1>2, <1>4
<1>10. /\ l \in EloT /\ l.g # SemRemoto
       /\ l.g = IF sync[s].acao = "excluir" THEN Elo(s, e).g ELSE g
  <2>1. CASE sync[s].acao = "excluir"
    <3>1. Elo(s, e) \in EloT  BY <1>2, <1>3, EvTem
    <3>2. elo[e].g # SemRemoto  BY <1>3, <2>1, NomesAgenda
    <3>3. Elo(s, e).g # SemRemoto  BY <1>2, <3>2 DEF Elo, RascunhoOK
    <3> QED  BY <2>1, <3>1, <3>3 DEF EloT
  <2>2. CASE sync[s].acao # "excluir"
    <3>1. sync[s].ver \in Nat /\ VistoAte(s, e) \in Nat  BY <1>2, <1>3 DEF SyncT, VistoAte, EventoT
    <3> QED  BY <1>3, <2>2, <3>1, NomesAgenda DEF EloT
  <2> QED  BY <2>1, <2>2
<1> PICK elo1 \in Parciais(Eventos, EloT) : elo1 = rasc[s].elo  BY <1>2 DEF RascunhoT
<1> PICK elo2 : elo2 = Por(elo1, e, l)  BY Zenon
<1>11. /\ elo2 \in Parciais(Eventos, EloT) /\ DOMAIN elo2 = DOMAIN elo1 \cup {e}
       /\ elo2[e] = l /\ \A d \in DOMAIN elo1 : d # e => elo2[d] = elo1[d]
  <2>1. elo2 \in Parciais(Eventos, EloT)  BY <1>3, <1>10, PorParcial
  <2> QED  BY <2>1 DEF Por
<1> PICK r : r = [rasc[s] EXCEPT !.elo = elo2]  BY Zenon
<1>12. r \in RascunhoT /\ r.ev = rasc[s].ev /\ r.elo = elo2 /\ elo1 = rasc[s].elo
  BY <1>2, <1>11 DEF RascunhoT
<1>13. rasc' = [rasc EXCEPT ![s] = r] /\ rasc'[s] = r
  <2>1. rasc' = [rasc EXCEPT ![s] = r]  BY <1>1, <1>2
  <2> QED  BY <1>2, <2>1
<1>14. PassoOK(s)'
  <2>1. direcao' = direcao  BY ONLY <1>1
  <2> QED  BY ONLY <1>3, <1>8, <1>9, <2>1 DEF PassoOK
<1>15. RascunhoOK(s)'
  <2>1. evento' = evento /\ relogio' = relogio  BY ONLY <1>1
  <2>2. RascunhoOK(s)  BY ONLY <1>2
  <2> QED  BY ONLY <1>3, <1>8, <1>9, <1>10, <1>11, <1>12, <1>13, <2>1, <2>2 DEF RascunhoOK
\* Nobody else has that id.
<1>16. ASSUME NEW d \in Eventos, d # e
       PROVE  Elo(s, d).g # l.g
  <2>1. CASE sync[s].acao = "vincular"  BY ONLY <1>1, <1>10, <1>16, <2>1 DEF Repetido
  <2>2. CASE sync[s].acao = "excluir"
    <3>1. Unicos /\ l.g = Elo(s, e).g  BY ONLY IInvGoogle, <1>10, <2>2 DEF IInvGoogle
    <3>2. CASE e \in DOMAIN rasc[s].elo  BY ONLY <1>16, <3>1, <3>2 DEF Unicos, Elo
    <3>3. CASE d \in DOMAIN rasc[s].elo  BY ONLY <1>3, <1>16, <3>1, <3>3 DEF Unicos, Elo
    <3>4. CASE e \notin DOMAIN rasc[s].elo /\ d \notin DOMAIN rasc[s].elo
      BY ONLY <1>3, <1>10, <1>16, <3>1, <3>4 DEF Unicos, Elo
    <3> QED  BY ONLY <3>2, <3>3, <3>4
  <2> QED  BY ONLY <1>3, <2>1, <2>2
<1>17. ASSUME NEW t \in Syncs, t # s
       PROVE  e \notin DOMAIN rasc[t].elo /\ \A d \in DOMAIN rasc[t].elo : rasc[t].elo[d].g # l.g
  <2>1. CASE t \notin Outros(s)
    <3>1. DOMAIN rasc[t].elo = {}  BY ONLY IInvGoogle, <1>17, <2>1, ParadaVazia
    <3> QED  BY ONLY <3>1
  <2>2. CASE t \in Outros(s)
    <3>1. e \notin DOMAIN rasc[t].elo /\ \A d \in DOMAIN rasc[t].elo : rasc[t].elo[d].g # g
      BY ONLY <1>1, <2>2 DEF EloPreso
    <3>2. CASE sync[s].acao = "vincular"  BY ONLY <1>10, <3>1, <3>2
    <3>3. CASE sync[s].acao = "excluir"
      <4>1. Unicos /\ Separados(s, t) /\ l.g = Elo(s, e).g
        BY ONLY IInvGoogle, <1>10, <1>17, <3>3 DEF IInvGoogle, SyncsOK
      <4>2. CASE e \in DOMAIN rasc[s].elo  BY ONLY <3>1, <4>1, <4>2 DEF Separados, Elo
      <4>3. CASE e \notin DOMAIN rasc[s].elo
        <5>1. Elo(s, e) = elo[e] /\ Elo(t, e) = elo[e]  BY ONLY <3>1, <4>3 DEF Elo
        <5>2. \A d \in DOMAIN rasc[t].elo : rasc[t].elo[d].g # Elo(t, e).g
          BY ONLY <1>3, <3>1, <4>1 DEF Unicos
        <5> QED  BY ONLY <3>1, <4>1, <5>1, <5>2
      <4> QED  BY ONLY <4>2, <4>3
    <3> QED  BY ONLY <1>3, <3>2, <3>3
  <2> QED  BY ONLY <2>1, <2>2
<1>18. /\ PorLigar(sync[s], e, l.g) \/ Elo(s, e).g = l.g
       /\ \A h \in Remotos : PorLigar(sync[s], e, h) => h = l.g
  BY ONLY <1>1, <1>3, <1>10 DEF PorLigar
<1>19. /\ DOMAIN r.elo = DOMAIN rasc[s].elo \cup {e} /\ r.elo[e] = l
       /\ \A d \in DOMAIN rasc[s].elo : d # e => r.elo[d] = rasc[s].elo[d]
       /\ \A d \in DOMAIN r.ev : d \in DOMAIN rasc[s].ev \/ d = e
  BY ONLY <1>11, <1>12
<1>20. /\ DOMAIN x.lista = DOMAIN sync[s].lista \ {e}
       /\ \A d \in DOMAIN x.lista : x.lista[d] = sync[s].lista[d]
       /\ DOMAIN x.itens = DOMAIN sync[s].itens \ {sync[s].g}
       /\ \A h \in DOMAIN x.itens : x.itens[h] = sync[s].itens[h]
       /\ x.passo = (IF sync[s].passo = "aplicar" THEN "importar" ELSE "enviar")
       /\ sync[s].passo \in {"aplicar", "anotar"} /\ sync[s].acao # "nada" /\ sync[s].e = e
  BY ONLY <1>1, <1>3, <1>5, <1>6, <1>8
<1>21. Ligacao(s, x, r, e, l)
  BY ONLY <1>1, <1>4, <1>8, <1>10, <1>13, <1>14, <1>15, <1>16, <1>17, <1>18, <1>19, <1>20 DEF Ligacao
<1> QED  BY ONLY IInvGoogle, <1>3, <1>7, <1>10, <1>12, <1>21, LigarSegue

(***************************************************************************)
(* A synchronization ends.                                                 *)
(***************************************************************************)
LEMMA GravarSegue ==
    ASSUME IInvGoogle, NEW s \in Syncs, Gravar(s),
           UNCHANGED <<direcao, google, edicao, relogio, duvidosos>>,
           sync[s].passo \in {"buscar", "enviar", "fim"},
           token' = token \/ (token' = sync[s].token /\ sync[s].passo \in {"enviar", "fim"})
    PROVE  IInvGoogle'
<1> USE DEF IInvGoogle
<1>1. /\ evento' = [e \in Eventos |-> Ev(s, e)] /\ elo' = [e \in Eventos |-> Elo(s, e)]
      /\ rasc' = [rasc EXCEPT ![s] = SemRascunho] /\ sync' = [sync EXCEPT ![s] = SyncLivre]
      /\ direcao' = direcao /\ google' = google /\ relogio' = relogio /\ duvidosos' = duvidosos
  BY DEF Gravar, Seguir
<1>2. /\ TipoGoogle /\ sync \in [Syncs -> SyncT] /\ rasc \in [Syncs -> RascunhoT]
      /\ \A t \in Syncs : PassoOK(t) /\ RascunhoOK(t) /\ ListaOK(t) /\ NovoOK(t)
  BY DEF TipoGoogle, SyncsOK
<1>3. /\ SyncLivre \in SyncT /\ SemRascunho \in RascunhoT /\ DOMAIN SemRascunho.elo = {}
      /\ DOMAIN SemRascunho.ev = {} /\ DOMAIN SyncLivre.itens = {} /\ DOMAIN SyncLivre.lista = {}
  BY LivresTipo
<1> PICK y \in SyncT : y = SyncLivre  BY <1>3
<1> PICK q \in RascunhoT : q = SemRascunho  BY <1>3
<1>4. /\ sync'[s] = y /\ rasc'[s] = q /\ \A t \in Syncs : t # s => sync'[t] = sync[t] /\ rasc'[t] = rasc[t]
      /\ sync' \in [Syncs -> SyncT] /\ rasc' \in [Syncs -> RascunhoT]
  BY <1>1, <1>2
<1>5. /\ y.passo = "livre" /\ y.g = SemRemoto /\ y.e = SemEvento /\ y.acao = "nada" /\ y.inicio = 0
      /\ DOMAIN y.itens = {} /\ DOMAIN y.lista = {} /\ \A g \in Remotos : y.token[g] = 0
      /\ DOMAIN q.ev = {} /\ DOMAIN q.elo = {}
  BY <1>3 DEF SyncLivre, SemToken
<1>6. ASSUME NEW e \in Eventos
      PROVE  /\ Ev(s, e) \in EventoT /\ Elo(s, e) \in EloT
             /\ evento'[e] = Ev(s, e) /\ elo'[e] = Elo(s, e)
             /\ evento'[e].st = "livre" => evento[e].st = "livre" /\ Elo(s, e) = elo[e]
             /\ evento'[e].st = "excluido" <=> evento[e].st = "excluido"
             /\ elo[e].g # SemRemoto => elo'[e].g # SemRemoto
             /\ e \notin DOMAIN rasc[s].ev => evento'[e] = evento[e]
  <2>1. Ev(s, e) \in EventoT /\ Elo(s, e) \in EloT /\ evento'[e] = Ev(s, e) /\ elo'[e] = Elo(s, e)
    BY <1>1, <1>2, EvTem
  <2>2. RascunhoOK(s)  BY <1>2
  <2> QED  BY ONLY <2>1, <2>2 DEF RascunhoOK, Ev, Elo
<1>7. evento' \in [Eventos -> EventoT] /\ elo' \in [Eventos -> EloT]  BY <1>1, <1>6
<1>8. TipoGoogle'
  <2>1. token' \in [Remotos -> Nat]  BY <1>2 DEF TipoGoogle, SyncT
  <2> QED  BY <1>1, <1>2, <1>4, <1>7, <2>1 DEF TipoGoogle
<1>9. ASSUME NEW e \in Eventos, NEW g \in Remotos, Fala(e, g)' PROVE Fala(e, g)
  <2>1. \/ google[g].dono = e \/ Elo(s, e).g = g
        \/ \E t \in Syncs : FalaDe(sync'[t], rasc'[t], e, g)
    BY <1>1, <1>6, <1>9 DEF Fala
  <2>2. ~FalaDe(y, q, e, g)  BY <1>5 DEF FalaDe, PorLigar
  <2>3. Elo(s, e).g = g => Fala(e, g)  BY DEF Elo, Fala, FalaDe
  <2> QED  BY <1>4, <2>1, <2>2, <2>3 DEF Fala
\* What it writes of an event is what everybody says of it.
<1>10. ASSUME NEW e \in Eventos, e \notin duvidosos, NEW g \in Remotos, Fala(e, g),
              Elo(s, e).g # SemRemoto
       PROVE  elo'[e].g = g
  <2>1. Elo(s, e).g \in Remotos /\ Fala(e, Elo(s, e).g)
    <3>1. Elo(s, e).g \in Remotos  BY <1>6, <1>10 DEF EloT
    <3> QED  BY <3>1 DEF Elo, Fala, FalaDe
  <2> QED  BY <1>6, <1>10, <2>1 DEF UmId
<1>11. ASSUME NEW e \in Eventos, e \notin duvidosos, NEW g \in Remotos, elo[e].g = g
       PROVE  elo'[e].g = g
  <2>1. Fala(e, g)  BY <1>11 DEF Fala
  <2>2. Elo(s, e).g # SemRemoto  BY <1>6, <1>11, NomesAgenda
  <2> QED  BY <1>10, <1>11, <2>1, <2>2
<1>12. SyncsOK'
  <2>1. PassoOK(s)' /\ RascunhoOK(s)' /\ ListaOK(s)' /\ NovoOK(s)'
    <3>1. sync'[s] = [SyncLivre EXCEPT !.calmo = sync'[s].calmo]  BY <1>4 DEF SyncLivre
    <3>2. rasc'[s] = SemRascunho  BY <1>4
    <3>3. PassoOK(s)'  BY ONLY <1>4, <1>5, <3>1, <3>2 DEF PassoOK
    <3>4. relogio' \in Nat  BY <1>8 DEF TipoGoogle
    <3>5. RascunhoOK(s)' /\ ListaOK(s)' /\ NovoOK(s)'
      BY ONLY <1>4, <1>5, <3>4 DEF RascunhoOK, ListaOK, NovoOK
    <3> QED  BY <3>3, <3>5
  <2>2. ASSUME NEW t \in Syncs, t # s PROVE PassoOK(t)' /\ RascunhoOK(t)' /\ ListaOK(t)' /\ NovoOK(t)'
    <3>1. /\ PassoOK(t) /\ RascunhoOK(t) /\ ListaOK(t) /\ NovoOK(t) /\ Separados(s, t)
          /\ sync'[t] = sync[t] /\ rasc'[t] = rasc[t]
          /\ DOMAIN rasc[s].ev \subseteq DOMAIN rasc[s].elo
      BY <1>2, <1>4, <2>2 DEF SyncsOK, RascunhoOK
    <3>2. PassoOK(t)'
      <4>1. \A e \in Eventos : evento'[e].st = "livre" => evento[e].st = "livre"  BY <1>6
      <4> QED  BY ONLY <1>1, <3>1, <4>1 DEF PassoOK
    <3>3. RascunhoOK(t)'
      <4>1. DOMAIN rasc[t].elo \subseteq Eventos /\ DOMAIN rasc[t].ev \subseteq Eventos
        BY <1>2, SyncTem
      <4>2. \A e \in Eventos : /\ evento'[e].st = "livre" => evento[e].st = "livre"
                               /\ evento'[e].st = "excluido" <=> evento[e].st = "excluido"
        BY <1>6
      <4> QED  BY ONLY <1>1, <3>1, <4>1, <4>2 DEF RascunhoOK
    <3>4. ListaOK(t)'
      <4>1. DOMAIN sync[t].lista \subseteq Eventos  BY <1>2, SyncTem
      <4>2. \A e \in Eventos : /\ evento'[e].st = "livre" => evento[e].st = "livre"
                               /\ elo[e].g # SemRemoto => elo'[e].g # SemRemoto
        BY <1>6
      <4> QED  BY ONLY <3>1, <4>1, <4>2 DEF ListaOK
    <3>5. NovoOK(t)'
      <4>1. ASSUME sync[t].passo = "aplicar", sync[t].acao = "inserir"
            PROVE  /\ evento'[sync[t].e].st = "livre"
                   /\ \A u \in Syncs : /\ sync[t].e \notin DOMAIN rasc'[u].ev
                                       /\ u # t => sync'[u].e # sync[t].e
        <5>1. sync[t].e \in Eventos  BY <3>1, <4>1 DEF PassoOK
        <5>2. /\ evento[sync[t].e].st = "livre"
              /\ \A u \in Syncs : /\ sync[t].e \notin DOMAIN rasc[u].ev
                                  /\ u # t => sync[u].e # sync[t].e
          BY <3>1, <4>1 DEF NovoOK
        <5>3. evento'[sync[t].e].st = "livre"  BY <1>6, <5>1, <5>2
        <5> QED  BY <1>4, <1>5, <5>1, <5>2, <5>3, NomesAgenda
      <4> QED  BY ONLY <3>1, <4>1 DEF NovoOK
    <3> QED  BY <3>2, <3>3, <3>4, <3>5
  <2>3. ASSUME NEW t \in Syncs, NEW u \in Syncs, t # u PROVE Separados(t, u)'
    <3>1. Separados(t, u)  BY <2>3 DEF SyncsOK
    <3> QED  BY ONLY <1>4, <1>5, <2>3, <3>1 DEF Separados
  <2> QED  BY <2>1, <2>2, <2>3 DEF SyncsOK
<1>13. ASSUME NEW g \in Remotos PROVE Intacto(g)' /\ VersaoOK(g)'
  <2>1. Intacto(g) /\ VersaoOK(g)  OBVIOUS
  <2>2. google[g].st = "livre" => token'[g] = 0  BY <2>1 DEF Intacto
  <2>3. \A e \in Eventos : Fala(e, g)' => Fala(e, g)  BY <1>9
  <2> QED  BY ONLY <1>1, <1>4, <1>5, <2>1, <2>2, <2>3 DEF Intacto, VersaoOK
<1>14. ASSUME NEW e \in Eventos PROVE NaoNascido(e)'
  <2>1. NaoNascido(e)  OBVIOUS
  <2>2. evento'[e].st = "livre" => evento[e].st = "livre" /\ elo'[e] = elo[e]  BY <1>6
  <2> QED  BY ONLY <1>1, <1>4, <1>5, <2>1, <2>2 DEF NaoNascido
<1>15. UmId'
  <2>1. UmId  OBVIOUS
  <2> QED  BY ONLY <1>1, <1>9, <2>1 DEF UmId
<1>16. Unicos'
  <2>1. Unicos  OBVIOUS
  <2>2. ASSUME NEW e \in Eventos, NEW d \in Eventos, e # d, elo'[e].g # SemRemoto
        PROVE  elo'[e].g # elo'[d].g
    <3>1. elo'[e] = Elo(s, e) /\ elo'[d] = Elo(s, d)  BY <1>6
    <3>2. CASE e \in DOMAIN rasc[s].elo  BY <2>1, <2>2, <3>1, <3>2 DEF Unicos, Elo
    <3>3. CASE d \in DOMAIN rasc[s].elo  BY <2>1, <2>2, <3>1, <3>3 DEF Unicos, Elo
    <3>4. CASE e \notin DOMAIN rasc[s].elo /\ d \notin DOMAIN rasc[s].elo
      BY <2>1, <2>2, <3>1, <3>4 DEF Unicos, Elo
    <3> QED  BY <3>2, <3>3, <3>4
  <2>3. ASSUME NEW t \in Syncs, NEW e \in DOMAIN rasc'[t].elo, NEW d \in Eventos, e # d
        PROVE  rasc'[t].elo[e].g # Elo(t, d)'.g
    <3>1. t # s  BY <1>4, <1>5, <2>3
    <3>2. rasc'[t] = rasc[t] /\ Separados(s, t) /\ e \in DOMAIN rasc[t].elo
      BY <1>4, <2>3, <3>1 DEF SyncsOK
    <3>3. CASE d \in DOMAIN rasc[t].elo
      <4>1. Elo(t, d)' = Elo(t, d)  BY <3>2, <3>3 DEF Elo
      <4> QED  BY <2>1, <2>3, <3>2, <4>1 DEF Unicos
    <3>4. CASE d \notin DOMAIN rasc[t].elo
      <4>1. Elo(t, d)' = Elo(s, d) /\ Elo(t, d) = elo[d]  BY <1>6, <3>2, <3>4 DEF Elo
      <4>2. rasc[t].elo[e].g # elo[d].g  BY <2>1, <2>3, <3>2, <4>1 DEF Unicos
      <4>3. d \in DOMAIN rasc[s].elo => rasc[s].elo[d].g # rasc[t].elo[e].g
        BY <3>2 DEF Separados
      <4> QED  BY <3>2, <4>1, <4>2, <4>3 DEF Elo
    <3> QED  BY <3>3, <3>4
  <2> QED  BY ONLY <2>2, <2>3 DEF Unicos
<1>17. Listados'
  <2> SUFFICES ASSUME NEW t \in Syncs, NEW e \in Eventos, e \notin duvidosos,
                      e \in DOMAIN sync'[t].lista, sync'[t].lista[e].g # SemRemoto
               PROVE  elo'[e].g = sync'[t].lista[e].g
    BY <1>1 DEF Listados
  <2>1. t # s /\ sync'[t] = sync[t]  BY <1>4, <1>5
  <2>2. elo[e].g = sync[t].lista[e].g /\ sync[t].lista[e].g \in Remotos
    BY <1>2, <2>1, SyncTem DEF Listados, ListadoT
  <2> QED  BY <1>11, <2>1, <2>2
<1>18. \A e \in Eventos : Certo(e)' => Certo(e)  BY <1>1, <1>6 DEF Certo
<1>19. CopiasOK'
  <2> SUFFICES ASSUME NEW e \in Eventos, NEW g \in Remotos, Certo(e), google[g].dono = e
               PROVE  CopiaDe(e, g)'
    BY <1>1, <1>18 DEF CopiasOK
  <2>1. CopiaDe(e, g) /\ e \notin duvidosos  BY DEF CopiasOK, Certo
  <2>2. \A d \in Eventos \ {e} : elo'[d].g # g  BY <1>6, <2>1 DEF CopiaDe, Elo
  <2>3. elo[e].g = g => elo'[e].g = g  BY <1>11, <2>1
  <2> QED  BY ONLY <1>4, <1>5, <2>1, <2>2, <2>3 DEF CopiaDe, PorLigar
<1>20. PuxadosOK'
  <2> SUFFICES ASSUME direcao # "sistema_google", NEW e \in Eventos, NEW g \in Remotos, Certo(e),
                      google[g].dono = e
               PROVE  PassadoOK(e, g)'
    BY <1>1, <1>18 DEF PuxadosOK
  <2>1. PassadoOK(e, g) /\ ViuOK(sync[s], Elo(s, e).g, e, g)  BY DEF PuxadosOK, PassadoOK
  <2>2. elo[e].g # SemRemoto => elo'[e].g # SemRemoto  BY <1>6
  <2>3. google[g].ver <= token'[g] => elo'[e].g # SemRemoto
    <3>1. CASE token' = token  BY <2>1, <2>2, <3>1 DEF PassadoOK
    <3>2. CASE token' = sync[s].token /\ sync[s].passo \in {"enviar", "fim"}
      <4>1. google[g].ver > 0 /\ google[g].ver \in Nat
        <5>1. google[g].st # "livre"  BY DEF Intacto, Fala
        <5> QED  BY <1>2, <5>1 DEF VersaoOK, TipoGoogle, RemotoT
      <4>2. sync[s].token[g] \in Nat  BY <1>2 DEF SyncT
      <4>3. DOMAIN sync[s].itens = {}  BY <1>2, <3>2 DEF PassoOK
      <4>4. sync[s].token[g] > 0 => Elo(s, e).g # SemRemoto  BY <2>1, <3>2, <4>3 DEF ViuOK
      <4> QED  BY <1>6, <3>2, <4>1, <4>2, <4>4
    <3> QED  BY <3>1, <3>2
  <2>4. ASSUME NEW t \in Syncs PROVE ViuOK(sync[t], Elo(t, e).g, e, g)'
    <3>1. CASE t = s  BY <1>4, <1>5, <3>1 DEF ViuOK
    <3>2. CASE t # s
      <4>1. ViuOK(sync[t], Elo(t, e).g, e, g) /\ sync'[t] = sync[t] /\ rasc'[t] = rasc[t]
        BY <1>4, <2>1, <3>2 DEF PassadoOK
      <4>2. Elo(t, e).g # SemRemoto => Elo(t, e)'.g # SemRemoto  BY <2>2, <4>1 DEF Elo
      <4> QED  BY <1>1, <2>2, <4>1, <4>2 DEF ViuOK
    <3> QED  BY <3>1, <3>2
  <2> QED  BY <1>1, <2>3, <2>4 DEF PassadoOK
<1>21. SemPull'
  <2> SUFFICES ASSUME direcao = "sistema_google", NEW e \in Eventos, e \notin duvidosos,
                      NEW g \in Remotos, google[g].dono = e
               PROVE  elo'[e].g = g \/ \E t \in Syncs : e \in DOMAIN rasc'[t].elo \/ PorLigar(sync'[t], e, g)
    BY <1>1 DEF SemPull
  <2>1. \/ elo[e].g = g
        \/ \E t \in Syncs : e \in DOMAIN rasc[t].elo \/ PorLigar(sync[t], e, g)
    BY DEF SemPull
  <2>2. CASE elo[e].g = g  BY <1>11, <2>2
  <2>3. ASSUME NEW t \in Syncs, e \in DOMAIN rasc[t].elo \/ PorLigar(sync[t], e, g)
        PROVE  elo'[e].g = g \/ \E u \in Syncs : e \in DOMAIN rasc'[u].elo \/ PorLigar(sync'[u], e, g)
    <3>1. CASE t # s  BY <1>4, <2>3, <3>1
    <3>2. CASE t = s
      <4>1. e \in DOMAIN rasc[s].elo  BY <2>3, <3>2 DEF PorLigar
      <4>2. Elo(s, e).g # SemRemoto  BY <1>2, <4>1 DEF RascunhoOK, Elo
      <4>3. Fala(e, g)  BY DEF Fala
      <4> QED  BY <1>10, <4>2, <4>3
    <3> QED  BY <3>1, <3>2
  <2> QED  BY <2>1, <2>2, <2>3
<1>22. ASSUME NEW t \in Syncs PROVE SozinhoViu(t)' /\ ACriar(t)'
  <2>1. SozinhoViu(t) /\ ACriar(t)  OBVIOUS
  <2>2. CASE t = s  BY <1>4, <1>5, <2>2 DEF SozinhoViu, ACriar
  <2>3. CASE t # s
    <3>1. sync'[t] = sync[t] /\ DOMAIN sync[t].lista \subseteq Eventos  BY <1>2, <1>4, <2>3, SyncTem
    <3>2. SozinhoViu(t)'  BY <1>1, <2>1, <3>1 DEF SozinhoViu
    <3>3. \A e \in Eventos, g \in Remotos : Fala(e, g)' => Fala(e, g)  BY <1>9
    <3>4. ACriar(t)'  BY ONLY <1>1, <2>1, <3>1, <3>3 DEF ACriar
    <3> QED  BY <3>2, <3>4
  <2> QED  BY <2>2, <2>3
<1> QED  BY <1>8, <1>12, <1>13, <1>14, <1>15, <1>16, <1>17, <1>19, <1>20, <1>21, <1>22

LEMMA ConcluirSegue ==
    ASSUME IInvGoogle, NEW s \in Syncs, Concluir(s)
    PROVE  IInvGoogle'
<1>1. /\ Gravar(s) /\ UNCHANGED <<direcao, google, edicao, relogio, duvidosos>>
      /\ token' = sync[s].token /\ sync[s].passo \in {"enviar", "fim"}
  BY DEF Concluir, fixoAgenda
<1> QED  BY <1>1, GravarSegue

LEMMA FalharSegue ==
    ASSUME IInvGoogle, NEW s \in Syncs, Falhar(s)
    PROVE  IInvGoogle'
<1>1. /\ Gravar(s) /\ UNCHANGED <<direcao, google, edicao, relogio, duvidosos>>
      /\ token' = token /\ sync[s].passo \in {"buscar", "enviar"}
  BY DEF Falhar, Recusada, historiaAgenda
<1> QED  BY <1>1, GravarSegue

LEMMA DesfazerSegue ==
    ASSUME IInvGoogle, NEW s \in Syncs, Desfazer(s)
    PROVE  IInvGoogle'
<1> USE DEF IInvGoogle
<1>1. /\ rasc' = [rasc EXCEPT ![s] = SemRascunho] /\ sync' = [sync EXCEPT ![s] = SyncLivre]
      /\ evento' = evento /\ elo' = elo /\ token' = token /\ edicao' = edicao
      /\ direcao' = direcao /\ google' = google /\ relogio' = relogio
      /\ duvidosos' = IF direcao # "sistema_google" THEN duvidosos
                      ELSE duvidosos \cup {e \in Eventos :
                              \E g \in Remotos : google[g].dono = e /\ elo[e].g # g}
  BY DEF Desfazer, Seguir, tabelasAgenda
<1>2. /\ TipoGoogle /\ sync \in [Syncs -> SyncT] /\ rasc \in [Syncs -> RascunhoT]
      /\ \A t \in Syncs : PassoOK(t) /\ RascunhoOK(t) /\ ListaOK(t) /\ NovoOK(t)
  BY DEF TipoGoogle, SyncsOK
<1>3. /\ SyncLivre \in SyncT /\ SemRascunho \in RascunhoT /\ DOMAIN SemRascunho.elo = {}
      /\ DOMAIN SemRascunho.ev = {} /\ DOMAIN SyncLivre.itens = {} /\ DOMAIN SyncLivre.lista = {}
  BY LivresTipo
<1> PICK y \in SyncT : y = SyncLivre  BY <1>3
<1> PICK q \in RascunhoT : q = SemRascunho  BY <1>3
<1>4. /\ sync'[s] = y /\ rasc'[s] = q /\ \A t \in Syncs : t # s => sync'[t] = sync[t] /\ rasc'[t] = rasc[t]
      /\ sync' \in [Syncs -> SyncT] /\ rasc' \in [Syncs -> RascunhoT]
  BY <1>1, <1>2
<1>5. /\ y.passo = "livre" /\ y.g = SemRemoto /\ y.e = SemEvento /\ y.acao = "nada" /\ y.inicio = 0
      /\ DOMAIN y.itens = {} /\ DOMAIN y.lista = {} /\ \A g \in Remotos : y.token[g] = 0
      /\ DOMAIN q.ev = {} /\ DOMAIN q.elo = {}
  BY <1>3 DEF SyncLivre, SemToken
<1>6. duvidosos \subseteq duvidosos' /\ duvidosos' \subseteq Eventos
  BY <1>1, <1>2 DEF TipoGoogle
<1>7. TipoGoogle'  BY <1>1, <1>2, <1>4, <1>6 DEF TipoGoogle
<1>8. ASSUME NEW e \in Eventos, NEW g \in Remotos, Fala(e, g)' PROVE Fala(e, g)
  <2>1. \/ google[g].dono = e \/ elo[e].g = g
        \/ \E t \in Syncs : FalaDe(sync'[t], rasc'[t], e, g)
    BY <1>1, <1>8 DEF Fala
  <2>2. ~FalaDe(y, q, e, g)  BY <1>5 DEF FalaDe, PorLigar
  <2> QED  BY <1>4, <2>1, <2>2 DEF Fala
<1>9. SyncsOK'
  <2>1. PassoOK(s)' /\ RascunhoOK(s)' /\ ListaOK(s)' /\ NovoOK(s)'
    <3>1. sync'[s] = [SyncLivre EXCEPT !.calmo = sync'[s].calmo]  BY <1>4 DEF SyncLivre
    <3>2. rasc'[s] = SemRascunho  BY <1>4
    <3>3. PassoOK(s)'  BY ONLY <1>4, <1>5, <3>1, <3>2 DEF PassoOK
    <3>4. relogio' \in Nat  BY <1>7 DEF TipoGoogle
    <3>5. RascunhoOK(s)' /\ ListaOK(s)' /\ NovoOK(s)'
      BY ONLY <1>4, <1>5, <3>4 DEF RascunhoOK, ListaOK, NovoOK
    <3> QED  BY <3>3, <3>5
  <2>2. ASSUME NEW t \in Syncs, t # s PROVE PassoOK(t)' /\ RascunhoOK(t)' /\ ListaOK(t)' /\ NovoOK(t)'
    <3>1. /\ PassoOK(t) /\ RascunhoOK(t) /\ ListaOK(t) /\ NovoOK(t)
          /\ sync'[t] = sync[t] /\ rasc'[t] = rasc[t]
      BY <1>2, <1>4, <2>2
    <3>2. PassoOK(t)' /\ RascunhoOK(t)' /\ ListaOK(t)'
      BY ONLY <1>1, <3>1 DEF PassoOK, RascunhoOK, ListaOK
    <3>3. NovoOK(t)'
      <4>1. sync[t].passo = "aplicar" /\ sync[t].acao = "inserir" => sync[t].e # SemEvento
        BY <3>1, NomesAgenda DEF PassoOK
      <4> QED  BY ONLY <1>1, <1>4, <1>5, <3>1, <4>1 DEF NovoOK
    <3> QED  BY <3>2, <3>3
  <2>3. ASSUME NEW t \in Syncs, NEW u \in Syncs, t # u PROVE Separados(t, u)'
    <3>1. Separados(t, u)  BY <2>3 DEF SyncsOK
    <3> QED  BY ONLY <1>4, <1>5, <2>3, <3>1 DEF Separados
  <2> QED  BY <2>1, <2>2, <2>3 DEF SyncsOK
<1>10. ASSUME NEW g \in Remotos PROVE Intacto(g)' /\ VersaoOK(g)'
  <2>1. Intacto(g) /\ VersaoOK(g)  OBVIOUS
  <2>2. \A e \in Eventos : Fala(e, g)' => Fala(e, g)  BY <1>8
  <2> QED  BY ONLY <1>1, <1>4, <1>5, <2>1, <2>2 DEF Intacto, VersaoOK
<1>11. ASSUME NEW e \in Eventos PROVE NaoNascido(e)'
  <2>1. NaoNascido(e)  OBVIOUS
  <2> QED  BY ONLY <1>1, <1>4, <1>5, <2>1 DEF NaoNascido
<1>12. UmId'
  <2>1. UmId  OBVIOUS
  <2> QED  BY ONLY <1>6, <1>8, <2>1 DEF UmId
<1>13. Unicos'
  <2>1. Unicos  OBVIOUS
  <2>2. ASSUME NEW t \in Syncs, NEW e \in DOMAIN rasc'[t].elo, NEW d \in Eventos, e # d
        PROVE  rasc'[t].elo[e].g # Elo(t, d)'.g
    <3>1. t # s  BY <1>4, <1>5, <2>2
    <3>2. rasc'[t] = rasc[t] /\ Elo(t, d)' = Elo(t, d)  BY <1>1, <1>4, <3>1 DEF Elo
    <3> QED  BY <2>1, <2>2, <3>2 DEF Unicos
  <2>3. \A e, d \in Eventos : e # d /\ elo'[e].g # SemRemoto => elo'[e].g # elo'[d].g
    BY <1>1, <2>1 DEF Unicos
  <2> QED  BY ONLY <2>2, <2>3 DEF Unicos
<1>14. Listados'
  <2>1. Listados  OBVIOUS
  <2> QED  BY ONLY <1>1, <1>4, <1>5, <1>6, <2>1 DEF Listados
<1>15. \A e \in Eventos : Certo(e)' => Certo(e)  BY <1>1, <1>6 DEF Certo
<1>16. CopiasOK'
  <2> SUFFICES ASSUME NEW e \in Eventos, NEW g \in Remotos, Certo(e), google[g].dono = e
               PROVE  CopiaDe(e, g)'
    BY <1>1, <1>15 DEF CopiasOK
  <2>1. CopiaDe(e, g)  BY DEF CopiasOK
  <2> QED  BY ONLY <1>1, <1>4, <1>5, <2>1 DEF CopiaDe, PorLigar
<1>17. PuxadosOK'
  <2> SUFFICES ASSUME direcao # "sistema_google", NEW e \in Eventos, NEW g \in Remotos, Certo(e),
                      google[g].dono = e
               PROVE  PassadoOK(e, g)'
    BY <1>1, <1>15 DEF PuxadosOK
  <2>1. PassadoOK(e, g)  BY DEF PuxadosOK
  <2>2. ASSUME NEW t \in Syncs PROVE ViuOK(sync[t], Elo(t, e).g, e, g)'
    <3>1. CASE t = s  BY <1>4, <1>5, <3>1 DEF ViuOK
    <3>2. CASE t # s
      <4>1. /\ ViuOK(sync[t], Elo(t, e).g, e, g) /\ sync'[t] = sync[t]
            /\ Elo(t, e)' = Elo(t, e)
        BY <1>1, <1>4, <2>1, <3>2 DEF PassadoOK, Elo
      <4> QED  BY <1>1, <4>1 DEF ViuOK
    <3> QED  BY <3>1, <3>2
  <2> QED  BY <1>1, <2>1, <2>2 DEF PassadoOK
<1>18. SemPull'
  <2>1. direcao = "sistema_google" =>
          \A e \in Eventos \ duvidosos', g \in Remotos : google[g].dono = e => elo[e].g = g
    BY <1>1
  <2> QED  BY ONLY <1>1, <2>1 DEF SemPull
<1>19. ASSUME NEW t \in Syncs PROVE SozinhoViu(t)' /\ ACriar(t)'
  <2>1. SozinhoViu(t) /\ ACriar(t)  OBVIOUS
  <2>2. CASE t = s  BY <1>4, <1>5, <2>2 DEF SozinhoViu, ACriar
  <2>3. CASE t # s
    <3>1. sync'[t] = sync[t] /\ DOMAIN sync[t].lista \subseteq Eventos  BY <1>2, <1>4, <2>3, SyncTem
    <3>2. SozinhoViu(t)'  BY <1>1, <2>1, <3>1 DEF SozinhoViu
    <3>3. \A e \in Eventos, g \in Remotos : Fala(e, g)' => Fala(e, g)  BY <1>8
    <3>4. ACriar(t)'  BY ONLY <1>6, <2>1, <3>1, <3>3 DEF ACriar
    <3> QED  BY <3>2, <3>4
  <2> QED  BY <2>2, <2>3
<1> QED  BY <1>7, <1>9, <1>10, <1>11, <1>12, <1>13, <1>14, <1>16, <1>17, <1>18, <1>19

(***************************************************************************)
(* One call to Google: what it made or changed is there from now on.       *)
(***************************************************************************)
Envio(s, x, n, e0, g0) ==
    /\ sync' = [sync EXCEPT ![s] = x] /\ google' = [google EXCEPT ![g0] = n]
    /\ UNCHANGED <<direcao, token, evento, elo, rasc, edicao, relogio, acertado, tardias,
                   puladas>>
    /\ sync[s].passo = "enviar" /\ x.passo = "anotar" /\ x.e = e0 /\ x.g = g0
    /\ x.calmo = sync[s].calmo /\ x.ver = n.ver
    /\ x.junto = sync[s].junto /\ x.token = sync[s].token /\ x.itens = sync[s].itens
    /\ x.lista = sync[s].lista /\ x.inicio = sync[s].inicio /\ e0 \in DOMAIN x.lista
    /\ n.st # "livre" /\ n.ver = google[g0].ver + 1
    /\ duvidosos \subseteq duvidosos' /\ duvidosos' \subseteq Eventos
    /\ sync[s].junto = "nao" => duvidosos' = duvidosos
    /\ x.acao = "excluir" => n.st = "cancelado" /\ x.lista[e0].ev.st # "vivo"
    /\ x.acao = "vincular" => n.st = "vivo" /\ n.cont = x.lista[e0].ev.cont
    /\ \/ x.acao = "excluir" /\ x.lista[e0].g = g0 /\ n.dono = google[g0].dono
       \/ x.acao = "vincular" /\ x.lista[e0].g = g0 /\ n.dono = e0
       \/ /\ x.acao = "vincular" /\ x.lista[e0].g = SemRemoto /\ n.dono = e0
          /\ google[g0].st = "livre" /\ (sync[s].junto = "sim" => e0 \in duvidosos')

LEMMA EnvioSegue ==
    ASSUME IInvGoogle, NEW s \in Syncs, NEW x \in SyncT, NEW n \in RemotoT, NEW e0 \in Eventos,
           NEW g0 \in Remotos, Envio(s, x, n, e0, g0)
    PROVE  IInvGoogle'
<1> USE DEF IInvGoogle
<1>1. /\ sync \in [Syncs -> SyncT] /\ sync' \in [Syncs -> SyncT] /\ sync'[s] = x
      /\ \A t \in Syncs : t # s => sync'[t] = sync[t]
      /\ google \in [Remotos -> RemotoT] /\ google' \in [Remotos -> RemotoT] /\ google'[g0] = n
      /\ \A h \in Remotos : h # g0 => google'[h] = google[h]
  BY DEF Envio, TipoGoogle
<1>2. /\ direcao' = direcao /\ token' = token /\ evento' = evento /\ elo' = elo /\ rasc' = rasc
      /\ relogio' = relogio /\ duvidosos \subseteq duvidosos' /\ duvidosos' \subseteq Eventos
      /\ edicao' = edicao
  BY DEF Envio
<1>3. /\ sync[s].passo = "enviar" /\ x.passo = "anotar" /\ x.e = e0 /\ x.g = g0
      /\ x.junto = sync[s].junto /\ x.token = sync[s].token /\ x.itens = sync[s].itens
      /\ x.lista = sync[s].lista /\ x.inicio = sync[s].inicio /\ e0 \in DOMAIN x.lista
      /\ n.st # "livre" /\ n.ver = google[g0].ver + 1
  BY DEF Envio
<1>4. TipoGoogle'  BY <1>1, <1>2 DEF TipoGoogle
<1>5. \/ x.acao = "excluir" /\ x.lista[e0].g = g0 /\ n.dono = google[g0].dono
      \/ x.acao = "vincular" /\ x.lista[e0].g = g0 /\ n.dono = e0
      \/ /\ x.acao = "vincular" /\ x.lista[e0].g = SemRemoto /\ n.dono = e0
         /\ google[g0].st = "livre" /\ (sync[s].junto = "sim" => e0 \in duvidosos')
  BY DEF Envio
<1>6. /\ PassoOK(s) /\ RascunhoOK(s) /\ ListaOK(s) /\ TipoGoogle
      /\ sync[s].e = SemEvento /\ sync[s].g = SemRemoto /\ DOMAIN sync[s].itens = {}
      /\ evento[e0].st # "livre" /\ DOMAIN sync[s].lista \subseteq Eventos
  <2>1. PassoOK(s) /\ RascunhoOK(s) /\ ListaOK(s) /\ TipoGoogle  BY DEF SyncsOK
  <2>2. evento[e0].st # "livre"  BY <1>3, <2>1 DEF ListaOK
  <2>3. DOMAIN sync[s].lista \subseteq Eventos  BY <2>1, SyncTem
  <2> QED  BY <1>3, <2>1, <2>2, <2>3 DEF PassoOK
<1>7. \A d, h : ~PorLigar(sync[s], d, h)  BY <1>3 DEF PorLigar
<1>8. \A d, h : PorLigar(x, d, h) <=> x.acao = "vincular" /\ d = e0 /\ h = g0
  BY <1>3 DEF PorLigar
\* Nobody speaks of an id that Google has not given yet.
<1>9. google[g0].st = "livre" =>
        /\ token[g0] = 0 /\ \A t \in Syncs : sync[t].token[g0] = 0
        /\ \A d \in Eventos : ~Fala(d, g0)
        /\ \A t \in Syncs : g0 \notin DOMAIN sync[t].itens
  <2>1. Intacto(g0)  OBVIOUS
  <2> QED  BY <2>1 DEF Intacto
<1>10. x.lista[e0].g = g0 => Fala(e0, g0)  BY <1>3 DEF Fala, FalaDe
<1>11. ASSUME NEW d \in Eventos, NEW h \in Remotos, Fala(d, h)'
       PROVE  Fala(d, h) \/ (d = e0 /\ h = g0 /\ x.lista[e0].g = SemRemoto)
  <2>1. \/ google'[h].dono = d \/ elo[d].g = h
        \/ \E t \in Syncs : FalaDe(sync'[t], rasc[t], d, h)
    BY <1>2, <1>11 DEF Fala
  <2>2. CASE google'[h].dono = d
    <3>1. google[h].dono = d \/ (d = e0 /\ h = g0)  BY <1>1, <1>5, <2>2
    <3> QED  BY <1>5, <1>10, <2>2, <3>1, <1>1 DEF Fala
  <2>3. CASE elo[d].g = h  BY <2>3 DEF Fala
  <2>4. ASSUME NEW t \in Syncs, FalaDe(sync'[t], rasc[t], d, h)
        PROVE  Fala(d, h) \/ (d = e0 /\ h = g0 /\ x.lista[e0].g = SemRemoto)
    <3>1. CASE t # s  BY <1>1, <2>4, <3>1 DEF Fala
    <3>2. CASE t = s
      <4>1. FalaDe(x, rasc[s], d, h)  BY <1>1, <2>4, <3>2
      <4>2. CASE PorLigar(x, d, h)  BY <1>5, <1>8, <1>10, <4>2
      <4>3. CASE ~PorLigar(x, d, h)
        <5>1. FalaDe(sync[s], rasc[s], d, h)  BY <1>3, <4>1, <4>3 DEF FalaDe
        <5> QED  BY <5>1 DEF Fala
      <4> QED  BY <4>2, <4>3
    <3> QED  BY <3>1, <3>2
  <2> QED  BY <2>1, <2>2, <2>3, <2>4
<1>12. SyncsOK'
  <2>1. PassoOK(s)'
    <3>1. x.acao = "excluir" => x.g = x.lista[e0].g  BY <1>3, <1>5
    <3>2. x.acao \in {"excluir", "vincular"} /\ g0 \in Remotos  BY <1>5
    <3> QED  BY ONLY <1>1, <1>2, <1>3, <1>6, <3>1, <3>2 DEF PassoOK
  <2>2. RascunhoOK(s)' /\ ListaOK(s)' /\ NovoOK(s)'
    BY ONLY <1>1, <1>2, <1>3, <1>6 DEF RascunhoOK, ListaOK, NovoOK
  <2>3. ASSUME NEW t \in Syncs, t # s PROVE PassoOK(t)' /\ RascunhoOK(t)' /\ ListaOK(t)' /\ NovoOK(t)'
    <3>1. PassoOK(t) /\ RascunhoOK(t) /\ ListaOK(t) /\ NovoOK(t)  BY DEF SyncsOK
    <3>2. PassoOK(t)' /\ RascunhoOK(t)' /\ ListaOK(t)'
      BY ONLY <1>1, <1>2, <2>3, <3>1 DEF PassoOK, RascunhoOK, ListaOK
    <3>3. NovoOK(t)'  BY ONLY <1>1, <1>2, <1>3, <1>6, <2>3, <3>1 DEF NovoOK
    <3> QED  BY <3>2, <3>3
  <2>4. ASSUME NEW t \in Syncs, NEW u \in Syncs, t # u PROVE Separados(t, u)'
    <3>1. Separados(t, u)  BY <2>4 DEF SyncsOK
    <3> QED  BY ONLY <1>1, <1>2, <1>3, <2>4, <3>1 DEF Separados
  <2> QED  BY <2>1, <2>2, <2>3, <2>4 DEF SyncsOK
<1>13. ASSUME NEW h \in Remotos PROVE Intacto(h)' /\ VersaoOK(h)'
  <2>1. Intacto(h) /\ VersaoOK(h)  OBVIOUS
  <2>2. CASE h = g0
    <3>1. n.ver > 0  BY <1>1, <1>3 DEF RemotoT
    <3> QED  BY <1>1, <1>3, <2>2, <3>1 DEF Intacto, VersaoOK
  <2>3. CASE h # g0
    <3>1. \A d \in Eventos : Fala(d, h)' => Fala(d, h)  BY <1>11, <2>3
    <3> QED  BY ONLY <1>1, <1>2, <1>3, <2>1, <2>3, <3>1 DEF Intacto, VersaoOK
  <2> QED  BY <2>2, <2>3
<1>14. ASSUME NEW d \in Eventos PROVE NaoNascido(d)'
  <2>1. NaoNascido(d)  OBVIOUS
  <2>2. evento[d].st = "livre" => n.dono # d  BY <1>5, <1>6, <2>1 DEF NaoNascido
  <2> QED  BY ONLY <1>1, <1>2, <1>3, <2>1, <2>2 DEF NaoNascido
<1>15. UmId'
  <2> SUFFICES ASSUME NEW d \in Eventos, d \notin duvidosos', NEW g \in Remotos, NEW h \in Remotos,
                      Fala(d, g)', Fala(d, h)'
               PROVE  g = h
    BY DEF UmId
  <2>1. /\ Fala(d, g) \/ (d = e0 /\ g = g0 /\ x.lista[e0].g = SemRemoto)
        /\ Fala(d, h) \/ (d = e0 /\ h = g0 /\ x.lista[e0].g = SemRemoto)
    BY <1>11
  <2>2. Fala(d, g) /\ Fala(d, h) => g = h  BY <1>2 DEF UmId
  <2>3. ASSUME d = e0, x.lista[e0].g = SemRemoto PROVE ~Fala(d, g) /\ ~Fala(d, h)
    <3>1. e0 \notin duvidosos /\ sync[s].junto = "nao"
      <4>1. sync[s].junto # "sim"  BY <1>5, <2>3, NomesAgenda
      <4> QED  BY <1>1, <1>2, <2>3, <4>1 DEF SyncT
    <3>2. ACriar(s) /\ e0 # sync[s].e  BY <1>6, NomesAgenda
    <3> QED  BY <1>3, <2>3, <3>1, <3>2 DEF ACriar
  <2> QED  BY <2>1, <2>2, <2>3
<1>16. \A t \in Syncs, d \in Eventos : Elo(t, d)' = Elo(t, d)  BY <1>2 DEF Elo
<1>17. Unicos'
  <2>1. Unicos  OBVIOUS
  <2> QED  BY ONLY <1>2, <1>16, <2>1, <1>6, SyncTem DEF Unicos
<1>18. Listados'
  <2>1. Listados  OBVIOUS
  <2> QED  BY ONLY <1>1, <1>2, <1>3, <2>1 DEF Listados
\* Where it is the copy of this event, it is linked already or nobody knows it.
<1>19. ASSUME NEW d \in Eventos, d \notin duvidosos', n.dono = d
       PROVE  \/ google[g0].dono = d /\ x.acao = "excluir"
              \/ d = e0 /\ elo[d].g = g0
              \/ d = e0 /\ google[g0].st = "livre"
  BY <1>1, <1>2, <1>3, <1>5, <1>19, NomesAgenda DEF Listados
<1>20. CopiasOK'
  <2> SUFFICES ASSUME NEW e \in Eventos, NEW g \in Remotos, Certo(e)', google'[g].dono = e
               PROVE  CopiaDe(e, g)'
    BY DEF CopiasOK
  <2>1. Certo(e) /\ e \notin duvidosos'  BY <1>2 DEF Certo
  <2>2. ASSUME CopiaDe(e, g), g # g0 \/ x.acao = "excluir" PROVE CopiaDe(e, g)'
    <3>1. \A d : ~PorLigar(x, d, g)  BY <1>8, <2>2
    <3> QED  BY ONLY <1>1, <1>2, <1>3, <2>2, <3>1 DEF CopiaDe
  <2>3. CASE g # g0
    <3>1. CopiaDe(e, g)  BY <1>1, <2>1, <2>3 DEF CopiasOK
    <3> QED  BY <2>2, <2>3, <3>1
  <2>4. CASE g = g0 /\ google[g0].dono = e /\ x.acao = "excluir"
    <3>1. CopiaDe(e, g)  BY <2>1, <2>4 DEF CopiasOK
    <3> QED  BY <2>2, <2>4, <3>1
  <2>5. CASE g = g0 /\ e = e0 /\ elo[e].g = g0
    <3>1. \A d \in Eventos \ {e} : elo[d].g # g  BY <2>5, NomesAgenda DEF Unicos
    <3>2. \A t \in Syncs, d \in Eventos \ {e} : d \in DOMAIN rasc[t].elo => rasc[t].elo[d].g # g
      <4> SUFFICES ASSUME NEW t \in Syncs, NEW d \in Eventos \ {e}, d \in DOMAIN rasc[t].elo
                   PROVE  rasc[t].elo[d].g # g
        OBVIOUS
      <4>1. rasc[t].elo[d].g # Elo(t, e).g  BY DEF Unicos
      <4>2. Elo(t, e).g = g
        <5>1. CASE e \notin DOMAIN rasc[t].elo  BY <2>5, <5>1 DEF Elo
        <5>2. CASE e \in DOMAIN rasc[t].elo
          <6>1. rasc[t].elo[e].g \in Remotos  BY <5>2, <1>6, SyncTem DEF SyncsOK, RascunhoOK, EloT
          <6>2. Fala(e, rasc[t].elo[e].g) /\ Fala(e, g)  BY <2>5, <5>2 DEF Fala, FalaDe
          <6>3. rasc[t].elo[e].g = g  BY <2>1, <6>1, <6>2 DEF UmId, Certo
          <6> QED  BY <5>2, <6>3 DEF Elo
        <5> QED  BY <5>1, <5>2
      <4> QED  BY <4>1, <4>2
    <3> QED  BY ONLY <1>2, <2>5, <3>1, <3>2 DEF CopiaDe
  <2>6. CASE g = g0 /\ e = e0 /\ google[g0].st = "livre"
    <3>1. \A d \in Eventos : ~Fala(d, g)  BY <1>9, <2>6
    <3>2. \A d \in Eventos : elo[d].g # g  BY <3>1 DEF Fala
    <3>3. \A t \in Syncs, d \in Eventos : d \in DOMAIN rasc[t].elo => rasc[t].elo[d].g # g
      BY <3>1 DEF Fala, FalaDe
    <3>4. \A t \in Syncs, d \in Eventos : ~PorLigar(sync[t], d, g)  BY <3>1 DEF Fala, FalaDe
    <3>5. \A d \in Eventos \ {e} : ~PorLigar(x, d, g)  BY <1>8, <2>6
    <3>6. \A t \in Syncs : g \notin DOMAIN sync[t].itens  BY <1>9, <2>6
    <3> QED  BY ONLY <1>1, <1>2, <1>3, <3>2, <3>3, <3>4, <3>5, <3>6 DEF CopiaDe
  <2> QED  BY <1>1, <1>19, <2>1, <2>3, <2>4, <2>5, <2>6
<1>21. PuxadosOK'
  <2> SUFFICES ASSUME direcao # "sistema_google", NEW e \in Eventos, NEW g \in Remotos, Certo(e)',
                      google'[g].dono = e
               PROVE  PassadoOK(e, g)'
    BY <1>2 DEF PuxadosOK
  <2>1. Certo(e) /\ e \notin duvidosos'  BY <1>2 DEF Certo
  <2>2. /\ google[g].ver \in Nat /\ google'[g].ver \in Nat /\ google'[g].ver >= google[g].ver
        /\ token[g] \in Nat /\ \A t \in Syncs : sync[t].token[g] \in Nat /\ sync'[t].token = sync[t].token
    <3>1. google[g] \in RemotoT /\ google'[g] \in RemotoT  BY <1>1
    <3>2. google[g].ver \in Nat /\ google'[g].ver \in Nat  BY <3>1 DEF RemotoT
    <3>3. google'[g].ver >= google[g].ver
      <4>1. CASE g = g0  BY <1>1, <1>3, <3>2, <4>1
      <4>2. CASE g # g0  BY <1>1, <3>2, <4>2
      <4> QED  BY <4>1, <4>2
    <3>4. token[g] \in Nat  BY <1>6 DEF TipoGoogle
    <3>5. \A t \in Syncs : sync[t].token[g] \in Nat  BY <1>1 DEF SyncT
    <3>6. \A t \in Syncs : sync'[t].token = sync[t].token  BY <1>1, <1>3
    <3> QED  BY <3>2, <3>3, <3>4, <3>5, <3>6
  <2>3. ASSUME google[g].dono = e PROVE PassadoOK(e, g)'
    <3>1. PassadoOK(e, g)  BY <2>1, <2>3 DEF PuxadosOK
    <3> QED  BY ONLY <1>1, <1>2, <1>3, <1>16, <2>2, <3>1 DEF PassadoOK, ViuOK
  <2>4. CASE g = g0 /\ e = e0 /\ elo[e].g = g0
    <3>1. elo[e].g # SemRemoto  BY <2>4, NomesAgenda
    <3>2. \A t \in Syncs : Elo(t, e).g # SemRemoto  BY <3>1 DEF SyncsOK, RascunhoOK, Elo
    <3> QED  BY ONLY <1>2, <1>16, <3>1, <3>2 DEF PassadoOK, ViuOK
  <2>5. CASE g = g0 /\ e = e0 /\ google[g0].st = "livre"
    <3>1. google'[g].ver > 0  BY <1>1, <1>3, <2>2, <2>5
    <3>2. token[g] = 0 /\ \A t \in Syncs : sync[t].token[g] = 0 /\ g \notin DOMAIN sync[t].itens
      BY <1>9, <2>5
    <3>3. \A t \in Syncs : PassoOK(t)  BY DEF SyncsOK
    <3>4. \A t \in Syncs : sync[t].passo = "aplicar" => sync[t].g # g  BY <3>2, <3>3 DEF PassoOK
    <3> QED  BY ONLY <1>1, <1>2, <1>3, <2>2, <3>1, <3>2, <3>4 DEF PassadoOK, ViuOK
  <2> QED  BY <1>1, <1>19, <2>1, <2>3, <2>4, <2>5
<1>22. SemPull'
  <2> SUFFICES ASSUME direcao = "sistema_google", NEW e \in Eventos, e \notin duvidosos',
                      NEW g \in Remotos, google'[g].dono = e
               PROVE  elo[e].g = g \/ \E t \in Syncs : e \in DOMAIN rasc[t].elo \/ PorLigar(sync'[t], e, g)
    BY <1>2 DEF SemPull
  <2>1. CASE google[g].dono = e
    <3>1. \/ elo[e].g = g
          \/ \E t \in Syncs : e \in DOMAIN rasc[t].elo \/ PorLigar(sync[t], e, g)
      BY <1>2, <2>1 DEF SemPull
    <3> QED  BY <1>1, <1>7, <3>1
  <2>2. CASE google[g].dono # e
    <3>1. g = g0 /\ e = e0 /\ x.acao = "vincular"  BY <1>1, <1>5, <2>2
    <3>2. PorLigar(x, e, g)  BY <1>8, <3>1
    <3> QED  BY <1>1, <3>2
  <2> QED  BY <2>1, <2>2
<1>23. ASSUME NEW t \in Syncs PROVE SozinhoViu(t)' /\ ACriar(t)'
  <2>1. CASE t # s
    <3>1. sync[t].passo = "livre" \/ sync[t].junto = "sim"  BY <1>3, <2>1 DEF SyncsOK, Separados
    <3>2. sync[t].junto # "nao" \/ sync[t].passo = "livre"  BY <3>1
    <3> QED  BY <1>1, <2>1, <3>2 DEF SozinhoViu, ACriar
  <2>2. CASE t = s
    <3>1. SozinhoViu(s)'  BY <1>1, <1>3 DEF SozinhoViu
    <3>2. ASSUME x.junto = "nao", NEW d \in DOMAIN x.lista, d \notin duvidosos', d # x.e,
                 x.lista[d].g = SemRemoto, NEW h \in Remotos
          PROVE  ~Fala(d, h)'
      <4>1. d \in Eventos /\ d \notin duvidosos /\ d # sync[s].e /\ d # e0
        BY <1>2, <1>3, <1>6, <3>2, NomesAgenda
      <4>2. ACriar(s)  OBVIOUS
      <4>3. ~Fala(d, h)  BY <1>3, <3>2, <4>1, <4>2 DEF ACriar
      <4> QED  BY <1>11, <4>1, <4>3
    <3>3. ACriar(s)'  BY ONLY <1>1, <1>3, <3>2 DEF ACriar
    <3> QED  BY <2>2, <3>1, <3>3
  <2> QED  BY <2>1, <2>2
<1> QED  BY <1>4, <1>12, <1>13, <1>14, <1>15, <1>17, <1>18, <1>20, <1>21, <1>22, <1>23

LEMMA EnviarEnvia ==
    ASSUME IInvGoogle, NEW s \in Syncs, Enviar(s)
    PROVE  \E x \in SyncT, n \in RemotoT, e0 \in Eventos, g0 \in Remotos : Envio(s, x, n, e0, g0)
<1> PICK e : e = Min(DOMAIN sync[s].lista)  BY Zenon
<1> PICK lido : lido = sync[s].lista[e]  BY Zenon
<1>1. /\ sync[s].passo = "enviar" /\ DOMAIN sync[s].lista # {}
      /\ UNCHANGED <<direcao, token, evento, elo, rasc, edicao, relogio, acertado, tardias,
                   puladas>>
  BY Zenon DEF Enviar, tabelasAgenda, fixoAgenda
<1>2. /\ TipoGoogle /\ sync[s] \in SyncT /\ DOMAIN sync[s].lista \subseteq Eventos
      /\ \A d \in DOMAIN sync[s].lista : sync[s].lista[d] \in ListadoT
      /\ google \in [Remotos -> RemotoT] /\ duvidosos \subseteq Eventos
  BY SyncTem DEF IInvGoogle, TipoGoogle
<1>3. e \in DOMAIN sync[s].lista /\ e \in Eventos
  <2>1. DOMAIN sync[s].lista \in SUBSET Nat  BY <1>2, EventosOrdenados
  <2> QED  BY <1>1, <1>2, <2>1, MenorDeles
<1>4. lido.g \in Remotos \cup {SemRemoto} /\ lido.ev.cont \in Nat
  BY <1>2, <1>3 DEF ListadoT, EventoT
\* What it says of itself after the call.
<1>5. ASSUME NEW g \in Remotos, NEW acao \in {"excluir", "vincular"}, Enviado(s, e, g, acao)
      PROVE  \E x \in SyncT :
                /\ sync' = [sync EXCEPT ![s] = x] /\ x.passo = "anotar" /\ x.e = e /\ x.g = g
                /\ x.acao = acao /\ x.junto = sync[s].junto /\ x.token = sync[s].token
                /\ x.itens = sync[s].itens /\ x.lista = sync[s].lista /\ x.inicio = sync[s].inicio
                /\ x.calmo = sync[s].calmo /\ x.ver = google[g].ver + 1
  <2> PICK v : v = google[g].ver + 1  BY Zenon
  <2> PICK x : x = [sync[s] EXCEPT !.passo = "anotar", !.e = e, !.g = g, !.acao = acao, !.ver = v]
    BY Zenon
  <2>1. sync' = [sync EXCEPT ![s] = x]  BY Zenon, <1>5 DEF Enviado, Seguir
  <2>2. v \in Nat
    <3>1. google[g] \in RemotoT  BY Zenon, <1>2
    <3>2. google[g].ver \in Nat  BY ONLY <3>1 DEF RemotoT
    <3> QED  BY ONLY <3>2, v = google[g].ver + 1
  <2>3. /\ x \in SyncT /\ x.passo = "anotar" /\ x.e = e /\ x.g = g /\ x.acao = acao
        /\ x.junto = sync[s].junto /\ x.token = sync[s].token /\ x.itens = sync[s].itens
        /\ x.lista = sync[s].lista /\ x.inicio = sync[s].inicio
        /\ x.calmo = sync[s].calmo /\ x.ver = v
    BY ONLY <1>2, <1>3, <1>5, <2>2, acao \in {"excluir", "vincular"}, g \in Remotos,
            x = [sync[s] EXCEPT !.passo = "anotar", !.e = e, !.g = g, !.acao = acao, !.ver = v]
       DEF SyncT, PassosSync, AcoesSync
  <2> QED  BY Zenon, <2>1, <2>3
<1>6. ASSUME lido.g # SemRemoto, lido.ev.st # "vivo", google[lido.g].st = "vivo",
             google' = [google EXCEPT ![lido.g].st = "cancelado", ![lido.g].ver = @ + 1],
             Enviado(s, e, lido.g, "excluir"), duvidosos' = duvidosos
      PROVE  \E x \in SyncT, n \in RemotoT, e0 \in Eventos, g0 \in Remotos : Envio(s, x, n, e0, g0)
  <2> PICK g : g = lido.g  BY Zenon
  <2>1. g \in Remotos  BY Zenon, <1>4, <1>6
  <2> PICK n : n = [google[g] EXCEPT !.st = "cancelado", !.ver = google[g].ver + 1]  BY Zenon
  <2>2. /\ n \in RemotoT /\ n.st = "cancelado" /\ n.ver = google[g].ver + 1
        /\ n.dono = google[g].dono
    <3>1. google[g] \in RemotoT  BY ONLY <1>2, <2>1
    <3>2. google[g].ver + 1 \in Nat  BY ONLY <3>1 DEF RemotoT
    <3>3. n = [st |-> "cancelado", cont |-> google[g].cont, ver |-> google[g].ver + 1,
               dono |-> google[g].dono]
      BY ONLY <3>1, n = [google[g] EXCEPT !.st = "cancelado", !.ver = google[g].ver + 1] DEF RemotoT
    <3>4. google[g].cont \in Nat /\ google[g].dono \in Eventos \cup {SemEvento}
      BY ONLY <3>1 DEF RemotoT
    <3> QED  BY ONLY <3>2, <3>3, <3>4 DEF RemotoT
  <2>3. google' = [google EXCEPT ![g] = n]
    BY ONLY <1>2, <1>6, <2>1, g = lido.g,
            n = [google[g] EXCEPT !.st = "cancelado", !.ver = google[g].ver + 1]
  <2> PICK x \in SyncT :
        /\ sync' = [sync EXCEPT ![s] = x] /\ x.passo = "anotar" /\ x.e = e /\ x.g = g
        /\ x.acao = "excluir" /\ x.junto = sync[s].junto /\ x.token = sync[s].token
        /\ x.itens = sync[s].itens /\ x.lista = sync[s].lista /\ x.inicio = sync[s].inicio
        /\ x.calmo = sync[s].calmo /\ x.ver = google[g].ver + 1
    BY Zenon, <1>5, <1>6, <2>1
  <2>4. Envio(s, x, n, e, g)
    BY Zenon, <1>1, <1>2, <1>3, <1>6, <2>2, <2>3 DEF Envio
  <2> QED  BY Zenon, <1>3, <2>1, <2>2, <2>4
\* A copy is written over, or made.
<1>7. ASSUME NEW g \in Remotos,
             google' = [google EXCEPT ![g] = [st |-> "vivo", cont |-> lido.ev.cont,
                                              ver |-> google[g].ver + 1, dono |-> e]],
             Enviado(s, e, g, "vincular"), duvidosos \subseteq duvidosos', duvidosos' \subseteq Eventos,
             sync[s].junto = "nao" => duvidosos' = duvidosos,
             \/ lido.g = g
             \/ /\ lido.g = SemRemoto /\ google[g].st = "livre"
                /\ sync[s].junto = "sim" => e \in duvidosos'
      PROVE  \E x \in SyncT, n \in RemotoT, e0 \in Eventos, g0 \in Remotos : Envio(s, x, n, e0, g0)
  <2> PICK n : n = [st |-> "vivo", cont |-> lido.ev.cont, ver |-> google[g].ver + 1, dono |-> e]
    BY Zenon
  <2>1. /\ n \in RemotoT /\ n.st = "vivo" /\ n.ver = google[g].ver + 1 /\ n.dono = e
        /\ n.cont = lido.ev.cont
    <3>1. google[g].ver + 1 \in Nat  BY <1>2 DEF RemotoT
    <3> QED  BY <1>3, <1>4, <3>1 DEF RemotoT
  <2>2. google' = [google EXCEPT ![g] = n]  BY Zenon, <1>7
  <2> PICK x \in SyncT :
        /\ sync' = [sync EXCEPT ![s] = x] /\ x.passo = "anotar" /\ x.e = e /\ x.g = g
        /\ x.acao = "vincular" /\ x.junto = sync[s].junto /\ x.token = sync[s].token
        /\ x.itens = sync[s].itens /\ x.lista = sync[s].lista /\ x.inicio = sync[s].inicio
        /\ x.calmo = sync[s].calmo /\ x.ver = google[g].ver + 1
    BY Zenon, <1>5, <1>7
  <2>3. Envio(s, x, n, e, g)
    BY <1>1, <1>3, <1>7, <2>1, <2>2 DEF Envio
  <2> QED  BY Zenon, <1>3, <2>1, <2>3
<1>8. \/ /\ lido.g # SemRemoto /\ lido.ev.st # "vivo" /\ google[lido.g].st = "vivo"
         /\ google' = [google EXCEPT ![lido.g].st = "cancelado", ![lido.g].ver = @ + 1]
         /\ Enviado(s, e, lido.g, "excluir") /\ duvidosos' = duvidosos
      \/ \E g \in Remotos :
            /\ google' = [google EXCEPT ![g] = [st |-> "vivo", cont |-> lido.ev.cont,
                                                ver |-> google[g].ver + 1, dono |-> e]]
            /\ Enviado(s, e, g, "vincular") /\ duvidosos \subseteq duvidosos'
            /\ duvidosos' \subseteq Eventos /\ (sync[s].junto = "nao" => duvidosos' = duvidosos)
            /\ \/ lido.g = g
               \/ /\ lido.g = SemRemoto /\ google[g].st = "livre"
                  /\ sync[s].junto = "sim" => e \in duvidosos'
  <2>1. \/ /\ lido.g # SemRemoto /\ lido.ev.st # "vivo" /\ google[lido.g].st = "vivo"
           /\ google' = [google EXCEPT ![lido.g].st = "cancelado", ![lido.g].ver = @ + 1]
           /\ Enviado(s, e, lido.g, "excluir") /\ duvidosos' = duvidosos
        \/ /\ lido.g # SemRemoto /\ lido.ev.st = "vivo"
           /\ google' = [google EXCEPT ![lido.g] = [st |-> "vivo", cont |-> lido.ev.cont,
                                                ver |-> google[lido.g].ver + 1, dono |-> e]]
           /\ Enviado(s, e, lido.g, "vincular") /\ duvidosos' = duvidosos
        \/ \E g \in Remotos :
              /\ lido.g = SemRemoto /\ google[g].st = "livre"
              /\ google' = [google EXCEPT ![g] = [st |-> "vivo", cont |-> lido.ev.cont,
                                                ver |-> google[g].ver + 1, dono |-> e]]
              /\ Enviado(s, e, g, "vincular")
              /\ duvidosos' = IF sync[s].junto = "sim" THEN duvidosos \cup {e} ELSE duvidosos
    BY Zenon DEF Enviar
  <2> QED  BY Zenon, <1>2, <1>3, <1>4, <2>1
<1> QED  BY ONLY <1>6, <1>7, <1>8

LEMMA EnviarSegue ==
    ASSUME IInvGoogle, NEW s \in Syncs, Enviar(s)
    PROVE  IInvGoogle'
  BY Zenon, EnviarEnvia, EnvioSegue

LEMMA QuedaSegue ==
    ASSUME IInvGoogle, NEW s \in Syncs, Cair(s) \/ Violar(s)
    PROVE  IInvGoogle'
<1>1. Desfazer(s)  BY DEF Cair, Violar
<1> QED  BY <1>1, DesfazerSegue

LEMMA InicioGoogle == ASSUME InitAgenda PROVE IInvGoogle
<1>1. /\ token = SemToken /\ evento = [e \in Eventos |-> EventoLivre] /\ direcao \in Direcoes
      /\ elo = [e \in Eventos |-> SemElo] /\ google = [g \in Remotos |-> RemotoLivre]
      /\ sync = [s \in Syncs |-> SyncLivre] /\ rasc = [s \in Syncs |-> SemRascunho]
      /\ edicao = [r \in Edicoes |-> EdicaoLivre] /\ relogio = 0 /\ duvidosos = {}
  BY DEF InitAgenda
<1>2. /\ SemRascunho \in RascunhoT /\ SyncLivre \in SyncT /\ EdicaoLivre \in EdicaoT
      /\ SemElo \in EloT /\ EventoLivre \in EventoT /\ RemotoLivre \in RemotoT
      /\ DOMAIN SemRascunho.ev = {} /\ DOMAIN SemRascunho.elo = {}
      /\ DOMAIN SyncLivre.itens = {} /\ DOMAIN SyncLivre.lista = {}
  BY LivresTipo
<1> PICK y \in SyncT : y = SyncLivre  BY <1>2
<1> PICK q \in RascunhoT : q = SemRascunho  BY <1>2
<1>3. /\ y.passo = "livre" /\ y.g = SemRemoto /\ y.e = SemEvento /\ y.acao = "nada" /\ y.inicio = 0
      /\ DOMAIN y.itens = {} /\ DOMAIN y.lista = {} /\ \A g \in Remotos : y.token[g] = 0
      /\ DOMAIN q.ev = {} /\ DOMAIN q.elo = {}
  BY <1>2 DEF SyncLivre, SemToken
<1>4. \A s \in Syncs : sync[s] = y /\ rasc[s] = q  BY <1>1
<1>5. \A e \in Eventos : evento[e].st = "livre" /\ elo[e].g = SemRemoto
  BY <1>1 DEF EventoLivre, SemElo
<1>6. \A g \in Remotos : /\ google[g].st = "livre" /\ google[g].ver = 0
                         /\ google[g].dono = SemEvento /\ token[g] = 0
  BY <1>1 DEF RemotoLivre, SemToken
<1>7. TipoGoogle
  <2>1. token \in [Remotos -> Nat]  BY <1>1 DEF SemToken
  <2> QED  BY <1>1, <1>2, <2>1 DEF TipoGoogle
<1>8. \A e \in Eventos, g \in Remotos : ~Fala(e, g)
  <2>1. \A e, g : ~FalaDe(y, q, e, g)  BY <1>3 DEF FalaDe, PorLigar
  <2> QED  BY <1>4, <1>5, <1>6, <2>1, NomesAgenda DEF Fala
<1>9. SyncsOK
  <2>1. ASSUME NEW s \in Syncs PROVE PassoOK(s) /\ RascunhoOK(s) /\ ListaOK(s) /\ NovoOK(s)
    <3>1. sync[s] = [SyncLivre EXCEPT !.calmo = sync[s].calmo] /\ rasc[s] = SemRascunho
      BY <1>1 DEF SyncLivre
    <3>2. PassoOK(s)  BY ONLY <1>3, <1>4, <3>1 DEF PassoOK
    <3>3. relogio = 0  BY <1>1
    <3> QED  BY ONLY <1>3, <1>4, <3>2, <3>3 DEF RascunhoOK, ListaOK, NovoOK
  <2>2. \A s, t \in Syncs : Separados(s, t)  BY ONLY <1>3, <1>4 DEF Separados
  <2> QED  BY <2>1, <2>2 DEF SyncsOK
<1>10. \A g \in Remotos : Intacto(g) /\ VersaoOK(g)
  BY ONLY <1>3, <1>4, <1>6, <1>8 DEF Intacto, VersaoOK
<1>11. \A e \in Eventos : NaoNascido(e)
  BY ONLY <1>3, <1>4, <1>5, <1>6, NomesAgenda DEF NaoNascido
<1>12. UmId  BY ONLY <1>8 DEF UmId
<1>13. Unicos /\ Listados  BY ONLY <1>3, <1>4, <1>5 DEF Unicos, Listados
<1>14. CopiasOK /\ PuxadosOK /\ SemPull
  BY ONLY <1>6, NomesAgenda DEF CopiasOK, PuxadosOK, SemPull, Certo
<1>15. \A s \in Syncs : SozinhoViu(s) /\ ACriar(s)
  BY ONLY <1>3, <1>4 DEF SozinhoViu, ACriar
<1> QED  BY <1>7, <1>9, <1>10, <1>11, <1>12, <1>13, <1>14, <1>15 DEF IInvGoogle

LEMMA PassoGoogle == IInvGoogle /\ [NextAgenda]_varsAgenda => IInvGoogle'
<1> SUFFICES ASSUME IInvGoogle, [NextAgenda]_varsAgenda PROVE IInvGoogle'
  OBVIOUS
<1>1. ASSUME NEW g \in Remotos, GoogleCria(g) \/ \E st \in {"vivo", "cancelado"} : GoogleAltera(g, st)
      PROVE  IInvGoogle'
  BY ONLY IInvGoogle, <1>1, GoogleCriaSegue, GoogleAlteraSegue
<1>2. ASSUME NEW e \in Eventos, CriarEvento(e) PROVE IInvGoogle'
  BY ONLY IInvGoogle, <1>2, CriarEventoSegue
<1>3. ASSUME NEW r \in Edicoes,
             \/ GravarEvento(r)
             \/ \E e \in Eventos, tipo \in {"vivo", "cancelado", "excluido"} : LerEvento(r, e, tipo)
      PROVE  IInvGoogle'
  BY ONLY IInvGoogle, <1>3, GravarEventoSegue, LerEventoSegue
<1>4. ASSUME NEW s \in Syncs,
             \/ Sincronizar(s) \/ Buscar(s) \/ Aplicar(s) \/ Ignorar(s) \/ FimDaBusca(s)
             \/ \E g \in Remotos : Pular(s, g) \/ Escolher(s, g)
             \/ LerEventos(s) \/ Enviar(s) \/ Anotar(s)
             \/ Concluir(s) \/ Falhar(s) \/ Cair(s) \/ Violar(s)
      PROVE  IInvGoogle'
  BY ONLY IInvGoogle, <1>4, SincronizarSegue, BuscarSegue, AplicarSegue, IgnorarSegue, FimDaBuscaSegue,
     PularSegue, EscolherSegue, LerEventosSegue, EnviarSegue, AnotarSegue, ConcluirSegue, FalharSegue, QuedaSegue
<1>5. CASE UNCHANGED varsAgenda
  <2>1. /\ direcao' = direcao /\ token' = token /\ evento' = evento /\ elo' = elo /\ google' = google
        /\ sync' = sync /\ rasc' = rasc /\ edicao' = edicao /\ relogio' = relogio
        /\ duvidosos' = duvidosos
    BY <1>5 DEF varsAgenda
  <2> QED
    BY ONLY IInvGoogle, <2>1
       DEF IInvGoogle, TipoGoogle, SyncsOK, PassoOK, RascunhoOK, ListaOK, NovoOK, Separados, Intacto, VersaoOK,
           NaoNascido, UmId, Unicos, Listados, CopiasOK, CopiaDe, Certo, PuxadosOK, PassadoOK, ViuOK, SemPull,
           SozinhoViu, ACriar, Fala, Elo
<1> QED  BY <1>1, <1>2, <1>3, <1>4, <1>5 DEF NextAgenda

\* No event is twice in the Google calendar, whatever crashes, fails or is sent
\* again, for any number of events, synchronizations, handlers and people, as
\* long as no two overlapping synchronizations created it, the agenda pulls what
\* a lost push left there, and no pull passes over that copy (_pull, _push,
\* _import_one; docs/integracao-google-agenda.md:13-15, 80-82).
THEOREM CopiaSempreUnica == SpecAgenda => []UmaCopia
<1>1. IInvGoogle => UmaCopia
  <2> SUFFICES ASSUME IInvGoogle, NEW e \in Eventos \ duvidosos PROVE Cardinality(Copias(e)) <= 1
    BY DEF UmaCopia
  <2>1. \A g, h \in Copias(e) : g = h  BY DEF Copias, IInvGoogle, UmId, Fala
  <2>2. CASE Copias(e) = {}  BY <2>2, FS_EmptySet
  <2>3. CASE Copias(e) # {}
    <3>1. PICK g : Copias(e) = {g}  BY <2>1, <2>3
    <3>2. Cardinality({g}) = 1  BY FS_Singleton
    <3> QED  BY <3>1, <3>2
  <2> QED  BY <2>2, <2>3
<1> QED  BY <1>1, InicioGoogle, PassoGoogle, PTL DEF SpecAgenda

-----------------------------------------------------------------------------
(***************************************************************************)
(* Synchronizations in both directions that never overlapped: what makes   *)
(* one that nobody disturbs leave both calendars equal.                    *)
(***************************************************************************)

\* A link l of an event that is v: it is behind the copy only where a pull is
\* going to see it, or passed over it, and at the copy only with its contents.
LigadoOK(e, l, v, visto, resta, remotos, pulou, tarde) ==
    l.g # SemRemoto =>
        /\ l.ver <= remotos[l.g].ver
        /\ l.ver < remotos[l.g].ver =>
              visto[l.g] < remotos[l.g].ver \/ l.g \in resta \/ l.g \in pulou
        /\ l.ver = remotos[l.g].ver /\ e \notin tarde /\ v.st = "vivo" /\ v.mod <= l.sist =>
              remotos[l.g].st = "vivo" /\ remotos[l.g].cont = v.cont

\* An event and its copy, once they agree.
IgualOK(e, l, v, remotos, pulou, tarde) ==
    /\ v.st \in {"vivo", "cancelado"} => l.g # SemRemoto
    /\ v.st = "vivo" /\ e \notin tarde =>
          \/ remotos[l.g].st = "vivo" /\ remotos[l.g].cont = v.cont
          \/ l.g \in pulou

\* The copies that a pull passed over as they are.
Passadas == {g \in Remotos : Passada(g)}

\* A copy that a link knows, or that was passed over.
Sabido(g) == g \in Passadas \/ \E e \in Eventos : elo[e].g = g
SabidoPor(s, g) == g \in Passadas \/ \E e \in Eventos : Elo(s, e).g = g

\* The committed tables.
TabelasOK ==
    /\ \A g \in Remotos : token[g] <= google[g].ver
    /\ \A e \in Eventos : LigadoOK(e, elo[e], evento[e], token, {}, google, Passadas, tardias)
    /\ \A g \in Remotos : google[g].st = "vivo" /\ google[g].ver <= token[g] => Sabido(g)
AcertadasOK ==
    acertado = "sim" =>
        /\ \A r \in Edicoes : edicao[r] = EdicaoLivre
        /\ \A e \in Eventos : IgualOK(e, elo[e], evento[e], google, Passadas, tardias)
        /\ \A g \in Remotos : google[g].st = "vivo" => Sabido(g)

\* What a synchronization knows of Google's versions.
TokenOK(s) ==
    /\ sync[s].passo # "fim"
    /\ sync[s].passo = "buscar" => sync[s].token = token
    /\ \A g \in Remotos : token[g] <= sync[s].token[g] /\ sync[s].token[g] <= google[g].ver
    /\ \A g \in DOMAIN sync[s].itens :
          /\ sync[s].itens[g].ver = sync[s].token[g] /\ sync[s].itens[g].st # "livre"
          /\ google[g].ver = sync[s].itens[g].ver => sync[s].itens[g] = google[g]
DecididoOK(s) ==
    sync[s].passo = "aplicar" =>
        /\ sync[s].acao = "nada" =>
              /\ \A e \in Eventos : Elo(s, e).g = sync[s].g =>
                    sync[s].itens[sync[s].g].ver <= Elo(s, e).ver
              /\ sync[s].itens[sync[s].g].st = "vivo" => \E e \in Eventos : Elo(s, e).g = sync[s].g
        /\ sync[s].acao \in {"inserir", "atualizar"} => sync[s].itens[sync[s].g].st = "vivo"

\* What a push has read of an event is what there is, or older.
LidoOK(s) ==
    \A e \in DOMAIN sync[s].lista :
        /\ e \notin DOMAIN rasc[s].elo /\ sync[s].lista[e].g = elo[e].g
        /\ \/ evento[e] = sync[s].lista[e].ev
           \/ e \in tardias
           \/ evento[e].mod > sync[s].lista[e].ev.mod
EnviadoOK(s) ==
    sync[s].passo = "anotar" =>
        /\ sync[s].token[sync[s].g] < sync[s].ver /\ sync[s].ver <= google[sync[s].g].ver
        /\ sync[s].acao = "excluir" =>
              sync[s].lista[sync[s].e].ev.st # "vivo" /\ sync[s].lista[sync[s].e].g # SemRemoto
        /\ sync[s].acao = "vincular" /\ sync[s].ver = google[sync[s].g].ver =>
              /\ google[sync[s].g].st = "vivo"
              /\ google[sync[s].g].cont = sync[s].lista[sync[s].e].ev.cont

\* The tables as it sees them.
VistaOK(s) ==
    /\ \A e \in Eventos :
          LigadoOK(e, Elo(s, e), Ev(s, e), sync[s].token, DOMAIN sync[s].itens, google, Passadas, tardias)
    /\ \A g \in Remotos \ DOMAIN sync[s].itens :
          google[g].st = "vivo" /\ google[g].ver <= sync[s].token[g] => SabidoPor(s, g)

\* What one that nobody disturbs has settled.
CalmaOK(s) ==
    sync[s].calmo = "sim" =>
        /\ \A r \in Edicoes : edicao[r] = EdicaoLivre
        /\ sync[s].passo \in {"importar", "aplicar", "ler"} =>
              \A g \in Remotos : sync[s].token[g] = google[g].ver
        /\ sync[s].passo \in {"enviar", "anotar"} =>
              /\ \A g \in Remotos : google[g].st = "vivo" =>
                    \/ SabidoPor(s, g)
                    \/ sync[s].passo = "anotar" /\ sync[s].acao = "vincular" /\ sync[s].g = g
              /\ \A e \in DOMAIN sync[s].lista : evento[e] = sync[s].lista[e].ev
              /\ \A e \in Eventos \ DOMAIN sync[s].lista :
                    /\ Ev(s, e).st \in {"vivo", "cancelado"} => Elo(s, e).g # SemRemoto
                    /\ Ev(s, e).st = "vivo" => /\ Ev(s, e).mod <= Elo(s, e).sist
                                               /\ \/ Elo(s, e).ver = google[Elo(s, e).g].ver
                                                  \/ Elo(s, e).g \in Passadas
        /\ sync[s].passo = "anotar" /\ sync[s].acao = "vincular" => sync[s].ver = google[sync[s].g].ver

\* What one that starts from equal calendars keeps.
MantidoOK(s) ==
    acertado = "sim" =>
        /\ sync[s].calmo = "sim"
        /\ \A e \in Eventos : IgualOK(e, Elo(s, e), Ev(s, e), google, Passadas, tardias)
        /\ \A e \in DOMAIN sync[s].lista : sync[s].lista[e].g # SemRemoto

AtivaOK(s) ==
    TokenOK(s) /\ DecididoOK(s) /\ LidoOK(s) /\ EnviadoOK(s) /\ VistaOK(s) /\ CalmaOK(s) /\ MantidoOK(s)

Acertos ==
    /\ duvidosos = {} /\ \A s \in Syncs : sync[s].junto = "nao"
    /\ TabelasOK /\ AcertadasOK
    /\ \A s \in Syncs : sync[s].passo # "livre" => AtivaOK(s)
AcertoOK == direcao = "bidirecional" /\ juntas = "nao" /\ duvidosos = {} => Acertos

LEMMA PassadasFicam ==
    ASSUME UNCHANGED <<google, puladas>>
    PROVE  Passadas' = Passadas
  BY DEF Passadas, Passada

\* Another copy changes.
LEMMA PassadasSalvo ==
    ASSUME NEW g, \A h \in Remotos : h # g => google'[h] = google[h], puladas' = puladas
    PROVE  \A h \in Remotos : h # g /\ h \in Passadas => h \in Passadas'
  BY DEF Passadas, Passada

LEMMA Vistas ==
    ASSUME NEW s \in Syncs, rasc[s] = SemRascunho
    PROVE  \A e : Elo(s, e) = elo[e] /\ Ev(s, e) = evento[e]
  BY LivresTipo DEF Elo, Ev

\* A link stays where it is, and so does the one that is on its way.
LEMMA EloFica ==
    ASSUME IInvGoogle, duvidosos = {}, NEW s \in Syncs, NEW e \in Eventos, elo[e].g # SemRemoto
    PROVE  Elo(s, e).g = elo[e].g
<1>1. CASE e \notin DOMAIN rasc[s].elo  BY ONLY <1>1 DEF Elo
<1>2. CASE e \in DOMAIN rasc[s].elo
  <2>1. TipoGoogle /\ UmId /\ RascunhoOK(s)  BY DEF IInvGoogle, SyncsOK
  <2>2. elo[e].g \in Remotos  BY <2>1 DEF TipoGoogle, EloT
  <2>3. rasc[s].elo[e].g \in Remotos
    <3>1. rasc[s].elo[e] \in EloT  BY <1>2, <2>1, SyncTem
    <3> QED  BY ONLY <1>2, <2>1, <3>1 DEF RascunhoOK, EloT
  <2>4. Fala(e, elo[e].g) /\ Fala(e, rasc[s].elo[e].g)  BY <1>2 DEF Fala, FalaDe
  <2>5. rasc[s].elo[e].g = elo[e].g  BY <2>1, <2>2, <2>3, <2>4 DEF UmId
  <2> QED  BY ONLY <1>2, <2>5 DEF Elo
<1> QED  BY ONLY <1>1, <1>2

LEMMA EloUnico ==
    ASSUME IInvGoogle, NEW s \in Syncs, NEW e \in Eventos, NEW d \in Eventos,
           Elo(s, e).g = Elo(s, d).g, Elo(s, e).g # SemRemoto
    PROVE  e = d
  BY DEF IInvGoogle, Unicos, Elo

LEMMA EloAlvo ==
    ASSUME IInvGoogle, duvidosos = {}, NEW s \in Syncs, NEW e \in Eventos, NEW g \in Remotos,
           PorLigar(sync[s], e, g)
    PROVE  Elo(s, e).g \in {SemRemoto, g}
<1>1. TipoGoogle /\ UmId  BY DEF IInvGoogle
<1>2. Elo(s, e).g \in Remotos \cup {SemRemoto}  BY <1>1, EvTem DEF EloT
<1>3. Fala(e, g) /\ Fala(e, Elo(s, e).g)  BY DEF Fala, FalaDe, Elo
<1> QED  BY <1>1, <1>2, <1>3 DEF UmId

LEMMA LigadoGoogle ==
    ASSUME NEW e, NEW l \in EloT, NEW v, NEW visto \in [Remotos -> Nat], NEW resta,
           NEW G \in [Remotos -> RemotoT], NEW H \in [Remotos -> RemotoT], NEW T,
           NEW P, NEW Q, NEW g \in Remotos, \A h \in Remotos : h # g /\ h \in P => h \in Q,
           \A h \in Remotos : h # g => H[h] = G[h], H[g].ver > G[g].ver,
           \A h \in Remotos : visto[h] <= G[h].ver, LigadoOK(e, l, v, visto, resta, G, P, T)
    PROVE  LigadoOK(e, l, v, visto, resta, H, Q, T)
<1> SUFFICES ASSUME l.g # SemRemoto PROVE LigadoOK(e, l, v, visto, resta, H, Q, T)
  BY DEF LigadoOK
<1>1. l.g \in Remotos /\ l.ver \in Nat  BY DEF EloT
<1>2. CASE l.g # g  BY <1>1, <1>2 DEF LigadoOK
<1>3. CASE l.g = g
  <2>1. G[g].ver \in Nat /\ H[g].ver \in Nat /\ visto[g] \in Nat  BY DEF RemotoT
  <2>2. l.ver <= G[g].ver /\ visto[g] <= G[g].ver  BY <1>3 DEF LigadoOK
  <2> QED  BY ONLY <1>1, <1>3, <2>1, <2>2, H[g].ver > G[g].ver DEF LigadoOK
<1> QED  BY <1>2, <1>3

LEMMA TabelasFicam ==
    ASSUME TabelasOK, AcertadasOK,
           UNCHANGED <<token, evento, elo, google, tardias, acertado, edicao, puladas>>
    PROVE  TabelasOK' /\ AcertadasOK'
  BY PassadasFicam DEF TabelasOK, AcertadasOK, Sabido

LEMMA AcertosSeguem ==
    ASSUME IInvGoogle, Acertos, NEW s \in Syncs, sync[s].passo # "livre" \/ Outros(s) = {},
           \A t \in Syncs \ {s} : sync'[t] = sync[t], sync'[s].junto = "nao", duvidosos' = {},
           TabelasOK', AcertadasOK', sync'[s].passo # "livre" => AtivaOK(s)'
    PROVE  Acertos'
<1>1. \A t \in Syncs \ {s} : sync[t].passo = "livre"
  <2>1. sync[s].junto = "nao"  BY DEF Acertos
  <2>2. CASE sync[s].passo # "livre"  BY <2>1, <2>2, SoEla
  <2>3. CASE Outros(s) = {}  BY <2>3 DEF Outros
  <2> QED  BY <2>2, <2>3
<1>2. \A t \in Syncs : sync'[t].junto = "nao"  BY DEF Acertos
<1>3. \A t \in Syncs : sync'[t].passo # "livre" => AtivaOK(t)'  BY <1>1
<1> QED  BY <1>2, <1>3 DEF Acertos

-----------------------------------------------------------------------------
(* People. *)

LEMMA Perturbou ==
    ASSUME IInvGoogle, Acertos, Perturbar, acertado' = "nao", duvidosos' = duvidosos, TabelasOK',
           \A s \in Syncs : sync[s].passo # "livre" =>
               TokenOK(s)' /\ DecididoOK(s)' /\ LidoOK(s)' /\ EnviadoOK(s)' /\ VistaOK(s)'
    PROVE  Acertos'
<1>1. TipoGoogle  BY DEF IInvGoogle
<1>2. \A s \in Syncs : MesmaSync(sync'[s], sync[s])  BY <1>1, Perturbada
<1>3. ASSUME NEW s \in Syncs PROVE sync'[s].calmo = "nao"
  <2>1. sync[s] \in SyncT /\ sync'[s] = [sync[s] EXCEPT !.calmo = "nao"]
    BY <1>1 DEF TipoGoogle, Perturbar
  <2> QED  BY ONLY <2>1 DEF SyncT
<1>4. AcertadasOK'  BY DEF AcertadasOK
<1>5. \A s \in Syncs : CalmaOK(s)' /\ MantidoOK(s)'  BY <1>3 DEF CalmaOK, MantidoOK
<1>6. \A s \in Syncs : sync'[s].junto = "nao" /\ sync'[s].passo = sync[s].passo
  BY <1>2 DEF MesmaSync, Acertos
<1> QED  BY <1>4, <1>5, <1>6 DEF Acertos, AtivaOK

LEMMA GoogleMudou ==
    ASSUME IInvGoogle, IInvGoogle', Acertos, NEW g \in Remotos,
           \A h \in Remotos : h # g => google'[h] = google[h], google'[g].ver > google[g].ver,
           Perturbar, acertado' = "nao",
           UNCHANGED <<token, evento, elo, rasc, tardias, duvidosos, puladas>>
    PROVE  Acertos'
<1>1. TipoGoogle /\ TipoGoogle'  BY DEF IInvGoogle
<1>2. /\ google \in [Remotos -> RemotoT] /\ google' \in [Remotos -> RemotoT]
      /\ token \in [Remotos -> Nat] /\ elo \in [Eventos -> EloT]
      /\ \A h \in Remotos : google[h].ver \in Nat /\ google'[h].ver \in Nat /\ token[h] \in Nat
  BY <1>1 DEF TipoGoogle, RemotoT
<1>3. TabelasOK  BY DEF Acertos
<1>6. \A h \in Remotos : h # g /\ h \in Passadas => h \in Passadas'  BY PassadasSalvo
<1>4. TabelasOK'
  <2>1. \A h \in Remotos : token'[h] <= google'[h].ver
    BY ONLY <1>2, <1>3, token' = token, \A h \in Remotos : h # g => google'[h] = google[h],
            google'[g].ver > google[g].ver DEF TabelasOK
  <2>2. ASSUME NEW e \in Eventos
        PROVE  LigadoOK(e, elo[e], evento[e], token, {}, google', Passadas', tardias)
    <3>1. LigadoOK(e, elo[e], evento[e], token, {}, google, Passadas, tardias)  BY <1>3 DEF TabelasOK
    <3>2. \A h \in Remotos : token[h] <= google[h].ver  BY <1>3 DEF TabelasOK
    <3>3. elo[e] \in EloT  BY <1>2
    <3> QED  BY <1>2, <1>6, <3>1, <3>2, <3>3, LigadoGoogle
  <2>3. ASSUME NEW h \in Remotos, google'[h].st = "vivo", google'[h].ver <= token[h]
        PROVE  Sabido(h)'
    <3>1. h # g
      <4>1. token[g] <= google[g].ver  BY <1>3 DEF TabelasOK
      <4> QED  BY <1>2, <2>3, <4>1
    <3> QED  BY <1>3, <1>6, <2>3, <3>1 DEF TabelasOK, Sabido
  <2> QED  BY <2>1, <2>2, <2>3 DEF TabelasOK
<1>5. ASSUME NEW s \in Syncs, sync[s].passo # "livre"
      PROVE  TokenOK(s)' /\ DecididoOK(s)' /\ LidoOK(s)' /\ EnviadoOK(s)' /\ VistaOK(s)'
  <2>1. AtivaOK(s)  BY <1>5 DEF Acertos
  <2>2. MesmaSync(sync'[s], sync[s])  BY <1>1, Perturbada
  <2>3. sync[s] \in SyncT /\ sync[s].token \in [Remotos -> Nat] /\ sync[s].ver \in Nat
        /\ DOMAIN sync[s].itens \subseteq Remotos
        /\ \A h \in DOMAIN sync[s].itens : sync[s].itens[h] \in RemotoT
    BY <1>1, SyncTem DEF SyncT
  <2>4. \A e \in Eventos : Elo(s, e)' = Elo(s, e) /\ Ev(s, e)' = Ev(s, e)  BY DEF Elo, Ev
  <2>5. \A h \in Remotos : sync[s].token[h] \in Nat /\ sync[s].token[h] <= google[h].ver
                           /\ token[h] <= sync[s].token[h]
    BY <2>1, <2>3 DEF AtivaOK, TokenOK
  <2>6. TokenOK(s)'
    <3>1. \A h \in Remotos : token[h] <= sync[s].token[h] /\ sync[s].token[h] <= google'[h].ver
      BY <1>2, <2>5
    <3>2. ASSUME NEW h \in DOMAIN sync[s].itens, google'[h].ver = sync[s].itens[h].ver
          PROVE  sync[s].itens[h] = google'[h]
      <4>1. h \in Remotos /\ sync[s].itens[h].ver = sync[s].token[h]
        BY <2>1, <2>3 DEF AtivaOK, TokenOK
      <4>2. h # g  BY <1>2, <2>5, <3>2, <4>1
      <4> QED  BY <2>1, <3>2, <4>1, <4>2 DEF AtivaOK, TokenOK
    <3>3. TokenOK(s) /\ token' = token  BY <2>1 DEF AtivaOK
    <3> QED  BY ONLY <2>2, <2>3, <3>1, <3>2, <3>3 DEF TokenOK, MesmaSync
  <2>7. DecididoOK(s)'
    <3> SUFFICES ASSUME sync'[s].passo = "aplicar" PROVE DecididoOK(s)'
      BY DEF DecididoOK
    <3>1. DecididoOK(s) /\ sync[s].passo = "aplicar"  BY <2>1, <2>2 DEF AtivaOK, MesmaSync
    <3> QED  BY ONLY <2>2, <2>4, <3>1 DEF DecididoOK, MesmaSync
  <2>8. LidoOK(s)'
    <3>1. LidoOK(s) /\ rasc' = rasc /\ evento' = evento /\ elo' = elo /\ tardias' = tardias
      BY <2>1 DEF AtivaOK
    <3> QED  BY ONLY <2>2, <3>1 DEF LidoOK, MesmaSync
  <2>9. EnviadoOK(s)'
    <3> SUFFICES ASSUME sync'[s].passo = "anotar" PROVE EnviadoOK(s)'
      BY DEF EnviadoOK
    <3>1. EnviadoOK(s) /\ sync[s].passo = "anotar"  BY <2>1, <2>2 DEF AtivaOK, MesmaSync
    <3>2. sync[s].g \in Remotos  BY <3>1 DEF IInvGoogle, SyncsOK, PassoOK
    <3>3. google'[sync[s].g] = google[sync[s].g] \/ google'[sync[s].g].ver > google[sync[s].g].ver
      BY <3>2
    <3> QED  BY ONLY <1>2, <2>2, <2>3, <3>1, <3>2, <3>3 DEF EnviadoOK, MesmaSync
  <2>10. VistaOK(s)'
    <3>1. ASSUME NEW e \in Eventos
          PROVE  LigadoOK(e, Elo(s, e), Ev(s, e), sync[s].token, DOMAIN sync[s].itens, google', Passadas', tardias)
      <4>1. LigadoOK(e, Elo(s, e), Ev(s, e), sync[s].token, DOMAIN sync[s].itens, google, Passadas, tardias)
        BY <2>1 DEF AtivaOK, VistaOK
      <4>2. Elo(s, e) \in EloT  BY <1>1, EvTem
      <4> QED  BY <1>2, <1>6, <2>3, <2>5, <4>1, <4>2, LigadoGoogle
    <3>2. ASSUME NEW h \in Remotos \ DOMAIN sync[s].itens, google'[h].st = "vivo",
                 google'[h].ver <= sync[s].token[h]
          PROVE  SabidoPor(s, h)'
      <4>1. h # g  BY <1>2, <2>5, <3>2
      <4> QED  BY <1>6, <2>1, <2>4, <3>2, <4>1 DEF AtivaOK, VistaOK, SabidoPor
    <3>3. tardias' = tardias  OBVIOUS
    <3> QED  BY ONLY <2>2, <2>4, <3>1, <3>2, <3>3 DEF VistaOK, MesmaSync
  <2> QED  BY <2>6, <2>7, <2>8, <2>9, <2>10
<1> QED  BY <1>4, <1>5, Perturbou

\* An event is written by somebody who has a later version of it than all those
\* who know it, or it is left out from now on.
LEMMA EventosMudaram ==
    ASSUME IInvGoogle, IInvGoogle', Acertos, Perturbar, acertado' = "nao",
           UNCHANGED <<token, elo, google, rasc, duvidosos, puladas>>, tardias \subseteq tardias',
           \A e \in Eventos :
              \/ evento'[e] = evento[e]
              \/ /\ \A s \in Syncs : e \notin DOMAIN rasc[s].ev
                 /\ \/ e \in tardias'
                    \/ /\ elo[e].g = SemRemoto \/ evento'[e].mod > elo[e].sist
                       /\ \A s \in Syncs :
                             /\ e \in DOMAIN rasc[s].elo => evento'[e].mod > rasc[s].elo[e].sist
                             /\ e \in DOMAIN sync[s].lista => evento'[e].mod > sync[s].lista[e].ev.mod
    PROVE  Acertos'
<1>1. TipoGoogle /\ TipoGoogle'  BY DEF IInvGoogle
<1>2. /\ evento \in [Eventos -> EventoT] /\ evento' \in [Eventos -> EventoT]
      /\ elo \in [Eventos -> EloT] /\ \A e \in Eventos : evento'[e].mod \in Nat
  BY <1>1 DEF TipoGoogle, EventoT
<1>3. TabelasOK  BY DEF Acertos
<1>6. Passadas' = Passadas  BY PassadasFicam
<1>4. TabelasOK'
  <2>1. ASSUME NEW e \in Eventos
        PROVE  LigadoOK(e, elo[e], evento'[e], token, {}, google, Passadas, tardias')
    <3>1. LigadoOK(e, elo[e], evento[e], token, {}, google, Passadas, tardias)  BY <1>3 DEF TabelasOK
    <3>2. \/ evento'[e] = evento[e] \/ e \in tardias' \/ elo[e].g = SemRemoto
          \/ evento'[e].mod > elo[e].sist
      OBVIOUS
    <3>3. elo[e].sist \in Nat /\ evento'[e].mod \in Nat  BY <1>2 DEF EloT
    <3> QED  BY ONLY <3>1, <3>2, <3>3, tardias \subseteq tardias' DEF LigadoOK
  <2> QED  BY <1>3, <1>6, <2>1 DEF TabelasOK, Sabido
<1>5. ASSUME NEW s \in Syncs, sync[s].passo # "livre"
      PROVE  TokenOK(s)' /\ DecididoOK(s)' /\ LidoOK(s)' /\ EnviadoOK(s)' /\ VistaOK(s)'
  <2>1. AtivaOK(s)  BY <1>5 DEF Acertos
  <2>2. MesmaSync(sync'[s], sync[s])  BY <1>1, Perturbada
  <2>3. \A e \in Eventos : Elo(s, e)' = Elo(s, e)  BY DEF Elo
  <2>4. google' = google /\ token' = token /\ rasc' = rasc /\ elo' = elo /\ Passadas' = Passadas  BY <1>6
  <2>5. TokenOK(s)'
    <3>1. TokenOK(s)  BY <2>1 DEF AtivaOK
    <3> QED  BY ONLY <2>2, <2>4, <3>1 DEF TokenOK, MesmaSync
  <2>6. DecididoOK(s)'
    <3>1. DecididoOK(s)  BY <2>1 DEF AtivaOK
    <3> QED  BY ONLY <2>2, <2>3, <2>4, <3>1 DEF DecididoOK, MesmaSync
  <2>7. LidoOK(s)'
    <3>1. LidoOK(s) /\ DOMAIN sync[s].lista \subseteq Eventos  BY <1>1, <2>1, SyncTem DEF AtivaOK
    <3>2. \A e \in Eventos : e \in DOMAIN sync[s].lista =>
            \/ evento'[e] = evento[e] \/ e \in tardias' \/ evento'[e].mod > sync[s].lista[e].ev.mod
      OBVIOUS
    <3> QED  BY ONLY <2>2, <2>4, <3>1, <3>2, tardias \subseteq tardias' DEF LidoOK, MesmaSync
  <2>8. EnviadoOK(s)'
    <3>1. EnviadoOK(s)  BY <2>1 DEF AtivaOK
    <3> QED  BY ONLY <2>2, <2>4, <3>1 DEF EnviadoOK, MesmaSync
  <2>9. VistaOK(s)'
    <3>1. ASSUME NEW e \in Eventos
          PROVE  LigadoOK(e, Elo(s, e), Ev(s, e)', sync[s].token, DOMAIN sync[s].itens, google, Passadas, tardias')
      <4>1. LigadoOK(e, Elo(s, e), Ev(s, e), sync[s].token, DOMAIN sync[s].itens, google, Passadas, tardias)
        BY <2>1 DEF AtivaOK, VistaOK
      <4>2. \/ Ev(s, e)' = Ev(s, e) \/ e \in tardias' \/ Elo(s, e).g = SemRemoto
            \/ Ev(s, e)' = evento'[e] /\ evento'[e].mod > Elo(s, e).sist
        BY DEF Ev, Elo
      <4>3. Elo(s, e).sist \in Nat /\ evento'[e].mod \in Nat
        <5>1. Elo(s, e) \in EloT  BY <1>1, EvTem
        <5> QED  BY <1>2, <5>1 DEF EloT
      <4> QED  BY ONLY <4>1, <4>2, <4>3, tardias \subseteq tardias' DEF LigadoOK
    <3>2. VistaOK(s)  BY <2>1 DEF AtivaOK
    <3> QED  BY ONLY <2>2, <2>3, <2>4, <3>1, <3>2 DEF VistaOK, MesmaSync, SabidoPor
  <2> QED  BY <2>5, <2>6, <2>7, <2>8, <2>9
<1> QED  BY <1>4, <1>5, Perturbou

LEMMA PessoasAcertam ==
    ASSUME IInvGoogle, IInvGoogle', Acertos,
           \/ \E g \in Remotos : GoogleCria(g) \/ \E st \in {"vivo", "cancelado"} : GoogleAltera(g, st)
           \/ \E e \in Eventos : CriarEvento(e)
           \/ \E r \in Edicoes : \/ GravarEvento(r)
                                 \/ \E e \in Eventos, tipo \in {"vivo", "cancelado", "excluido"} :
                                       LerEvento(r, e, tipo)
    PROVE  Acertos'
<1>1. TipoGoogle /\ TipoGoogle'  BY DEF IInvGoogle
<1>2. /\ google \in [Remotos -> RemotoT] /\ \A g \in Remotos : google[g].ver \in Nat
      /\ evento \in [Eventos -> EventoT] /\ elo \in [Eventos -> EloT]
  BY <1>1 DEF TipoGoogle, RemotoT
<1>3. ASSUME NEW g \in Remotos, GoogleCria(g) PROVE Acertos'
  <2>1. /\ Perturbar /\ acertado' = "nao" /\ google[g].st = "livre"
        /\ UNCHANGED <<token, evento, elo, rasc, tardias, duvidosos, puladas>>
    BY <1>3 DEF GoogleCria, Mudar, tabelasAgenda
  <2>2. google' = [google EXCEPT ![g] = [st |-> "vivo", cont |-> relogio', ver |-> 1, dono |-> SemEvento]]
    BY <1>3 DEF GoogleCria
  <2>3. google[g].ver = 0  BY <2>1 DEF IInvGoogle, Intacto
  <2>4. google'[g].ver > google[g].ver  BY <1>2, <2>2, <2>3
  <2>5. \A h \in Remotos : h # g => google'[h] = google[h]  BY <1>2, <2>2
  <2> QED  BY <2>1, <2>4, <2>5, GoogleMudou
<1>4. ASSUME NEW g \in Remotos, NEW st \in {"vivo", "cancelado"}, GoogleAltera(g, st) PROVE Acertos'
  <2>1. /\ Perturbar /\ acertado' = "nao"
        /\ UNCHANGED <<token, evento, elo, rasc, tardias, duvidosos, puladas>>
        /\ google' = [google EXCEPT ![g].st = st, ![g].cont = relogio', ![g].ver = @ + 1]
    BY Zenon, <1>4 DEF GoogleAltera, Mudar, tabelasAgenda
  <2>2. \A h \in Remotos : h # g => google'[h] = google[h]  BY <1>2, <2>1
  <2>3. google'[g].ver > google[g].ver
    <3>1. google[g] \in RemotoT  BY <1>2
    <3>2. google'[g].ver = google[g].ver + 1  BY <1>2, <2>1, <3>1 DEF RemotoT
    <3> QED  BY <1>2, <3>2
  <2> QED  BY <2>1, <2>2, <2>3, GoogleMudou
<1>5. ASSUME NEW e \in Eventos, CriarEvento(e) PROVE Acertos'
  <2>1. /\ Livre(e) /\ Perturbar /\ acertado' = "nao"
        /\ UNCHANGED <<token, elo, google, rasc, tardias, duvidosos, puladas>>
        /\ evento' = [evento EXCEPT ![e] = [st |-> "vivo", cont |-> relogio', mod |-> relogio']]
    BY <1>5 DEF CriarEvento, Mudar
  <2>2. elo[e].g = SemRemoto  BY <2>1 DEF Livre, IInvGoogle, NaoNascido
  <2>3. ASSUME NEW s \in Syncs
        PROVE  e \notin DOMAIN rasc[s].ev /\ e \notin DOMAIN rasc[s].elo /\ e \notin DOMAIN sync[s].lista
    <3>1. RascunhoOK(s) /\ ListaOK(s)  BY DEF IInvGoogle, SyncsOK
    <3> QED  BY <2>1, <3>1 DEF Livre, RascunhoOK, ListaOK
  <2>4. \A d \in Eventos : d # e => evento'[d] = evento[d]  BY <1>2, <2>1
  <2> QED  BY <2>1, <2>2, <2>3, <2>4, EventosMudaram
<1>6. ASSUME NEW r \in Edicoes, GravarEvento(r) PROVE Acertos'
  <2> PICK d : d = edicao[r]  BY Zenon
  <2> PICK st \in IF d.tipo = "vivo" THEN {"vivo", "cancelado"} ELSE {d.tipo} :
        evento' = IF ~Existente(d.e) THEN evento
                  ELSE [evento EXCEPT ![d.e] = [st |-> st, mod |-> d.em,
                             cont |-> IF d.tipo = "vivo" THEN d.em ELSE @.cont]]
    BY <1>6 DEF GravarEvento
  <2>1. /\ \A s \in Syncs : d.e \notin DOMAIN rasc[s].ev
        /\ tardias' = IF JaVista(d.e, d.em) THEN tardias \cup {d.e} ELSE tardias
        /\ Perturbar /\ acertado' = "nao" /\ UNCHANGED <<token, elo, google, rasc, duvidosos, puladas>>
    BY <1>6 DEF GravarEvento
  <2>2. ASSUME NEW e \in Eventos, evento'[e] # evento[e] PROVE e = d.e /\ evento'[e].mod = d.em
    BY <1>2, <2>1, <2>2
  <2>3. d.em \in Nat  BY <1>1 DEF TipoGoogle, EdicaoT
  <2>4. ASSUME NEW e \in Eventos, e = d.e, e \notin tardias'
        PROVE  /\ elo[e].g = SemRemoto \/ d.em > elo[e].sist
               /\ \A s \in Syncs : /\ e \in DOMAIN rasc[s].elo => d.em > rasc[s].elo[e].sist
                                   /\ e \in DOMAIN sync[s].lista => d.em > sync[s].lista[e].ev.mod
    <3>1. ~JaVista(e, d.em)  BY <2>1, <2>4
    <3>2. elo[e].sist \in Nat  BY <1>2 DEF EloT
    <3>3. \A s \in Syncs : e \in DOMAIN rasc[s].elo => rasc[s].elo[e].sist \in Nat
      BY <1>1, SyncTem DEF EloT
    <3>4. \A s \in Syncs : e \in DOMAIN sync[s].lista => sync[s].lista[e].ev.mod \in Nat
      <4>1. \A s \in Syncs : e \in DOMAIN sync[s].lista => sync[s].lista[e] \in ListadoT
        BY <1>1, SyncTem
      <4> QED  BY <4>1 DEF ListadoT, EventoT
    <3> QED  BY ONLY <2>3, <3>1, <3>2, <3>3, <3>4 DEF JaVista
  <2>5. tardias \subseteq tardias'  BY <2>1
  <2> QED  BY <2>1, <2>2, <2>4, <2>5, EventosMudaram
<1>7. ASSUME NEW r \in Edicoes, NEW e \in Eventos, NEW tipo \in {"vivo", "cancelado", "excluido"},
             LerEvento(r, e, tipo)
      PROVE  Acertos'
  <2>1. /\ Perturbar /\ acertado' = "nao"
        /\ UNCHANGED <<token, evento, elo, google, rasc, tardias, duvidosos, puladas>>
    BY <1>7 DEF LerEvento, Mudar, tabelasAgenda
  <2> QED  BY <2>1, EventosMudaram
<1> QED  BY <1>3, <1>4, <1>5, <1>6, <1>7

-----------------------------------------------------------------------------
(* The pull. *)

LEMMA SincronizarAcerta ==
    ASSUME IInvGoogle, IInvGoogle', Acertos, direcao = "bidirecional", juntas' = "nao",
           NEW s \in Syncs, Sincronizar(s)
    PROVE  Acertos'
<1>1. /\ sync[s].passo = "livre" /\ Outros(s) = {}
      /\ UNCHANGED <<token, evento, elo, google, rasc, edicao, acertado, tardias, duvidosos, puladas>>
  BY DEF Sincronizar, tabelasAgenda
<1>30. Passadas' = Passadas  BY <1>1, PassadasFicam
<1>2. TipoGoogle /\ PassoOK(s) /\ token \in [Remotos -> Nat] /\ relogio \in Nat
  BY DEF IInvGoogle, TipoGoogle, SyncsOK
<1> PICK calmo : calmo = IF \A r \in Edicoes : edicao[r] = EdicaoLivre THEN "sim" ELSE "nao"
  BY Zenon
<1> PICK x : x = [SyncLivre EXCEPT !.passo = "buscar", !.inicio = relogio, !.token = token,
                                   !.calmo = calmo, !.junto = "nao"]
  BY Zenon
<1>3. sync' = [t \in Syncs |-> IF t = s THEN x
                               ELSE IF sync[t].passo = "livre" THEN sync[t]
                               ELSE [sync[t] EXCEPT !.calmo = "nao", !.junto = "sim"]]
  BY <1>1 DEF Sincronizar
<1>4. sync'[s] = x /\ \A t \in Syncs \ {s} : sync'[t] = sync[t]
  BY ONLY <1>1, <1>3 DEF Outros
<1>5. /\ x.passo = "buscar" /\ x.token = token /\ DOMAIN x.itens = {} /\ DOMAIN x.lista = {}
      /\ x.calmo = calmo /\ x.junto = "nao"
  BY LivresTipo DEF SyncLivre
<1>6. \A e : Elo(s, e)' = elo[e] /\ Ev(s, e)' = evento[e]
  <2>1. rasc[s] = SemRascunho  BY <1>1, <1>2 DEF PassoOK
  <2>2. \A e : Elo(s, e) = elo[e] /\ Ev(s, e) = evento[e]  BY <2>1, Vistas
  <2> QED  BY <1>1, <2>2 DEF Elo, Ev
<1>7. TabelasOK /\ AcertadasOK /\ duvidosos = {}  BY DEF Acertos
<1>8. TabelasOK' /\ AcertadasOK'  BY <1>1, <1>7, TabelasFicam
<1>9. TokenOK(s)'
  <2>1. \A g \in Remotos : token[g] \in Nat /\ token[g] <= google[g].ver  BY <1>2, <1>7 DEF TabelasOK
  <2>2. token' = token /\ google' = google /\ Passadas' = Passadas  BY <1>30, <1>1
  <2> QED  BY ONLY <1>4, <1>5, <2>1, <2>2 DEF TokenOK
<1>10. DecididoOK(s)' /\ LidoOK(s)' /\ EnviadoOK(s)'
  BY ONLY <1>4, <1>5 DEF DecididoOK, LidoOK, EnviadoOK
<1>11. VistaOK(s)'
  <2>1. google' = google /\ Passadas' = Passadas /\ tardias' = tardias  BY <1>30, <1>1
  <2> QED  BY ONLY <1>4, <1>5, <1>6, <1>7, <2>1 DEF VistaOK, TabelasOK, SabidoPor, Sabido
<1>12. CalmaOK(s)'
  <2>1. edicao' = edicao  BY <1>1
  <2>2. calmo = "sim" => \A r \in Edicoes : edicao[r] = EdicaoLivre  OBVIOUS
  <2> QED  BY ONLY <1>4, <1>5, <2>1, <2>2 DEF CalmaOK
<1>13. MantidoOK(s)'
  <2>1. acertado' = acertado /\ google' = google /\ Passadas' = Passadas /\ tardias' = tardias  BY <1>30, <1>1
  <2>2. acertado = "sim" => calmo = "sim"  BY <1>7 DEF AcertadasOK
  <2> QED  BY ONLY <1>4, <1>5, <1>6, <1>7, <2>1, <2>2 DEF MantidoOK, AcertadasOK
<1>14. AtivaOK(s)'  BY <1>9, <1>10, <1>11, <1>12, <1>13 DEF AtivaOK
<1>15. sync'[s].junto = "nao" /\ duvidosos' = {}  BY <1>1, <1>4, <1>5, <1>7
<1> QED  BY <1>1, <1>4, <1>8, <1>14, <1>15, AcertosSeguem

LEMMA BuscarAcerta ==
    ASSUME IInvGoogle, IInvGoogle', Acertos, NEW s \in Syncs, Buscar(s)
    PROVE  Acertos'
<1>1. PICK base \in {sync[s].token, SemToken} :
        Seguir(s, [sync[s] EXCEPT
              !.passo = "importar",
              !.itens = [g \in {h \in Remotos : google[h].ver > base[h]} |-> google[g]],
              !.token = [g \in Remotos |-> google[g].ver]])
  BY DEF Buscar
<1>2. /\ sync[s].passo = "buscar"
      /\ UNCHANGED <<token, evento, elo, google, rasc, edicao, acertado, tardias, duvidosos, puladas>>
  BY DEF Buscar, tabelasAgenda, fixoAgenda, historiaAgenda
<1>30. Passadas' = Passadas  BY <1>2, PassadasFicam
<1> PICK itens : itens = [g \in {h \in Remotos : google[h].ver > base[h]} |-> google[g]]
  BY Zenon
<1> PICK token2 : token2 = [g \in Remotos |-> google[g].ver]  BY Zenon
<1> PICK x : x = [sync[s] EXCEPT !.passo = "importar", !.itens = itens, !.token = token2]
  BY Zenon
<1>3. /\ TipoGoogle /\ sync[s] \in SyncT /\ sync \in [Syncs -> SyncT]
      /\ google \in [Remotos -> RemotoT] /\ elo \in [Eventos -> EloT] /\ token \in [Remotos -> Nat]
      /\ PassoOK(s) /\ sync[s].junto = "nao" /\ duvidosos = {}
      /\ TabelasOK /\ AcertadasOK /\ TokenOK(s) /\ CalmaOK(s) /\ MantidoOK(s)
  BY <1>2 DEF IInvGoogle, TipoGoogle, SyncsOK, Acertos, AtivaOK
<1>4. \A g \in Remotos : google[g].ver \in Nat /\ token[g] \in Nat /\ (base[g] = token[g] \/ base[g] = 0)
  BY <1>2, <1>3 DEF RemotoT, SemToken, TokenOK
<1>5. /\ DOMAIN itens = {h \in Remotos : google[h].ver > base[h]}
      /\ \A g \in DOMAIN itens : itens[g] = google[g]
      /\ \A g \in Remotos : token2[g] = google[g].ver
  OBVIOUS
<1>6. sync' = [sync EXCEPT ![s] = x]  BY <1>1 DEF Seguir
<1>7. /\ sync'[s] = x /\ \A t \in Syncs \ {s} : sync'[t] = sync[t]
      /\ x.passo = "importar" /\ x.itens = itens /\ x.token = token2 /\ x.junto = sync[s].junto
      /\ x.lista = sync[s].lista /\ x.calmo = sync[s].calmo
  BY <1>3, <1>6 DEF SyncT
<1>8. DOMAIN sync[s].lista = {} /\ rasc[s] = SemRascunho  BY <1>2, <1>3 DEF PassoOK
<1>9. \A e : /\ Elo(s, e)' = elo[e] /\ Ev(s, e)' = evento[e]
             /\ Elo(s, e) = elo[e] /\ Ev(s, e) = evento[e]
  <2>1. \A e : Elo(s, e) = elo[e] /\ Ev(s, e) = evento[e]  BY <1>8, Vistas
  <2> QED  BY <1>2, <2>1 DEF Elo, Ev
<1>10. \A g \in Remotos : google[g].st = "livre" <=> google[g].ver = 0
  <2>1. \A g \in Remotos : Intacto(g) /\ VersaoOK(g)  BY DEF IInvGoogle
  <2> QED  BY <1>4, <2>1 DEF Intacto, VersaoOK
<1>11. TabelasOK' /\ AcertadasOK'  BY <1>2, <1>3, TabelasFicam
<1>12. TokenOK(s)'
  <2>1. \A g \in Remotos : token[g] <= google[g].ver  BY <1>3 DEF TabelasOK
  <2>2. \A g \in DOMAIN itens : itens[g].st # "livre"  BY <1>4, <1>5, <1>10
  <2>3. token' = token /\ google' = google  BY <1>2
  <2>4. DOMAIN itens \subseteq Remotos  BY <1>5
  <2> QED  BY ONLY <1>4, <1>5, <1>7, <2>1, <2>2, <2>3, <2>4 DEF TokenOK
<1>13. DecididoOK(s)' /\ LidoOK(s)' /\ EnviadoOK(s)'
  BY ONLY <1>7, <1>8 DEF DecididoOK, LidoOK, EnviadoOK
<1>14. VistaOK(s)'
  <2>1. ASSUME NEW e \in Eventos
        PROVE  LigadoOK(e, elo[e], evento[e], token2, DOMAIN itens, google, Passadas, tardias)
    <3> SUFFICES ASSUME elo[e].g # SemRemoto
                 PROVE  LigadoOK(e, elo[e], evento[e], token2, DOMAIN itens, google, Passadas, tardias)
      BY DEF LigadoOK
    <3>1. LigadoOK(e, elo[e], evento[e], token, {}, google, Passadas, tardias)  BY <1>3 DEF TabelasOK
    <3>2. elo[e].g \in Remotos /\ elo[e].ver \in Nat  BY <1>3 DEF EloT
    <3>3. elo[e].ver < google[elo[e].g].ver => elo[e].g \in DOMAIN itens \/ elo[e].g \in Passadas
      <4>1. elo[e].ver < google[elo[e].g].ver =>
              token[elo[e].g] < google[elo[e].g].ver \/ elo[e].g \in Passadas
        BY ONLY <3>1, elo[e].g # SemRemoto DEF LigadoOK
      <4> QED  BY <1>4, <1>5, <3>2, <4>1
    <3> QED  BY ONLY <3>1, <3>3 DEF LigadoOK
  <2>2. ASSUME NEW g \in Remotos \ DOMAIN itens, google[g].st = "vivo" PROVE Sabido(g)
    <3>1. google[g].ver <= base[g] /\ google[g].ver > 0  BY <1>4, <1>5, <1>10, <2>2
    <3>2. google[g].ver <= token[g]  BY <1>4, <3>1
    <3> QED  BY <1>3, <2>2, <3>2 DEF TabelasOK
  <2>3. google' = google /\ Passadas' = Passadas /\ tardias' = tardias  BY <1>30, <1>2
  <2> QED  BY ONLY <1>7, <1>9, <2>1, <2>2, <2>3 DEF VistaOK, SabidoPor, Sabido
<1>15. CalmaOK(s)'
  <2>1. edicao' = edicao /\ google' = google /\ Passadas' = Passadas  BY <1>30, <1>2
  <2> QED  BY ONLY <1>3, <1>5, <1>7, <2>1 DEF CalmaOK
<1>16. MantidoOK(s)'
  <2>1. acertado' = acertado /\ google' = google /\ Passadas' = Passadas /\ tardias' = tardias  BY <1>30, <1>2
  <2> QED  BY ONLY <1>3, <1>7, <1>8, <1>9, <2>1 DEF MantidoOK
<1>17. AtivaOK(s)'  BY <1>12, <1>13, <1>14, <1>15, <1>16 DEF AtivaOK
<1> QED  BY <1>2, <1>3, <1>7, <1>11, <1>17, AcertosSeguem

LEMMA EscolherAcerta ==
    ASSUME IInvGoogle, IInvGoogle', Acertos, NEW s \in Syncs, NEW g \in Remotos, Escolher(s, g)
    PROVE  Acertos'
<1> PICK item : item = sync[s].itens[g]  BY Zenon
<1> DEFINE Ida(ex, acao) ==
       Seguir(s, [sync[s] EXCEPT !.passo = "aplicar", !.g = g, !.e = ex, !.acao = acao])
<1>1. /\ sync[s].passo = "importar" /\ g \in DOMAIN sync[s].itens
      /\ IF item.st = "cancelado"
         THEN IF Alvos(s, g) = {} THEN Ida(SemEvento, "nada")
              ELSE \E e \in Alvos(s, g) : Ida(e, "cancelar")
         ELSE IF Alvos(s, g) = {}
         THEN \E e \in Eventos : Livre(e) /\ Ida(e, "inserir")
         ELSE \E e \in Alvos(s, g) :
                 Ida(e, IF \E d \in Vinculados(s, g) : item.ver <= Elo(s, d).ver
                        THEN "nada" ELSE "atualizar")
      /\ UNCHANGED <<tabelasAgenda, google, rasc, edicao, fixoAgenda, historiaAgenda>>
  BY Zenon DEF Escolher, Visto
<1> HIDE DEF Ida
<1>2. /\ sync[s].passo = "importar" /\ g \in DOMAIN sync[s].itens
      /\ UNCHANGED <<token, evento, elo, google, rasc, edicao, acertado, tardias, duvidosos, puladas>>
  BY ONLY <1>1 DEF tabelasAgenda, fixoAgenda, historiaAgenda
<1>30. Passadas' = Passadas  BY <1>2, PassadasFicam
<1>3. PICK ex, acao :
        /\ Ida(ex, acao)
        /\ \/ acao = "nada" /\ Alvos(s, g) = {} /\ item.st = "cancelado"
           \/ acao = "cancelar"
           \/ acao = "inserir" /\ Alvos(s, g) = {} /\ item.st # "cancelado"
           \/ acao = "nada" /\ \E d \in Vinculados(s, g) : item.ver <= Elo(s, d).ver
           \/ acao = "atualizar" /\ item.st # "cancelado"
  BY ONLY <1>1
<1> PICK x : x = [sync[s] EXCEPT !.passo = "aplicar", !.g = g, !.e = ex, !.acao = acao]  BY Zenon
<1>4. /\ TipoGoogle /\ sync[s] \in SyncT /\ sync \in [Syncs -> SyncT]
      /\ PassoOK(s) /\ sync[s].junto = "nao" /\ duvidosos = {} /\ TabelasOK /\ AcertadasOK
      /\ TokenOK(s) /\ VistaOK(s) /\ CalmaOK(s) /\ MantidoOK(s)
  BY <1>2 DEF IInvGoogle, TipoGoogle, SyncsOK, Acertos, AtivaOK
<1>5. sync' = [sync EXCEPT ![s] = x]  BY <1>3 DEF Ida, Seguir
<1>6. /\ sync'[s] = x /\ \A t \in Syncs \ {s} : sync'[t] = sync[t]
      /\ x.passo = "aplicar" /\ x.g = g /\ x.e = ex /\ x.acao = acao /\ x.itens = sync[s].itens
      /\ x.token = sync[s].token /\ x.junto = sync[s].junto /\ x.lista = sync[s].lista
      /\ x.calmo = sync[s].calmo
  BY <1>4, <1>5 DEF SyncT
<1>7. \A e : Elo(s, e)' = Elo(s, e) /\ Ev(s, e)' = Ev(s, e)  BY <1>2 DEF Elo, Ev
<1>8. item.st \in {"vivo", "cancelado"}
  <2>1. item \in RemotoT  BY <1>2, <1>4, SyncTem
  <2>2. item.st # "livre"  BY <1>2, <1>4 DEF TokenOK
  <2> QED  BY ONLY <2>1, <2>2 DEF RemotoT
<1>9. Vinculados(s, g) # {} => Alvos(s, g) # {}  BY DEF Alvos
<1>10. DOMAIN sync[s].lista = {}  BY <1>2, <1>4 DEF PassoOK
<1>11. TabelasOK' /\ AcertadasOK'  BY <1>2, <1>4, TabelasFicam
<1>12. TokenOK(s)'
  <2>1. google' = google /\ Passadas' = Passadas /\ token' = token  BY <1>30, <1>2
  <2> QED  BY ONLY <1>4, <1>6, <2>1 DEF TokenOK
<1>13. DecididoOK(s)'
  <2>1. acao = "nada" =>
          /\ \A e \in Eventos : Elo(s, e).g = g => item.ver <= Elo(s, e).ver
          /\ item.st = "vivo" => \E e \in Eventos : Elo(s, e).g = g
    <3>1. CASE Alvos(s, g) = {} /\ item.st = "cancelado"
      <4>1. Vinculados(s, g) = {}  BY <1>9, <3>1
      <4> QED  BY <3>1, <4>1 DEF Vinculados
    <3>2. ASSUME NEW d \in Vinculados(s, g), item.ver <= Elo(s, d).ver
          PROVE  /\ \A e \in Eventos : Elo(s, e).g = g => item.ver <= Elo(s, e).ver
                 /\ \E e \in Eventos : Elo(s, e).g = g
      <4>1. d \in Eventos /\ Elo(s, d).g = g /\ g # SemRemoto  BY NomesAgenda DEF Vinculados
      <4>2. \A e \in Eventos : Elo(s, e).g = g => e = d  BY <4>1, EloUnico
      <4> QED  BY <3>2, <4>1, <4>2
    <3> QED  BY <1>3, <3>1, <3>2
  <2>2. acao \in {"inserir", "atualizar"} => item.st = "vivo"  BY <1>3, <1>8
  <2> QED  BY ONLY <1>6, <1>7, <2>1, <2>2, item = sync[s].itens[g] DEF DecididoOK
<1>14. LidoOK(s)' /\ EnviadoOK(s)'  BY ONLY <1>6, <1>10 DEF LidoOK, EnviadoOK
<1>15. VistaOK(s)'
  <2>1. google' = google /\ Passadas' = Passadas /\ tardias' = tardias  BY <1>30, <1>2
  <2> QED  BY ONLY <1>4, <1>6, <1>7, <2>1 DEF VistaOK, SabidoPor
<1>16. CalmaOK(s)'
  <2>1. edicao' = edicao /\ google' = google /\ Passadas' = Passadas  BY <1>30, <1>2
  <2> QED  BY ONLY <1>2, <1>4, <1>6, <2>1 DEF CalmaOK
<1>17. MantidoOK(s)'
  <2>1. acertado' = acertado /\ google' = google /\ Passadas' = Passadas /\ tardias' = tardias  BY <1>30, <1>2
  <2> QED  BY ONLY <1>4, <1>6, <1>7, <2>1 DEF MantidoOK
<1>18. AtivaOK(s)'  BY <1>12, <1>13, <1>14, <1>15, <1>16, <1>17 DEF AtivaOK
<1> QED  BY <1>2, <1>4, <1>6, <1>11, <1>18, AcertosSeguem

LEMMA IgnorarAcerta ==
    ASSUME IInvGoogle, IInvGoogle', Acertos, NEW s \in Syncs, Ignorar(s)
    PROVE  Acertos'
<1>1. /\ sync[s].passo = "aplicar" /\ sync[s].acao = "nada"
      /\ sync' = [sync EXCEPT ![s] = ItemFeito(s)]
      /\ UNCHANGED <<token, evento, elo, google, rasc, edicao, acertado, tardias, duvidosos, puladas>>
  BY DEF Ignorar, Seguir, tabelasAgenda, fixoAgenda, historiaAgenda
<1>30. Passadas' = Passadas  BY <1>1, PassadasFicam
<1>2. /\ TipoGoogle /\ sync[s] \in SyncT /\ sync \in [Syncs -> SyncT] /\ google \in [Remotos -> RemotoT]
      /\ PassoOK(s) /\ sync[s].junto = "nao" /\ duvidosos = {} /\ TabelasOK /\ AcertadasOK
      /\ TokenOK(s) /\ DecididoOK(s) /\ VistaOK(s) /\ CalmaOK(s) /\ MantidoOK(s)
  BY <1>1 DEF IInvGoogle, TipoGoogle, SyncsOK, Acertos, AtivaOK
<1> PICK g : g = sync[s].g  BY Zenon
<1> PICK x : x = ItemFeito(s)  BY Zenon
<1>3. /\ x.passo = "importar" /\ x.token = sync[s].token /\ x.lista = sync[s].lista
      /\ x.junto = sync[s].junto /\ DOMAIN x.itens = DOMAIN sync[s].itens \ {g}
      /\ \A h \in DOMAIN x.itens : x.itens[h] = sync[s].itens[h]
  BY <1>2, ItemFeitoTem
<1>4. x.calmo = sync[s].calmo  BY <1>2 DEF ItemFeito, SyncT
<1>5. sync'[s] = x /\ \A t \in Syncs \ {s} : sync'[t] = sync[t]  BY <1>1, <1>2
<1>6. \A e : Elo(s, e)' = Elo(s, e) /\ Ev(s, e)' = Ev(s, e)  BY <1>1 DEF Elo, Ev
<1>7. DOMAIN sync[s].lista = {} /\ g \in DOMAIN sync[s].itens /\ g \in Remotos
  BY <1>1, <1>2, SyncTem DEF PassoOK
<1>8. TabelasOK' /\ AcertadasOK'  BY <1>1, <1>2, TabelasFicam
<1>9. /\ sync[s].itens[g].ver = sync[s].token[g] /\ sync[s].token[g] <= google[g].ver
      /\ sync[s].token[g] \in Nat /\ \A h \in Remotos : google[h].ver \in Nat
      /\ google[g].ver = sync[s].itens[g].ver => sync[s].itens[g] = google[g]
  BY <1>2, <1>7 DEF TokenOK, SyncT, RemotoT
<1>10. TokenOK(s)'
  <2>1. google' = google /\ Passadas' = Passadas /\ token' = token  BY <1>30, <1>1
  <2> QED  BY ONLY <1>2, <1>3, <1>5, <2>1 DEF TokenOK
<1>11. DecididoOK(s)' /\ LidoOK(s)' /\ EnviadoOK(s)'
  BY ONLY <1>3, <1>5, <1>7 DEF DecididoOK, LidoOK, EnviadoOK
<1>12. VistaOK(s)'
  <2>1. ASSUME NEW e \in Eventos
        PROVE  LigadoOK(e, Elo(s, e), Ev(s, e), x.token, DOMAIN x.itens, google, Passadas, tardias)
    <3>1. LigadoOK(e, Elo(s, e), Ev(s, e), sync[s].token, DOMAIN sync[s].itens, google, Passadas, tardias)
      BY <1>2 DEF VistaOK
    <3>2. Elo(s, e).ver \in Nat  BY <1>2, EvTem DEF EloT
    <3>3. Elo(s, e).g = g => sync[s].itens[g].ver <= Elo(s, e).ver  BY <1>1, <1>2 DEF DecididoOK
    <3>4. Elo(s, e).g = g /\ Elo(s, e).ver < google[g].ver => sync[s].token[g] < google[g].ver
      BY <1>7, <1>9, <3>2, <3>3
    <3> QED  BY ONLY <1>3, <3>1, <3>4 DEF LigadoOK
  <2>2. google[g].st = "vivo" /\ google[g].ver <= sync[s].token[g] => SabidoPor(s, g)
    <3>1. google[g].ver <= sync[s].token[g] => sync[s].itens[g] = google[g]  BY <1>7, <1>9
    <3> QED  BY <1>1, <1>2, <3>1 DEF DecididoOK, SabidoPor
  <2>3. \A h \in Remotos \ DOMAIN x.itens :
          google[h].st = "vivo" /\ google[h].ver <= x.token[h] => SabidoPor(s, h)
    BY ONLY <1>2, <1>3, <2>2 DEF VistaOK
  <2>4. google' = google /\ Passadas' = Passadas /\ tardias' = tardias  BY <1>30, <1>1
  <2> QED  BY ONLY <1>5, <1>6, <2>1, <2>3, <2>4 DEF VistaOK, SabidoPor
<1>13. CalmaOK(s)'
  <2>1. edicao' = edicao /\ google' = google /\ Passadas' = Passadas  BY <1>30, <1>1
  <2> QED  BY ONLY <1>1, <1>2, <1>3, <1>4, <1>5, <2>1 DEF CalmaOK
<1>14. MantidoOK(s)'
  <2>1. acertado' = acertado /\ google' = google /\ Passadas' = Passadas /\ tardias' = tardias  BY <1>30, <1>1
  <2> QED  BY ONLY <1>2, <1>3, <1>4, <1>5, <1>6, <2>1 DEF MantidoOK
<1>15. AtivaOK(s)'  BY <1>10, <1>11, <1>12, <1>13, <1>14 DEF AtivaOK
<1> QED  BY <1>1, <1>2, <1>3, <1>5, <1>8, <1>15, AcertosSeguem

\* A copy that is passed over belongs to nobody here, or to the event it is
\* linked with: it counts as passed over from now on, unless it was seen.
LEMMA PularAcerta ==
    ASSUME IInvGoogle, IInvGoogle', Acertos, NEW s \in Syncs, NEW g \in Remotos, Pular(s, g),
           duvidosos' = {}
    PROVE  Acertos'
<1>1. /\ sync[s].passo = "importar" /\ g \in DOMAIN sync[s].itens
      /\ sync' = [sync EXCEPT ![s] = PuladaPor(s, g)]
      /\ UNCHANGED <<token, evento, elo, google, rasc, edicao, acertado, tardias>>
      /\ puladas' = IF Visto(s, g) THEN puladas ELSE puladas \cup {<<g, sync[s].itens[g].ver>>}
  BY DEF Pular, PuladaPor, Seguir, tabelasAgenda, fixoAgenda
<1>2. /\ TipoGoogle /\ sync[s] \in SyncT /\ sync \in [Syncs -> SyncT] /\ google \in [Remotos -> RemotoT]
      /\ PassoOK(s) /\ sync[s].junto = "nao" /\ TabelasOK /\ AcertadasOK
      /\ TokenOK(s) /\ VistaOK(s) /\ CalmaOK(s) /\ MantidoOK(s)
  BY <1>1 DEF IInvGoogle, TipoGoogle, SyncsOK, Acertos, AtivaOK
<1> PICK x : x = PuladaPor(s, g)  BY Zenon
<1>3. /\ x.passo = "importar" /\ x.token = sync[s].token /\ x.lista = sync[s].lista
      /\ x.junto = sync[s].junto /\ DOMAIN x.itens = DOMAIN sync[s].itens \ {g}
      /\ \A h \in DOMAIN x.itens : x.itens[h] = sync[s].itens[h]
      /\ x.calmo = sync[s].calmo
  BY <1>1, <1>2, PuladaTem
<1>4. sync'[s] = x /\ \A t \in Syncs \ {s} : sync'[t] = sync[t]  BY <1>1, <1>2
<1>5. \A e : Elo(s, e)' = Elo(s, e) /\ Ev(s, e)' = Ev(s, e)  BY <1>1 DEF Elo, Ev
<1>6. DOMAIN sync[s].lista = {}  BY <1>1, <1>2 DEF PassoOK
<1>7. Passadas \subseteq Passadas'  BY <1>1 DEF Passadas, Passada
<1>8. /\ token' = token /\ google' = google /\ tardias' = tardias /\ edicao' = edicao
      /\ evento' = evento /\ elo' = elo /\ acertado' = acertado
  BY <1>1
<1>9. /\ sync[s].itens[g].ver = sync[s].token[g] /\ sync[s].token[g] <= google[g].ver
      /\ sync[s].token[g] \in Nat /\ google[g].ver \in Nat
  BY <1>1, <1>2 DEF TokenOK, SyncT, RemotoT
\* As it is now, or another version of it will be seen.
<1>10. google[g].ver <= sync[s].token[g] => g \in Passadas' \/ Visto(s, g)
  <2> SUFFICES ASSUME google[g].ver <= sync[s].token[g], ~Visto(s, g) PROVE g \in Passadas'
    OBVIOUS
  <2>1. google[g].ver = sync[s].itens[g].ver  BY <1>9
  <2> QED  BY <1>1, <2>1 DEF Passadas, Passada
<1>11. Visto(s, g) => /\ \A e \in Eventos : Elo(s, e).g = g => sync[s].itens[g].ver <= Elo(s, e).ver
                      /\ \E e \in Eventos : Elo(s, e).g = g
  <2> SUFFICES ASSUME Visto(s, g)
               PROVE  /\ \A e \in Eventos : Elo(s, e).g = g => sync[s].itens[g].ver <= Elo(s, e).ver
                      /\ \E e \in Eventos : Elo(s, e).g = g
    OBVIOUS
  <2>1. PICK d \in Vinculados(s, g) : sync[s].itens[g].ver <= Elo(s, d).ver  BY DEF Visto
  <2>2. d \in Eventos /\ Elo(s, d).g = g /\ g # SemRemoto  BY NomesAgenda DEF Vinculados
  <2>3. \A e \in Eventos : Elo(s, e).g = g => e = d  BY <2>2, EloUnico
  <2> QED  BY <2>1, <2>2, <2>3
<1>12. ASSUME NEW e, NEW l, NEW v, NEW visto, NEW resta,
              LigadoOK(e, l, v, visto, resta, google, Passadas, tardias)
       PROVE  LigadoOK(e, l, v, visto, resta, google, Passadas', tardias)
  BY ONLY <1>7, <1>12 DEF LigadoOK
<1>13. ASSUME NEW e, NEW l, NEW v, IgualOK(e, l, v, google, Passadas, tardias)
       PROVE  IgualOK(e, l, v, google, Passadas', tardias)
  BY ONLY <1>7, <1>13 DEF IgualOK
<1>14. TabelasOK' /\ AcertadasOK'
  <2>1. TabelasOK'  BY ONLY <1>2, <1>7, <1>8, <1>12 DEF TabelasOK, Sabido
  <2>2. AcertadasOK'  BY ONLY <1>2, <1>7, <1>8, <1>13 DEF AcertadasOK, Sabido
  <2> QED  BY <2>1, <2>2
<1>15. TokenOK(s)'  BY ONLY <1>1, <1>2, <1>3, <1>4, <1>8 DEF TokenOK
<1>16. DecididoOK(s)' /\ LidoOK(s)' /\ EnviadoOK(s)'
  BY ONLY <1>3, <1>4, <1>6 DEF DecididoOK, LidoOK, EnviadoOK
<1>17. VistaOK(s)'
  <2>1. ASSUME NEW e \in Eventos
        PROVE  LigadoOK(e, Elo(s, e), Ev(s, e), x.token, DOMAIN x.itens, google, Passadas', tardias)
    <3>1. LigadoOK(e, Elo(s, e), Ev(s, e), sync[s].token, DOMAIN sync[s].itens, google, Passadas', tardias)
      BY <1>2, <1>12 DEF VistaOK
    <3>2. Elo(s, e).ver \in Nat  BY <1>2, EvTem DEF EloT
    <3>3. Elo(s, e).g = g /\ Elo(s, e).ver < google[g].ver =>
            sync[s].token[g] < google[g].ver \/ g \in Passadas'
      <4> SUFFICES ASSUME Elo(s, e).g = g, Elo(s, e).ver < google[g].ver,
                          ~(sync[s].token[g] < google[g].ver)
                   PROVE  g \in Passadas'
        OBVIOUS
      <4>1. google[g].ver <= sync[s].token[g]  BY <1>9
      <4>2. ~Visto(s, g)  BY <1>9, <1>11, <3>2, <4>1
      <4> QED  BY <1>10, <4>1, <4>2
    <3> QED  BY ONLY <1>3, <3>1, <3>3 DEF LigadoOK
  <2>2. google[g].ver <= sync[s].token[g] => SabidoPor(s, g)'
    BY <1>5, <1>10, <1>11 DEF SabidoPor
  <2>3. \A h \in Remotos : SabidoPor(s, h) => SabidoPor(s, h)'  BY <1>5, <1>7 DEF SabidoPor
  <2>4. \A h \in Remotos \ DOMAIN x.itens :
          google[h].st = "vivo" /\ google[h].ver <= x.token[h] => SabidoPor(s, h)'
    BY ONLY <1>2, <1>3, <2>2, <2>3 DEF VistaOK
  <2> QED  BY ONLY <1>4, <1>5, <1>8, <2>1, <2>4 DEF VistaOK
<1>18. CalmaOK(s)'  BY ONLY <1>1, <1>2, <1>3, <1>4, <1>8 DEF CalmaOK
<1>19. MantidoOK(s)'  BY ONLY <1>2, <1>3, <1>4, <1>5, <1>8, <1>13 DEF MantidoOK
<1>20. AtivaOK(s)'  BY <1>15, <1>16, <1>17, <1>18, <1>19 DEF AtivaOK
<1> QED  BY <1>1, <1>2, <1>3, <1>4, <1>14, <1>20, AcertosSeguem

LEMMA FimDaBuscaAcerta ==
    ASSUME IInvGoogle, IInvGoogle', Acertos, direcao = "bidirecional", NEW s \in Syncs, FimDaBusca(s)
    PROVE  Acertos'
<1> PICK x : x = [sync[s] EXCEPT !.passo = "ler"]  BY Zenon
<1>1. /\ sync[s].passo = "importar" /\ sync' = [sync EXCEPT ![s] = x]
      /\ UNCHANGED <<token, evento, elo, google, rasc, edicao, acertado, tardias, duvidosos, puladas>>
  BY DEF FimDaBusca, Seguir, tabelasAgenda, fixoAgenda, historiaAgenda
<1>30. Passadas' = Passadas  BY <1>1, PassadasFicam
<1>2. /\ TipoGoogle /\ sync[s] \in SyncT /\ sync \in [Syncs -> SyncT]
      /\ sync[s].junto = "nao" /\ duvidosos = {} /\ TabelasOK /\ AcertadasOK
      /\ TokenOK(s) /\ LidoOK(s) /\ VistaOK(s) /\ CalmaOK(s) /\ MantidoOK(s)
  BY <1>1 DEF IInvGoogle, TipoGoogle, SyncsOK, Acertos, AtivaOK
<1>3. /\ sync'[s] = x /\ \A t \in Syncs \ {s} : sync'[t] = sync[t]
      /\ x.passo = "ler" /\ x.itens = sync[s].itens
      /\ x.token = sync[s].token /\ x.junto = sync[s].junto /\ x.lista = sync[s].lista
      /\ x.calmo = sync[s].calmo
  BY <1>1, <1>2 DEF SyncT
<1>4. \A e : Elo(s, e)' = Elo(s, e) /\ Ev(s, e)' = Ev(s, e)  BY <1>1 DEF Elo, Ev
<1>5. TabelasOK' /\ AcertadasOK'  BY <1>1, <1>2, TabelasFicam
<1>6. /\ google' = google /\ Passadas' = Passadas /\ token' = token /\ tardias' = tardias /\ edicao' = edicao /\ rasc' = rasc
      /\ evento' = evento /\ elo' = elo /\ acertado' = acertado
  BY <1>30, <1>1
<1>7. TokenOK(s)' /\ DecididoOK(s)' /\ LidoOK(s)' /\ EnviadoOK(s)'
  BY ONLY <1>2, <1>3, <1>6 DEF TokenOK, DecididoOK, LidoOK, EnviadoOK
<1>8. VistaOK(s)'  BY ONLY <1>2, <1>3, <1>4, <1>6 DEF VistaOK, SabidoPor
<1>9. CalmaOK(s)'  BY ONLY <1>1, <1>2, <1>3, <1>6 DEF CalmaOK
<1>10. MantidoOK(s)'  BY ONLY <1>2, <1>3, <1>4, <1>6 DEF MantidoOK
<1>11. AtivaOK(s)'  BY <1>7, <1>8, <1>9, <1>10 DEF AtivaOK
<1> QED  BY <1>1, <1>2, <1>3, <1>5, <1>11, AcertosSeguem

LEMMA AplicarAcerta ==
    ASSUME IInvGoogle, IInvGoogle', Acertos, NEW s \in Syncs, Aplicar(s)
    PROVE  Acertos'
<1> PICK e : e = sync[s].e  BY Zenon
<1> PICK g : g = sync[s].g  BY Zenon
<1> PICK item : item = sync[s].itens[g]  BY Zenon
<1> PICK novo : novo = Importado(s, e, item)  BY Zenon
<1> PICK l : l = [g |-> g, ver |-> item.ver, sist |-> relogio, st |-> "sincronizado"]  BY Zenon
<1>1. /\ sync[s].passo = "aplicar" /\ sync[s].acao # "nada" /\ e = sync[s].e /\ g = sync[s].g
      /\ ~Repetido(s, e, g)
      /\ rasc' = [rasc EXCEPT ![s].ev = Por(@, e, novo), ![s].elo = Por(@, e, l)]
      /\ sync' = [sync EXCEPT ![s] = ItemFeito(s)]
      /\ UNCHANGED <<token, evento, elo, google, edicao, acertado, tardias, duvidosos, puladas>>
  BY DEF Aplicar, Seguir, tabelasAgenda, fixoAgenda, historiaAgenda
<1>30. Passadas' = Passadas  BY <1>1, PassadasFicam
<1>2. /\ TipoGoogle /\ sync[s] \in SyncT /\ sync \in [Syncs -> SyncT] /\ google \in [Remotos -> RemotoT]
      /\ rasc \in [Syncs -> RascunhoT]
      /\ PassoOK(s) /\ sync[s].junto = "nao" /\ duvidosos = {} /\ TabelasOK /\ AcertadasOK
      /\ TokenOK(s) /\ DecididoOK(s) /\ VistaOK(s) /\ CalmaOK(s) /\ MantidoOK(s)
  BY <1>1 DEF IInvGoogle, TipoGoogle, SyncsOK, Acertos, AtivaOK
<1> PICK x : x = ItemFeito(s)  BY Zenon
<1>3. /\ x.passo = "importar" /\ x.token = sync[s].token /\ x.lista = sync[s].lista
      /\ x.junto = sync[s].junto /\ DOMAIN x.itens = DOMAIN sync[s].itens \ {g}
      /\ \A h \in DOMAIN x.itens : x.itens[h] = sync[s].itens[h]
  BY <1>2, ItemFeitoTem
<1>4. x.calmo = sync[s].calmo  BY <1>2 DEF ItemFeito, SyncT
<1>5. sync'[s] = x /\ \A t \in Syncs \ {s} : sync'[t] = sync[t]  BY <1>1, <1>2
<1>6. /\ DOMAIN sync[s].lista = {} /\ g \in DOMAIN sync[s].itens /\ g \in Remotos /\ e \in Eventos
      /\ item \in RemotoT
  BY <1>1, <1>2, SyncTem DEF PassoOK
\* What the draft shows afterwards.
<1>7. /\ Elo(s, e)' = l /\ Ev(s, e)' = novo
      /\ \A d : d # e => Elo(s, d)' = Elo(s, d) /\ Ev(s, d)' = Ev(s, d)
  <2>1. rasc[s] \in RascunhoT /\ rasc'[s] = [rasc[s] EXCEPT !.ev = Por(@, e, novo), !.elo = Por(@, e, l)]
    BY <1>1, <1>2
  <2>2. rasc'[s].ev = Por(rasc[s].ev, e, novo) /\ rasc'[s].elo = Por(rasc[s].elo, e, l)
    BY ONLY <2>1 DEF RascunhoT
  <2>3. evento' = evento /\ elo' = elo  BY <1>1
  <2> QED  BY ONLY <2>2, <2>3 DEF Elo, Ev, Por
<1>8. l.g = g /\ l.ver = item.ver /\ l.g # SemRemoto  BY <1>6, NomesAgenda
<1>9. /\ item.ver = sync[s].token[g] /\ sync[s].token[g] <= google[g].ver
      /\ item.ver \in Nat /\ google[g].ver \in Nat
      /\ google[g].ver = item.ver => item = google[g]
  BY <1>2, <1>6 DEF TokenOK, RemotoT
<1>10. novo.st = "vivo" => item.st = "vivo" /\ novo.cont = item.cont
  <2>1. sync[s].acao \in {"inserir", "atualizar", "cancelar"}  BY <1>1, <1>2 DEF PassoOK
  <2>2. CASE sync[s].acao = "cancelar"
    <3>1. novo.st # "vivo"  BY <2>2 DEF Importado
    <3> QED  BY <3>1
  <2>3. CASE sync[s].acao # "cancelar"
    <3>1. item.st = "vivo"  BY <1>1, <1>2, <2>1, <2>3 DEF DecididoOK
    <3>2. novo.cont = item.cont  BY <2>3 DEF Importado
    <3> QED  BY <3>1, <3>2
  <2> QED  BY <2>2, <2>3
<1>11. \A d \in Eventos : d # e => Elo(s, d).g # g  BY <1>1 DEF Repetido
<1>12. Elo(s, e).g \in {SemRemoto, g}
  <2>1. PorLigar(sync[s], e, g)  BY <1>1 DEF PorLigar
  <2> QED  BY <1>2, <1>6, <2>1, EloAlvo
<1>13. TabelasOK' /\ AcertadasOK'  BY <1>1, <1>2, TabelasFicam
<1>14. TokenOK(s)'
  <2>1. google' = google /\ Passadas' = Passadas /\ token' = token  BY <1>30, <1>1
  <2> QED  BY ONLY <1>2, <1>3, <1>5, <2>1 DEF TokenOK
<1>15. DecididoOK(s)' /\ LidoOK(s)' /\ EnviadoOK(s)'
  BY ONLY <1>3, <1>5, <1>6 DEF DecididoOK, LidoOK, EnviadoOK
<1>16. VistaOK(s)'
  <2>1. ASSUME NEW d \in Eventos, d # e
        PROVE  LigadoOK(d, Elo(s, d), Ev(s, d), x.token, DOMAIN x.itens, google, Passadas, tardias)
    <3>1. LigadoOK(d, Elo(s, d), Ev(s, d), sync[s].token, DOMAIN sync[s].itens, google, Passadas, tardias)
      BY <1>2 DEF VistaOK
    <3>2. Elo(s, d).g # g  BY <1>11, <2>1
    <3> QED  BY ONLY <1>3, <3>1, <3>2 DEF LigadoOK
  <2>2. LigadoOK(e, l, novo, x.token, DOMAIN x.itens, google, Passadas, tardias)
    BY ONLY <1>3, <1>8, <1>9, <1>10 DEF LigadoOK
  <2>3. ASSUME NEW h \in Remotos \ DOMAIN x.itens, google[h].st = "vivo", google[h].ver <= x.token[h]
        PROVE  h \in Passadas \/ \E d \in Eventos : Elo(s, d)'.g = h
    <3>1. CASE h = g  BY <1>6, <1>7, <1>8, <3>1
    <3>2. CASE h # g /\ h \notin Passadas
      <4>1. PICK d \in Eventos : Elo(s, d).g = h  BY <1>2, <1>3, <2>3, <3>2 DEF VistaOK, SabidoPor
      <4>2. d # e  BY <1>12, <3>2, <4>1, NomesAgenda
      <4> QED  BY <1>7, <4>1, <4>2
    <3> QED  BY <3>1, <3>2
  <2>4. google' = google /\ Passadas' = Passadas /\ tardias' = tardias  BY <1>30, <1>1
  <2> QED  BY ONLY <1>5, <1>7, <2>1, <2>2, <2>3, <2>4 DEF VistaOK, SabidoPor
<1>17. CalmaOK(s)'
  <2>1. edicao' = edicao /\ google' = google /\ Passadas' = Passadas  BY <1>30, <1>1
  <2> QED  BY ONLY <1>1, <1>2, <1>3, <1>4, <1>5, <2>1 DEF CalmaOK
<1>18. MantidoOK(s)'
  <2>1. acertado' = acertado /\ google' = google /\ Passadas' = Passadas /\ tardias' = tardias  BY <1>30, <1>1
  <2>2. acertado = "sim" => IgualOK(e, l, novo, google, Passadas, tardias)
    <3>1. acertado = "sim" => item = google[g]
      <4>1. acertado = "sim" => sync[s].token[g] = google[g].ver
        BY <1>1, <1>2, <1>6 DEF MantidoOK, CalmaOK
      <4> QED  BY <1>9, <4>1
    <3> QED  BY ONLY <1>8, <1>10, <3>1 DEF IgualOK
  <2>3. \A d \in Eventos : acertado = "sim" => IgualOK(d, Elo(s, d)', Ev(s, d)', google, Passadas, tardias)
    BY <1>2, <1>7, <2>2 DEF MantidoOK
  <2>4. acertado = "sim" => x.calmo = "sim"  BY <1>2, <1>4 DEF MantidoOK
  <2> QED  BY ONLY <1>3, <1>5, <1>6, <2>1, <2>3, <2>4 DEF MantidoOK
<1>19. AtivaOK(s)'  BY <1>14, <1>15, <1>16, <1>17, <1>18 DEF AtivaOK
<1> QED  BY <1>1, <1>2, <1>3, <1>5, <1>13, <1>19, AcertosSeguem

-----------------------------------------------------------------------------
(* The push. *)

LEMMA LerEventosAcerta ==
    ASSUME IInvGoogle, IInvGoogle', Acertos, NEW s \in Syncs, LerEventos(s)
    PROVE  Acertos'
<1> PICK f : f = [e \in AEnviar(s) |-> [ev |-> Ev(s, e), g |-> Elo(s, e).g]]  BY Zenon
<1> PICK x : x = [sync[s] EXCEPT !.passo = "enviar", !.lista = f]  BY Zenon
<1>1. /\ sync[s].passo = "ler" /\ sync' = [sync EXCEPT ![s] = x]
      /\ UNCHANGED <<token, evento, elo, google, rasc, edicao, acertado, tardias, duvidosos, puladas>>
  BY DEF LerEventos, Seguir, tabelasAgenda, fixoAgenda, historiaAgenda
<1>30. Passadas' = Passadas  BY <1>1, PassadasFicam
<1>2. /\ TipoGoogle /\ sync[s] \in SyncT /\ sync \in [Syncs -> SyncT] /\ google \in [Remotos -> RemotoT]
      /\ PassoOK(s) /\ RascunhoOK(s) /\ sync[s].junto = "nao" /\ duvidosos = {} /\ TabelasOK /\ AcertadasOK
      /\ TokenOK(s) /\ VistaOK(s) /\ CalmaOK(s) /\ MantidoOK(s)
  BY <1>1 DEF IInvGoogle, TipoGoogle, SyncsOK, Acertos, AtivaOK
<1>3. /\ sync'[s] = x /\ \A t \in Syncs \ {s} : sync'[t] = sync[t]
      /\ x.passo = "enviar" /\ x.itens = sync[s].itens /\ x.lista = f
      /\ x.token = sync[s].token /\ x.junto = sync[s].junto /\ x.calmo = sync[s].calmo
  BY <1>1, <1>2 DEF SyncT
<1>4. /\ DOMAIN f = AEnviar(s) /\ AEnviar(s) \subseteq Eventos
      /\ \A e \in DOMAIN f : f[e].ev = Ev(s, e) /\ f[e].g = Elo(s, e).g
  BY DEF AEnviar
<1>5. \A e : Elo(s, e)' = Elo(s, e) /\ Ev(s, e)' = Ev(s, e)  BY <1>1 DEF Elo, Ev
<1>6. DOMAIN sync[s].itens = {}  BY <1>1, <1>2 DEF PassoOK
<1>7. /\ google' = google /\ Passadas' = Passadas /\ token' = token /\ tardias' = tardias /\ edicao' = edicao /\ rasc' = rasc
      /\ evento' = evento /\ elo' = elo /\ acertado' = acertado
  BY <1>30, <1>1
\* What the pull has just written is not sent back.
<1>8. ASSUME NEW e \in AEnviar(s)
      PROVE  e \notin DOMAIN rasc[s].elo /\ Elo(s, e) = elo[e] /\ Ev(s, e) = evento[e]
  <2>1. e \notin DOMAIN rasc[s].elo
    <3> SUFFICES ASSUME e \in DOMAIN rasc[s].elo PROVE FALSE
      OBVIOUS
    <3>1. /\ e \in DOMAIN rasc[s].ev /\ rasc[s].elo[e].g # SemRemoto
          /\ rasc[s].ev[e].mod <= rasc[s].elo[e].sist
      BY <1>1, <1>2 DEF RascunhoOK
    <3>2. rasc[s].ev[e].mod \in Nat /\ rasc[s].elo[e].sist \in Nat
      BY <1>2, <3>1, SyncTem DEF EventoT, EloT
    <3>3. Ev(s, e).mod <= Elo(s, e).sist /\ Elo(s, e).g # SemRemoto  BY <3>1 DEF Ev, Elo
    <3>4. Ev(s, e).mod > Elo(s, e).sist  BY <3>3 DEF AEnviar
    <3> QED  BY <3>1, <3>2, <3>4 DEF Ev, Elo
  <2>2. e \notin DOMAIN rasc[s].ev  BY <1>2, <2>1 DEF RascunhoOK
  <2> QED  BY <2>1, <2>2 DEF Ev, Elo
<1>9. TabelasOK' /\ AcertadasOK'  BY <1>1, <1>2, TabelasFicam
<1>10. TokenOK(s)' /\ DecididoOK(s)' /\ EnviadoOK(s)'
  BY ONLY <1>2, <1>3, <1>7 DEF TokenOK, DecididoOK, EnviadoOK
<1>11. LidoOK(s)'  BY ONLY <1>3, <1>4, <1>7, <1>8 DEF LidoOK
<1>12. VistaOK(s)'  BY ONLY <1>2, <1>3, <1>5, <1>7 DEF VistaOK, SabidoPor
<1>13. CalmaOK(s)'
  <2> SUFFICES ASSUME x.calmo = "sim" PROVE CalmaOK(s)'
    BY <1>3 DEF CalmaOK
  <2>1. /\ \A r \in Edicoes : edicao[r] = EdicaoLivre
        /\ \A g \in Remotos : sync[s].token[g] = google[g].ver
    BY <1>1, <1>2, <1>3 DEF CalmaOK
  <2>2. \A g \in Remotos : google[g].ver \in Nat  BY <1>2 DEF RemotoT
  <2>3. \A g \in Remotos : google[g].st = "vivo" => SabidoPor(s, g)
    BY <1>2, <1>6, <2>1, <2>2 DEF VistaOK
  <2>4. \A e \in DOMAIN f : evento[e] = f[e].ev  BY <1>4, <1>8
  <2>5. ASSUME NEW e \in Eventos, e \notin AEnviar(s)
        PROVE  /\ Ev(s, e).st \in {"vivo", "cancelado"} => Elo(s, e).g # SemRemoto
               /\ Ev(s, e).st = "vivo" => /\ Ev(s, e).mod <= Elo(s, e).sist
                                          /\ \/ Elo(s, e).ver = google[Elo(s, e).g].ver
                                             \/ Elo(s, e).g \in Passadas
    <3>1. Ev(s, e) \in EventoT /\ Elo(s, e) \in EloT  BY <1>2, EvTem
    <3>2. Ev(s, e).st \in {"vivo", "cancelado"} =>
            Elo(s, e).g # SemRemoto /\ Ev(s, e).mod <= Elo(s, e).sist
      <4>1. Ev(s, e).mod \in Nat /\ Elo(s, e).sist \in Nat  BY ONLY <3>1 DEF EventoT, EloT
      <4>2. Ev(s, e).st \in {"vivo", "cancelado"} =>
              ~(Elo(s, e).g = SemRemoto \/ Ev(s, e).mod > Elo(s, e).sist)
        BY <2>5 DEF AEnviar
      <4> QED  BY ONLY <4>1, <4>2
    <3>3. ASSUME Elo(s, e).g # SemRemoto
          PROVE  Elo(s, e).ver = google[Elo(s, e).g].ver \/ Elo(s, e).g \in Passadas
      <4>1. LigadoOK(e, Elo(s, e), Ev(s, e), sync[s].token, {}, google, Passadas, tardias)
        BY <1>2, <1>6 DEF VistaOK
      <4>2. Elo(s, e).g \in Remotos /\ Elo(s, e).ver \in Nat  BY <3>1, <3>3 DEF EloT
      <4> QED  BY ONLY <2>1, <2>2, <3>3, <4>1, <4>2 DEF LigadoOK
    <3> QED  BY ONLY <3>2, <3>3
  <2> QED  BY ONLY <1>3, <1>4, <1>5, <1>7, <2>1, <2>3, <2>4, <2>5 DEF CalmaOK, SabidoPor
<1>14. MantidoOK(s)'
  <2>1. ASSUME acertado = "sim", NEW e \in DOMAIN f PROVE f[e].g # SemRemoto
    <3>1. IgualOK(e, Elo(s, e), Ev(s, e), google, Passadas, tardias)  BY <1>2, <1>4, <2>1 DEF MantidoOK
    <3> QED  BY <1>4, <3>1 DEF IgualOK, AEnviar
  <2> QED  BY ONLY <1>2, <1>3, <1>5, <1>7, <2>1 DEF MantidoOK
<1>15. AtivaOK(s)'  BY <1>10, <1>11, <1>12, <1>13, <1>14 DEF AtivaOK
<1> QED  BY <1>1, <1>2, <1>3, <1>9, <1>15, AcertosSeguem

LEMMA EnvioAcerta ==
    ASSUME IInvGoogle, IInvGoogle', Acertos, NEW s \in Syncs, NEW x \in SyncT, NEW n \in RemotoT,
           NEW e0 \in Eventos, NEW g0 \in Remotos, Envio(s, x, n, e0, g0)
    PROVE  Acertos'
<1>1. /\ sync' = [sync EXCEPT ![s] = x] /\ google' = [google EXCEPT ![g0] = n]
      /\ UNCHANGED <<token, evento, elo, rasc, edicao, acertado, tardias, puladas>>
      /\ sync[s].passo = "enviar" /\ x.passo = "anotar" /\ x.e = e0 /\ x.g = g0
      /\ x.calmo = sync[s].calmo /\ x.ver = n.ver
      /\ x.junto = sync[s].junto /\ x.token = sync[s].token /\ x.itens = sync[s].itens
      /\ x.lista = sync[s].lista /\ e0 \in DOMAIN x.lista /\ n.ver = google[g0].ver + 1
      /\ sync[s].junto = "nao" => duvidosos' = duvidosos
      /\ x.acao = "excluir" => n.st = "cancelado" /\ x.lista[e0].ev.st # "vivo"
      /\ x.acao = "vincular" => n.st = "vivo" /\ n.cont = x.lista[e0].ev.cont
      /\ \/ x.acao = "excluir" /\ x.lista[e0].g = g0
         \/ x.acao = "vincular" /\ x.lista[e0].g = g0
         \/ x.acao = "vincular" /\ x.lista[e0].g = SemRemoto /\ google[g0].st = "livre"
  BY DEF Envio
<1>2. /\ TipoGoogle /\ sync \in [Syncs -> SyncT] /\ google \in [Remotos -> RemotoT]
      /\ sync[s].token \in [Remotos -> Nat] /\ token \in [Remotos -> Nat]
      /\ elo \in [Eventos -> EloT]
      /\ PassoOK(s) /\ RascunhoOK(s) /\ sync[s].junto = "nao" /\ duvidosos = {} /\ TabelasOK /\ AcertadasOK
      /\ TokenOK(s) /\ LidoOK(s) /\ VistaOK(s) /\ CalmaOK(s) /\ MantidoOK(s)
  BY <1>1 DEF IInvGoogle, TipoGoogle, SyncsOK, Acertos, AtivaOK, SyncT
<1>3. /\ sync'[s] = x /\ \A t \in Syncs \ {s} : sync'[t] = sync[t]
      /\ google' \in [Remotos -> RemotoT] /\ google'[g0] = n
      /\ \A h \in Remotos : h # g0 => google'[h] = google[h]
      /\ \A h \in Remotos : google[h].ver \in Nat /\ google'[h].ver \in Nat /\ token[h] \in Nat
                            /\ sync[s].token[h] \in Nat
      /\ google'[g0].ver > google[g0].ver
  BY <1>1, <1>2 DEF RemotoT
<1>4. \A e : Elo(s, e)' = Elo(s, e) /\ Ev(s, e)' = Ev(s, e)  BY <1>1 DEF Elo, Ev
<1>5. /\ token' = token /\ tardias' = tardias /\ edicao' = edicao /\ rasc' = rasc
      /\ evento' = evento /\ elo' = elo /\ acertado' = acertado /\ duvidosos' = {}
  BY <1>1, <1>2
<1>30. \A h \in Remotos : h # g0 /\ h \in Passadas => h \in Passadas'
  BY <1>1, <1>3, PassadasSalvo
<1>6. /\ DOMAIN sync[s].itens = {}
      /\ \A h \in Remotos : token[h] <= google[h].ver /\ sync[s].token[h] <= google[h].ver
                            /\ token[h] <= sync[s].token[h]
  BY <1>1, <1>2 DEF PassoOK, TokenOK, TabelasOK
\* The event as it was read.
<1>7. /\ e0 \notin DOMAIN rasc[s].elo /\ x.lista[e0].g = elo[e0].g
      /\ Elo(s, e0) = elo[e0] /\ Ev(s, e0) = evento[e0]
  <2>1. e0 \notin DOMAIN rasc[s].elo /\ x.lista[e0].g = elo[e0].g  BY <1>1, <1>2 DEF LidoOK
  <2>2. e0 \notin DOMAIN rasc[s].ev  BY <1>2, <2>1 DEF RascunhoOK
  <2> QED  BY <2>1, <2>2 DEF Elo, Ev
<1>8. elo[e0].g = g0 \/ (elo[e0].g = SemRemoto /\ \A e \in Eventos : ~Fala(e, g0))
  <2>1. google[g0].st = "livre" => \A e \in Eventos : ~Fala(e, g0)  BY DEF IInvGoogle, Intacto
  <2> QED  BY <1>1, <1>7, <2>1
\* Nobody else is linked with what changes.
<1>9. ASSUME NEW e \in Eventos, e # e0 PROVE elo[e].g # g0 /\ Elo(s, e).g # g0
  <2>1. CASE elo[e0].g = g0
    <3>1. Elo(s, e).g # g0  BY <1>7, <1>9, <2>1, EloUnico, NomesAgenda
    <3>2. elo[e].g # g0  BY <1>9, <2>1, NomesAgenda DEF IInvGoogle, Unicos
    <3> QED  BY <3>1, <3>2
  <2>2. CASE \A d \in Eventos : ~Fala(d, g0)
    <3>1. ~Fala(e, g0)  BY <2>2
    <3> QED  BY <3>1 DEF Fala, FalaDe, Elo
  <2> QED  BY <1>8, <2>1, <2>2
<1>10. TabelasOK'
  <2>1. \A h \in Remotos : token[h] <= google'[h].ver  BY ONLY <1>3, <1>6
  <2>2. ASSUME NEW e \in Eventos
        PROVE  LigadoOK(e, elo[e], evento[e], token, {}, google', Passadas', tardias)
    <3>1. LigadoOK(e, elo[e], evento[e], token, {}, google, Passadas, tardias)  BY <1>2 DEF TabelasOK
    <3>2. elo[e] \in EloT  BY <1>2
    <3> QED  BY <1>2, <1>3, <1>6, <1>30, <3>1, <3>2, LigadoGoogle
  <2>3. ASSUME NEW h \in Remotos, google'[h].st = "vivo", google'[h].ver <= token[h]
        PROVE  Sabido(h)'
    <3>1. h # g0  BY ONLY <1>3, <1>6, <2>3
    <3> QED  BY <1>2, <1>3, <1>5, <1>30, <2>3, <3>1 DEF TabelasOK, Sabido
  <2> QED  BY ONLY <1>5, <2>1, <2>2, <2>3 DEF TabelasOK
\* What was equal before the call, and is sent again, is equal after it.
<1>11. ASSUME acertado = "sim"
       PROVE  /\ elo[e0].g = g0 /\ evento[e0] = x.lista[e0].ev
              /\ evento[e0].st = "vivo" => n.st = "vivo" /\ n.cont = evento[e0].cont
  <2>1. sync[s].calmo = "sim" /\ x.lista[e0].g # SemRemoto  BY <1>1, <1>2, <1>11 DEF MantidoOK
  <2>2. evento[e0] = x.lista[e0].ev  BY <1>1, <1>2, <2>1 DEF CalmaOK
  <2> QED  BY <1>1, <1>7, <1>8, <2>1, <2>2
<1>12. ASSUME acertado = "sim", NEW e \in Eventos,
              IgualOK(e, elo[e], evento[e], google, Passadas, tardias)
       PROVE  IgualOK(e, elo[e], evento[e], google', Passadas', tardias)
  <2>1. CASE e = e0  BY ONLY <1>3, <1>11, <1>12, <2>1 DEF IgualOK
  <2>2. CASE e # e0
    <3>1. elo[e].g \in Remotos \cup {SemRemoto}  BY <1>2 DEF EloT
    <3> QED  BY ONLY <1>3, <1>9, <1>12, <1>30, <2>2, <3>1 DEF IgualOK
  <2> QED  BY <2>1, <2>2
<1>13. ASSUME acertado = "sim", NEW e \in Eventos
       PROVE  IgualOK(e, Elo(s, e), Ev(s, e), google', Passadas', tardias)
  <2>1. IgualOK(e, Elo(s, e), Ev(s, e), google, Passadas, tardias)  BY <1>2, <1>13 DEF MantidoOK
  <2>2. CASE e = e0  BY ONLY <1>3, <1>7, <1>11, <1>13, <2>1, <2>2 DEF IgualOK
  <2>3. CASE e # e0
    <3>1. Elo(s, e).g \in Remotos \cup {SemRemoto}  BY <1>2, EvTem DEF EloT
    <3> QED  BY ONLY <1>3, <1>9, <1>30, <2>1, <2>3, <3>1 DEF IgualOK
  <2> QED  BY <2>2, <2>3
<1>14. AcertadasOK'
  <2> SUFFICES ASSUME acertado = "sim" PROVE AcertadasOK'
    BY <1>5 DEF AcertadasOK
  <2>1. /\ \A r \in Edicoes : edicao[r] = EdicaoLivre
        /\ \A e \in Eventos : IgualOK(e, elo[e], evento[e], google, Passadas, tardias)
        /\ \A h \in Remotos : google[h].st = "vivo" => Sabido(h)
    BY <1>2 DEF AcertadasOK
  <2>2. \A e \in Eventos : IgualOK(e, elo[e], evento[e], google', Passadas', tardias)  BY <1>12, <2>1
  <2>3. ASSUME NEW h \in Remotos, google'[h].st = "vivo" PROVE Sabido(h)'
    <3>1. CASE h = g0  BY <1>5, <1>11, <3>1 DEF Sabido
    <3>2. CASE h # g0  BY <1>3, <1>5, <1>30, <2>1, <2>3, <3>2 DEF Sabido
    <3> QED  BY <3>1, <3>2
  <2> QED  BY ONLY <1>5, <2>1, <2>2, <2>3 DEF AcertadasOK
<1>15. TokenOK(s)'
  <2>1. \A h \in Remotos : token[h] <= sync[s].token[h] /\ sync[s].token[h] <= google'[h].ver
    BY ONLY <1>3, <1>6
  <2> QED  BY ONLY <1>1, <1>3, <1>5, <1>6, <2>1 DEF TokenOK
<1>16. DecididoOK(s)' /\ LidoOK(s)'
  BY ONLY <1>1, <1>2, <1>3, <1>5 DEF DecididoOK, LidoOK
<1>17. EnviadoOK(s)'
  <2>1. sync[s].token[g0] < n.ver /\ n.ver <= google'[g0].ver  BY ONLY <1>1, <1>3, <1>6
  <2>2. x.acao = "excluir" => x.lista[e0].g # SemRemoto  BY <1>1, NomesAgenda
  <2> QED  BY ONLY <1>1, <1>3, <2>1, <2>2 DEF EnviadoOK
<1>18. VistaOK(s)'
  <2>1. ASSUME NEW e \in Eventos
        PROVE  LigadoOK(e, Elo(s, e), Ev(s, e), sync[s].token, DOMAIN sync[s].itens, google', Passadas', tardias)
    <3>1. LigadoOK(e, Elo(s, e), Ev(s, e), sync[s].token, DOMAIN sync[s].itens, google, Passadas, tardias)
      BY <1>2 DEF VistaOK
    <3>2. Elo(s, e) \in EloT  BY <1>2, EvTem
    <3> QED  BY <1>2, <1>3, <1>6, <1>30, <3>1, <3>2, LigadoGoogle
  <2>2. ASSUME NEW h \in Remotos, google'[h].st = "vivo", google'[h].ver <= sync[s].token[h]
        PROVE  SabidoPor(s, h)'
    <3>1. h # g0  BY ONLY <1>3, <1>6, <2>2
    <3>2. SabidoPor(s, h)  BY <1>2, <1>3, <1>6, <2>2, <3>1 DEF VistaOK
    <3> QED  BY ONLY <1>4, <1>30, <3>1, <3>2 DEF SabidoPor
  <2>3. sync'[s].token = sync[s].token /\ sync'[s].itens = sync[s].itens  BY <1>1, <1>3
  <2>4. tardias' = tardias  BY <1>5
  <2> QED  BY ONLY <1>4, <2>1, <2>2, <2>3, <2>4 DEF VistaOK
<1>19. CalmaOK(s)'
  <2> SUFFICES ASSUME sync[s].calmo = "sim" PROVE CalmaOK(s)'
    BY <1>1, <1>3 DEF CalmaOK
  <2>1. /\ \A r \in Edicoes : edicao[r] = EdicaoLivre
        /\ \A h \in Remotos : google[h].st = "vivo" => SabidoPor(s, h)
        /\ \A e \in DOMAIN sync[s].lista : evento[e] = sync[s].lista[e].ev
        /\ \A e \in Eventos \ DOMAIN sync[s].lista :
              /\ Ev(s, e).st \in {"vivo", "cancelado"} => Elo(s, e).g # SemRemoto
              /\ Ev(s, e).st = "vivo" => /\ Ev(s, e).mod <= Elo(s, e).sist
                                         /\ \/ Elo(s, e).ver = google[Elo(s, e).g].ver
                                            \/ Elo(s, e).g \in Passadas
    BY ONLY <1>1, <1>2, sync[s].calmo = "sim" DEF CalmaOK
  <2>2. ASSUME NEW h \in Remotos, google'[h].st = "vivo"
        PROVE  SabidoPor(s, h)' \/ (x.acao = "vincular" /\ h = g0)
    <3>1. CASE h = g0  BY <1>1, <1>3, <2>2, <3>1
    <3>2. CASE h # g0
      <4>1. SabidoPor(s, h)  BY <1>3, <2>1, <2>2, <3>2
      <4> QED  BY ONLY <1>4, <1>30, <3>2, <4>1 DEF SabidoPor
    <3> QED  BY <3>1, <3>2
  <2>3. ASSUME NEW e \in Eventos \ DOMAIN sync[s].lista, Ev(s, e).st = "vivo"
        PROVE  Elo(s, e).ver = google'[Elo(s, e).g].ver \/ Elo(s, e).g \in Passadas'
    <3>1. e # e0 /\ Elo(s, e).g # SemRemoto  BY <1>1, <2>1, <2>3
    <3>2. Elo(s, e).g \in Remotos  BY <1>2, <3>1, EvTem DEF EloT
    <3>3. Elo(s, e).g # g0  BY <1>9, <3>1
    <3> QED  BY <1>3, <1>30, <2>1, <2>3, <3>2, <3>3
  <2>4. x.ver = google'[g0].ver  BY ONLY <1>1, <1>3
  <2> QED  BY ONLY <1>1, <1>3, <1>4, <1>5, <2>1, <2>2, <2>3, <2>4 DEF CalmaOK
<1>20. MantidoOK(s)'
  <2>1. acertado = "sim" => /\ sync'[s].calmo = "sim"
                            /\ \A e \in DOMAIN sync'[s].lista : sync'[s].lista[e].g # SemRemoto
    BY <1>1, <1>2, <1>3 DEF MantidoOK
  <2>2. sync'[s].passo = "anotar"  BY <1>1, <1>3
  <2>3. acertado' = acertado /\ tardias' = tardias  BY <1>5
  <2> QED  BY ONLY <1>4, <1>13, <2>1, <2>2, <2>3 DEF MantidoOK
<1>21. AtivaOK(s)'  BY <1>15, <1>16, <1>17, <1>18, <1>19, <1>20 DEF AtivaOK
<1> QED  BY <1>1, <1>2, <1>3, <1>5, <1>10, <1>14, <1>21, AcertosSeguem

LEMMA EnviarAcerta ==
    ASSUME IInvGoogle, IInvGoogle', Acertos, NEW s \in Syncs, Enviar(s)
    PROVE  Acertos'
  BY Zenon, EnviarEnvia, EnvioAcerta

LEMMA AnotarAcerta ==
    ASSUME IInvGoogle, IInvGoogle', Acertos, NEW s \in Syncs, Anotar(s)
    PROVE  Acertos'
<1> PICK e : e = sync[s].e  BY Zenon
<1> PICK g : g = sync[s].g  BY Zenon
<1> PICK f : f = sync[s].lista  BY Zenon
<1> PICK l : l = IF sync[s].acao = "excluir" THEN [Elo(s, e) EXCEPT !.st = "excluido"]
                 ELSE [g |-> g, ver |-> sync[s].ver, sist |-> f[e].ev.mod, st |-> "sincronizado"]
  BY Zenon
<1> PICK resto : resto = [d \in DOMAIN f \ {e} |-> f[d]]  BY Zenon
<1> PICK x : x = [sync[s] EXCEPT !.passo = "enviar", !.e = SemEvento, !.g = SemRemoto,
                                 !.acao = "nada", !.ver = 0, !.lista = resto]
  BY Zenon
<1>1. /\ sync[s].passo = "anotar"
      /\ rasc' = [rasc EXCEPT ![s].elo = Por(@, e, l)]
      /\ UNCHANGED <<token, evento, elo, google, edicao, acertado, tardias, duvidosos, puladas>>
  BY DEF Anotar, VistoAte, tabelasAgenda, fixoAgenda, historiaAgenda
<1>30. Passadas' = Passadas  BY <1>1, PassadasFicam
<1>2. /\ TipoGoogle /\ sync[s] \in SyncT /\ sync \in [Syncs -> SyncT] /\ rasc \in [Syncs -> RascunhoT]
      /\ google \in [Remotos -> RemotoT] /\ sync[s].token \in [Remotos -> Nat]
      /\ PassoOK(s) /\ RascunhoOK(s) /\ sync[s].junto = "nao" /\ duvidosos = {} /\ TabelasOK /\ AcertadasOK
      /\ TokenOK(s) /\ LidoOK(s) /\ EnviadoOK(s) /\ VistaOK(s) /\ CalmaOK(s) /\ MantidoOK(s)
  BY <1>1 DEF IInvGoogle, TipoGoogle, SyncsOK, Acertos, AtivaOK, SyncT
<1>3. /\ g \in Remotos /\ g # SemRemoto /\ e \in DOMAIN f /\ e \in Eventos
      /\ sync[s].acao \in {"excluir", "vincular"} /\ DOMAIN f \subseteq Eventos
      /\ f[e] \in ListadoT
  BY <1>1, <1>2, SyncTem, NomesAgenda DEF PassoOK
<1>4. sync' = [sync EXCEPT ![s] = x]
  BY <1>2 DEF Anotar, Seguir, SyncT
<1>5. /\ sync'[s] = x /\ \A t \in Syncs \ {s} : sync'[t] = sync[t]
      /\ x.passo = "enviar" /\ x.lista = resto /\ x.itens = sync[s].itens /\ x.token = sync[s].token
      /\ x.junto = sync[s].junto /\ x.calmo = sync[s].calmo
  BY <1>2, <1>4 DEF SyncT
<1>6. DOMAIN resto = DOMAIN f \ {e} /\ \A d \in DOMAIN resto : resto[d] = f[d]  OBVIOUS
<1>7. /\ token' = token /\ tardias' = tardias /\ edicao' = edicao /\ google' = google /\ Passadas' = Passadas
      /\ evento' = evento /\ elo' = elo /\ acertado' = acertado /\ duvidosos' = duvidosos
  BY <1>30, <1>1
\* What the draft shows afterwards.
<1>8. /\ rasc'[s].ev = rasc[s].ev /\ rasc'[s].elo = Por(rasc[s].elo, e, l)
  <2>1. rasc[s] \in RascunhoT /\ rasc'[s] = [rasc[s] EXCEPT !.elo = Por(@, e, l)]  BY <1>1, <1>2
  <2> QED  BY ONLY <2>1 DEF RascunhoT
<1>9. /\ DOMAIN rasc'[s].elo = DOMAIN rasc[s].elo \cup {e}
      /\ Elo(s, e)' = l /\ \A d : d # e => Elo(s, d)' = Elo(s, d)
      /\ \A d : Ev(s, d)' = Ev(s, d)
  BY ONLY <1>7, <1>8 DEF Elo, Ev, Por
<1>10. /\ f[e].g = elo[e].g /\ Elo(s, e) = elo[e] /\ Ev(s, e) = evento[e]
       /\ \/ evento[e] = f[e].ev
          \/ e \in tardias
          \/ evento[e].mod > f[e].ev.mod
       /\ \A d \in DOMAIN f : d \notin DOMAIN rasc[s].elo
  <2>1. /\ f[e].g = elo[e].g /\ \A d \in DOMAIN f : d \notin DOMAIN rasc[s].elo
        /\ \/ evento[e] = f[e].ev
           \/ e \in tardias
           \/ evento[e].mod > f[e].ev.mod
    BY <1>2, <1>3 DEF LidoOK
  <2>2. e \notin DOMAIN rasc[s].elo /\ e \notin DOMAIN rasc[s].ev  BY <1>2, <1>3, <2>1 DEF RascunhoOK
  <2> QED  BY <2>1, <2>2 DEF Elo, Ev
<1>11. f[e].ev \in EventoT /\ f[e].ev.mod \in Nat /\ evento[e].mod \in Nat /\ elo[e] \in EloT
  BY <1>2, <1>3 DEF ListadoT, EventoT, TipoGoogle
<1>12. /\ sync[s].token[g] < sync[s].ver /\ sync[s].ver <= google[g].ver
       /\ sync[s].acao = "excluir" => f[e].ev.st # "vivo" /\ f[e].g # SemRemoto
       /\ sync[s].acao = "vincular" /\ sync[s].ver = google[g].ver =>
             google[g].st = "vivo" /\ google[g].cont = f[e].ev.cont
       /\ sync[s].ver \in Nat /\ google[g].ver \in Nat /\ sync[s].token[g] \in Nat
  BY <1>1, <1>2, <1>3 DEF EnviadoOK, SyncT, RemotoT
<1>13. /\ sync[s].acao = "excluir" => l.g = elo[e].g /\ l.ver = elo[e].ver /\ l.sist = elo[e].sist
       /\ sync[s].acao = "vincular" => l.g = g /\ l.ver = sync[s].ver /\ l.sist = f[e].ev.mod
  BY ONLY <1>10, <1>11, l = IF sync[s].acao = "excluir" THEN [Elo(s, e) EXCEPT !.st = "excluido"]
                 ELSE [g |-> g, ver |-> sync[s].ver, sist |-> f[e].ev.mod, st |-> "sincronizado"]
     DEF EloT
<1>14. sync[s].acao = "vincular" => elo[e].g \in {SemRemoto, g}
  <2> SUFFICES ASSUME sync[s].acao = "vincular" PROVE elo[e].g \in {SemRemoto, g}
    OBVIOUS
  <2>1. PorLigar(sync[s], e, g)  BY <1>1 DEF PorLigar
  <2> QED  BY <1>2, <1>3, <1>10, <2>1, EloAlvo
<1>15. TabelasOK' /\ AcertadasOK'  BY <1>1, <1>2, TabelasFicam
<1>16. TokenOK(s)' /\ DecididoOK(s)' /\ EnviadoOK(s)'
  BY ONLY <1>2, <1>5, <1>7 DEF TokenOK, DecididoOK, EnviadoOK
<1>17. LidoOK(s)'
  <2>1. \A d \in DOMAIN resto :
          /\ d \notin DOMAIN rasc'[s].elo /\ resto[d].g = elo[d].g
          /\ \/ evento[d] = resto[d].ev
             \/ d \in tardias
             \/ evento[d].mod > resto[d].ev.mod
    BY <1>2, <1>6, <1>9 DEF LidoOK
  <2> QED  BY ONLY <1>5, <1>7, <2>1 DEF LidoOK
\* Who was known stays known.
<1>18. ASSUME NEW h \in Remotos, SabidoPor(s, h) PROVE SabidoPor(s, h)'
  <2>4. CASE h \in Passadas  BY <1>30, <2>4 DEF SabidoPor
  <2> SUFFICES ASSUME h \notin Passadas PROVE SabidoPor(s, h)'
    BY <2>4
  <2>1. PICK d \in Eventos : Elo(s, d).g = h  BY <1>18 DEF SabidoPor
  <2>2. CASE d # e  BY <1>9, <2>1, <2>2 DEF SabidoPor
  <2>3. CASE d = e
    <3>1. l.g = h  BY <1>3, <1>10, <1>13, <1>14, <2>1, <2>3, NomesAgenda
    <3> QED  BY <1>3, <1>9, <3>1 DEF SabidoPor
  <2> QED  BY <2>2, <2>3
<1>19. VistaOK(s)'
  <2>1. ASSUME NEW d \in Eventos
        PROVE  LigadoOK(d, Elo(s, d)', Ev(s, d), sync[s].token, DOMAIN sync[s].itens, google, Passadas, tardias)
    <3>1. LigadoOK(d, Elo(s, d), Ev(s, d), sync[s].token, DOMAIN sync[s].itens, google, Passadas, tardias)
      BY <1>2 DEF VistaOK
    <3>2. CASE d # e  BY <1>9, <3>1, <3>2
    <3>3. CASE d = e /\ sync[s].acao = "excluir"
      <4>1. LigadoOK(e, l, Ev(s, e), sync[s].token, DOMAIN sync[s].itens, google, Passadas, tardias)
        BY ONLY <1>10, <1>13, <3>1, <3>3 DEF LigadoOK
      <4>2. Elo(s, e)' = l  BY Zenon, <1>9
      <4> QED  BY ONLY <3>3, <4>1, <4>2
    <3>4. CASE d = e /\ sync[s].acao = "vincular"
      <4>1. LigadoOK(e, l, evento[e], sync[s].token, DOMAIN sync[s].itens, google, Passadas, tardias)
        BY ONLY <1>10, <1>11, <1>12, <1>13, <3>4 DEF LigadoOK
      <4> QED  BY <1>9, <1>10, <3>4, <4>1
    <3> QED  BY <1>3, <3>2, <3>3, <3>4
  <2>2. ASSUME NEW h \in Remotos \ DOMAIN sync[s].itens, google[h].st = "vivo",
               google[h].ver <= sync[s].token[h]
        PROVE  SabidoPor(s, h)'
    <3>1. SabidoPor(s, h)  BY <1>2, <2>2 DEF VistaOK
    <3> QED  BY <1>18, <3>1
  <2>3. sync'[s].token = sync[s].token /\ sync'[s].itens = sync[s].itens  BY <1>5
  <2>4. tardias' = tardias /\ google' = google /\ Passadas' = Passadas  BY <1>30, <1>7
  <2> QED  BY ONLY <1>9, <2>1, <2>2, <2>3, <2>4 DEF VistaOK
<1>20. CalmaOK(s)'
  <2> SUFFICES ASSUME sync[s].calmo = "sim" PROVE CalmaOK(s)'
    BY <1>5 DEF CalmaOK
  <2>1. /\ \A r \in Edicoes : edicao[r] = EdicaoLivre
        /\ \A h \in Remotos : google[h].st = "vivo" =>
              SabidoPor(s, h) \/ (sync[s].acao = "vincular" /\ g = h)
        /\ \A d \in DOMAIN f : evento[d] = f[d].ev
        /\ \A d \in Eventos \ DOMAIN f :
              /\ Ev(s, d).st \in {"vivo", "cancelado"} => Elo(s, d).g # SemRemoto
              /\ Ev(s, d).st = "vivo" => /\ Ev(s, d).mod <= Elo(s, d).sist
                                         /\ \/ Elo(s, d).ver = google[Elo(s, d).g].ver
                                            \/ Elo(s, d).g \in Passadas
        /\ sync[s].acao = "vincular" => sync[s].ver = google[g].ver
    BY ONLY <1>1, <1>2, sync[s].calmo = "sim", g = sync[s].g, f = sync[s].lista DEF CalmaOK
  <2>2. ASSUME NEW h \in Remotos, google[h].st = "vivo" PROVE SabidoPor(s, h)'
    <3>1. CASE SabidoPor(s, h)  BY <1>18, <3>1
    <3>2. CASE sync[s].acao = "vincular" /\ g = h  BY <1>3, <1>9, <1>13, <3>2 DEF SabidoPor
    <3> QED  BY <2>1, <2>2, <3>1, <3>2
  <2>3. ASSUME NEW d \in Eventos \ DOMAIN resto
        PROVE  /\ Ev(s, d).st \in {"vivo", "cancelado"} => Elo(s, d)'.g # SemRemoto
               /\ Ev(s, d).st = "vivo" => /\ Ev(s, d).mod <= Elo(s, d)'.sist
                                          /\ \/ Elo(s, d)'.ver = google[Elo(s, d)'.g].ver
                                             \/ Elo(s, d)'.g \in Passadas
    <3>1. CASE d # e
      <4>1. d \in Eventos \ DOMAIN f  BY <1>6, <3>1
      <4>2. Elo(s, d)' = Elo(s, d)  BY Zenon, <1>9, <3>1
      <4> QED  BY ONLY <2>1, <4>1, <4>2
    <3>2. CASE d = e
      <4>1. evento[e] = f[e].ev  BY <1>3, <2>1
      <4>2. /\ l.g # SemRemoto
            /\ evento[e].st = "vivo" => evento[e].mod <= l.sist /\ l.ver = google[l.g].ver
        BY ONLY <1>3, <1>10, <1>11, <1>12, <1>13, <2>1, <4>1
      <4> QED  BY <1>9, <1>10, <3>2, <4>2
    <3> QED  BY <3>1, <3>2
  <2>4. \A d \in DOMAIN resto : evento[d] = resto[d].ev  BY <1>6, <2>1
  <2> QED  BY ONLY <1>5, <1>7, <1>9, <2>1, <2>2, <2>3, <2>4 DEF CalmaOK
<1>21. MantidoOK(s)'
  <2>1. ASSUME acertado = "sim", NEW d \in Eventos
        PROVE  IgualOK(d, Elo(s, d)', Ev(s, d), google, Passadas, tardias)
    <3>1. IgualOK(d, Elo(s, d), Ev(s, d), google, Passadas, tardias)  BY <1>2, <2>1 DEF MantidoOK
    <3>2. CASE d # e  BY <1>9, <3>1, <3>2
    <3>3. CASE d = e
      <4>1. l.g = elo[e].g
        <5>1. f[e].g # SemRemoto  BY <1>2, <1>3, <2>1 DEF MantidoOK
        <5> QED  BY <1>3, <1>10, <1>13, <1>14, <5>1
      <4>2. IgualOK(e, l, Ev(s, e), google, Passadas, tardias)  BY ONLY <1>10, <3>1, <3>3, <4>1 DEF IgualOK
      <4>3. Elo(s, e)' = l  BY Zenon, <1>9
      <4> QED  BY ONLY <3>3, <4>2, <4>3
    <3> QED  BY <3>2, <3>3
  <2>2. acertado = "sim" => /\ sync'[s].calmo = "sim"
                            /\ \A d \in DOMAIN sync'[s].lista : sync'[s].lista[d].g # SemRemoto
    BY <1>2, <1>5, <1>6 DEF MantidoOK
  <2>3. sync'[s].passo = "enviar"  BY <1>5
  <2> QED  BY ONLY <1>7, <1>9, <2>1, <2>2, <2>3 DEF MantidoOK
<1>22. AtivaOK(s)'  BY <1>16, <1>17, <1>19, <1>20, <1>21 DEF AtivaOK
<1> QED  BY <1>1, <1>2, <1>5, <1>15, <1>22, AcertosSeguem

-----------------------------------------------------------------------------
(* The commit, and the crash. *)

LEMMA ConcluirAcerta ==
    ASSUME IInvGoogle, IInvGoogle', Acertos, NEW s \in Syncs, Concluir(s)
    PROVE  Acertos'
<1>1. /\ sync[s].passo = "fim" \/ (sync[s].passo = "enviar" /\ DOMAIN sync[s].lista = {})
      /\ token' = sync[s].token /\ acertado' = (IF sync[s].calmo = "sim" THEN "sim" ELSE acertado)
      /\ evento' = [e \in Eventos |-> Ev(s, e)] /\ elo' = [e \in Eventos |-> Elo(s, e)]
      /\ sync' = [sync EXCEPT ![s] = SyncLivre]
      /\ UNCHANGED <<google, edicao, tardias, duvidosos, puladas>>
  BY DEF Concluir, Gravar, Seguir
<1>30. Passadas' = Passadas  BY <1>1, PassadasFicam
<1>2. sync[s].passo # "livre"  BY <1>1
<1>3. /\ TipoGoogle /\ sync \in [Syncs -> SyncT] /\ PassoOK(s) /\ duvidosos = {}
      /\ google \in [Remotos -> RemotoT]
      /\ TokenOK(s) /\ VistaOK(s) /\ CalmaOK(s) /\ MantidoOK(s)
  BY <1>2 DEF IInvGoogle, TipoGoogle, SyncsOK, Acertos, AtivaOK
<1>4. sync[s].passo = "enviar" /\ DOMAIN sync[s].lista = {} /\ DOMAIN sync[s].itens = {}
  BY <1>1, <1>3 DEF TokenOK, PassoOK
<1>5. /\ sync'[s].passo = "livre" /\ sync'[s].junto = "nao"
      /\ \A t \in Syncs \ {s} : sync'[t] = sync[t]
  BY <1>1, <1>3 DEF SyncLivre
<1>6. /\ \A e \in Eventos : elo'[e] = Elo(s, e) /\ evento'[e] = Ev(s, e)
      /\ google' = google /\ Passadas' = Passadas /\ tardias' = tardias /\ edicao' = edicao /\ duvidosos' = {}
  BY <1>30, <1>1, <1>3
<1>7. TabelasOK'
  <2>1. \A g \in Remotos : sync[s].token[g] <= google[g].ver  BY <1>3 DEF TokenOK
  <2>2. \A e \in Eventos :
          LigadoOK(e, Elo(s, e), Ev(s, e), sync[s].token, {}, google, Passadas, tardias)
    BY <1>3, <1>4 DEF VistaOK
  <2>3. \A g \in Remotos :
          google[g].st = "vivo" /\ google[g].ver <= sync[s].token[g] => SabidoPor(s, g)
    BY <1>3, <1>4 DEF VistaOK
  <2>4. token' = sync[s].token  BY <1>1
  <2> QED  BY ONLY <1>6, <2>1, <2>2, <2>3, <2>4 DEF TabelasOK, Sabido, SabidoPor
<1>8. AcertadasOK'
  <2> SUFFICES ASSUME acertado' = "sim" PROVE AcertadasOK'
    BY DEF AcertadasOK
  <2>1. sync[s].calmo = "sim"  BY <1>1, <1>3 DEF MantidoOK
  <2>2. /\ \A r \in Edicoes : edicao[r] = EdicaoLivre
        /\ \A g \in Remotos : google[g].st = "vivo" => SabidoPor(s, g)
        /\ \A e \in Eventos :
              /\ Ev(s, e).st \in {"vivo", "cancelado"} => Elo(s, e).g # SemRemoto
              /\ Ev(s, e).st = "vivo" => /\ Ev(s, e).mod <= Elo(s, e).sist
                                         /\ \/ Elo(s, e).ver = google[Elo(s, e).g].ver
                                            \/ Elo(s, e).g \in Passadas
    BY ONLY <1>3, <1>4, <2>1 DEF CalmaOK
  <2>3. ASSUME NEW e \in Eventos PROVE IgualOK(e, Elo(s, e), Ev(s, e), google, Passadas, tardias)
    <3>1. LigadoOK(e, Elo(s, e), Ev(s, e), sync[s].token, DOMAIN sync[s].itens, google, Passadas, tardias)
      BY <1>3 DEF VistaOK
    <3> QED  BY ONLY <2>2, <3>1, e \in Eventos DEF LigadoOK, IgualOK
  <2> QED  BY ONLY <1>6, <2>2, <2>3 DEF AcertadasOK, Sabido, SabidoPor
<1> QED  BY <1>2, <1>5, <1>6, <1>7, <1>8, AcertosSeguem

LEMMA FalharAcerta ==
    ASSUME IInvGoogle, IInvGoogle', Acertos, NEW s \in Syncs, Falhar(s)
    PROVE  Acertos'
<1>1. /\ sync[s].passo \in {"buscar", "enviar"}
      /\ evento' = [e \in Eventos |-> Ev(s, e)] /\ elo' = [e \in Eventos |-> Elo(s, e)]
      /\ sync' = [sync EXCEPT ![s] = SyncLivre]
      /\ UNCHANGED <<token, google, edicao, acertado, tardias, duvidosos, puladas>>
  BY DEF Falhar, Recusada, Gravar, Seguir, historiaAgenda
<1>30. Passadas' = Passadas  BY <1>1, PassadasFicam
<1>2. sync[s].passo # "livre"  BY <1>1
<1>3. /\ TipoGoogle /\ sync \in [Syncs -> SyncT] /\ PassoOK(s) /\ duvidosos = {}
      /\ google \in [Remotos -> RemotoT] /\ token \in [Remotos -> Nat]
      /\ sync[s].token \in [Remotos -> Nat]
      /\ TabelasOK /\ AcertadasOK /\ TokenOK(s) /\ VistaOK(s) /\ MantidoOK(s)
  BY <1>2 DEF IInvGoogle, TipoGoogle, SyncsOK, Acertos, AtivaOK, SyncT
<1>4. DOMAIN sync[s].itens = {}  BY <1>1, <1>3 DEF PassoOK
<1>5. /\ sync'[s].passo = "livre" /\ sync'[s].junto = "nao"
      /\ \A t \in Syncs \ {s} : sync'[t] = sync[t]
  BY <1>1, <1>3 DEF SyncLivre
<1>6. /\ \A e \in Eventos : elo'[e] = Elo(s, e) /\ evento'[e] = Ev(s, e)
      /\ google' = google /\ Passadas' = Passadas /\ tardias' = tardias /\ edicao' = edicao /\ duvidosos' = {}
      /\ token' = token /\ acertado' = acertado
  BY <1>30, <1>1, <1>3
<1>7. \A g \in Remotos : Sabido(g) => SabidoPor(s, g)
  BY <1>3, EloFica, NomesAgenda DEF Sabido, SabidoPor
<1>8. TabelasOK'
  <2>1. \A g \in Remotos : token[g] <= google[g].ver  BY <1>3 DEF TabelasOK
  <2>2. ASSUME NEW e \in Eventos
        PROVE  LigadoOK(e, Elo(s, e), Ev(s, e), token, {}, google, Passadas, tardias)
    <3> SUFFICES ASSUME Elo(s, e).g # SemRemoto
                 PROVE  LigadoOK(e, Elo(s, e), Ev(s, e), token, {}, google, Passadas, tardias)
      BY DEF LigadoOK
    <3>1. LigadoOK(e, Elo(s, e), Ev(s, e), sync[s].token, {}, google, Passadas, tardias)
      BY <1>3, <1>4 DEF VistaOK
    <3>2. Elo(s, e).g \in Remotos  BY <1>3, EvTem DEF EloT
    <3>3. /\ token[Elo(s, e).g] <= sync[s].token[Elo(s, e).g]
          /\ token[Elo(s, e).g] \in Nat /\ sync[s].token[Elo(s, e).g] \in Nat
          /\ google[Elo(s, e).g].ver \in Nat
      BY <1>3, <3>2 DEF TokenOK, RemotoT
    <3> QED  BY ONLY <3>1, <3>3 DEF LigadoOK
  <2>3. \A g \in Remotos : google[g].st = "vivo" /\ google[g].ver <= token[g] => SabidoPor(s, g)
    BY <1>3, <1>7 DEF TabelasOK
  <2> QED  BY ONLY <1>6, <2>1, <2>2, <2>3 DEF TabelasOK, Sabido, SabidoPor
<1>9. AcertadasOK'
  <2> SUFFICES ASSUME acertado = "sim" PROVE AcertadasOK'
    BY <1>6 DEF AcertadasOK
  <2>1. /\ \A r \in Edicoes : edicao[r] = EdicaoLivre
        /\ \A g \in Remotos : google[g].st = "vivo" => SabidoPor(s, g)
    BY <1>3, <1>7 DEF AcertadasOK
  <2>2. \A e \in Eventos : IgualOK(e, Elo(s, e), Ev(s, e), google, Passadas, tardias)  BY <1>3 DEF MantidoOK
  <2> QED  BY ONLY <1>6, <2>1, <2>2 DEF AcertadasOK, Sabido, SabidoPor
<1> QED  BY <1>2, <1>5, <1>6, <1>8, <1>9, AcertosSeguem

LEMMA QuedaAcerta ==
    ASSUME IInvGoogle, IInvGoogle', Acertos, direcao = "bidirecional", NEW s \in Syncs,
           Cair(s) \/ Violar(s)
    PROVE  Acertos'
<1>1. /\ sync[s].passo # "livre" /\ sync' = [sync EXCEPT ![s] = SyncLivre]
      /\ UNCHANGED <<token, evento, elo, google, edicao, acertado, tardias, puladas>>
      /\ duvidosos' = duvidosos
  BY DEF Cair, Violar, Desfazer, Seguir, tabelasAgenda
<1>30. Passadas' = Passadas  BY <1>1, PassadasFicam
<1>2. sync \in [Syncs -> SyncT] /\ duvidosos = {} /\ TabelasOK /\ AcertadasOK
  BY DEF IInvGoogle, TipoGoogle, Acertos
<1>3. /\ sync'[s].passo = "livre" /\ sync'[s].junto = "nao"
      /\ \A t \in Syncs \ {s} : sync'[t] = sync[t]
  BY <1>1, <1>2 DEF SyncLivre
<1>4. TabelasOK' /\ AcertadasOK'  BY <1>1, <1>2, TabelasFicam
<1> QED  BY <1>1, <1>2, <1>3, <1>4, AcertosSeguem

-----------------------------------------------------------------------------
LEMMA InicioAcerto == ASSUME InitAgenda PROVE AcertoOK
<1>1. /\ token = SemToken /\ elo = [e \in Eventos |-> SemElo]
      /\ google = [g \in Remotos |-> RemotoLivre] /\ sync = [s \in Syncs |-> SyncLivre]
      /\ acertado = "nao" /\ duvidosos = {}
  BY DEF InitAgenda
<1>2. TabelasOK
  <2>1. \A g \in Remotos : token[g] = 0 /\ google[g].ver = 0 /\ google[g].st = "livre"
    BY <1>1 DEF SemToken, RemotoLivre
  <2>2. \A e \in Eventos : elo[e].g = SemRemoto  BY <1>1 DEF SemElo
  <2> QED  BY <2>1, <2>2 DEF TabelasOK, LigadoOK
<1>3. \A s \in Syncs : sync[s].passo = "livre" /\ sync[s].junto = "nao"  BY <1>1 DEF SyncLivre
<1> QED  BY <1>1, <1>2, <1>3 DEF AcertoOK, Acertos, AcertadasOK

LEMMA DuvidaCresce ==
    ASSUME IInvGoogle, [NextAgenda]_varsAgenda
    PROVE  duvidosos \subseteq duvidosos'
<1>1. ASSUME NEW s \in Syncs, Enviar(s) PROVE duvidosos \subseteq duvidosos'
  <2>1. PICK x \in SyncT, n \in RemotoT, e0 \in Eventos, g0 \in Remotos : Envio(s, x, n, e0, g0)
    BY Zenon, <1>1, EnviarEnvia
  <2> QED  BY <2>1 DEF Envio
<1>2. ASSUME NEW s \in Syncs, Cair(s) \/ Violar(s) PROVE duvidosos \subseteq duvidosos'
  BY <1>2 DEF Cair, Violar, Desfazer
<1>3. ASSUME NEW s \in Syncs, NEW g \in Remotos, Pular(s, g) PROVE duvidosos \subseteq duvidosos'
  BY <1>3 DEF Pular
<1>4. ASSUME NEW s \in Syncs,
             \/ Sincronizar(s) \/ Buscar(s) \/ Aplicar(s) \/ Ignorar(s) \/ FimDaBusca(s)
             \/ \E g \in Remotos : Escolher(s, g)
             \/ LerEventos(s) \/ Anotar(s) \/ Concluir(s) \/ Falhar(s)
      PROVE  duvidosos' = duvidosos
  BY Zenon, <1>4 DEF Sincronizar, Buscar, Aplicar, Ignorar, FimDaBusca, Escolher, LerEventos, Anotar,
     Concluir, Falhar, historiaAgenda
<1>5. ASSUME \/ \E g \in Remotos : \/ GoogleCria(g)
                                   \/ \E st \in {"vivo", "cancelado"} : GoogleAltera(g, st)
             \/ \E e \in Eventos : CriarEvento(e)
             \/ \E r \in Edicoes : \/ GravarEvento(r)
                                   \/ \E e \in Eventos, tipo \in {"vivo", "cancelado", "excluido"} :
                                         LerEvento(r, e, tipo)
             \/ UNCHANGED varsAgenda
      PROVE  duvidosos' = duvidosos
  BY Zenon, <1>5 DEF GoogleCria, GoogleAltera, CriarEvento, GravarEvento, LerEvento, varsAgenda
<1> QED  BY Zenon, <1>1, <1>2, <1>3, <1>4, <1>5 DEF NextAgenda

LEMMA PassoAcerto ==
    IInvGoogle /\ IInvGoogle' /\ AcertoOK /\ [NextAgenda]_varsAgenda => AcertoOK'
<1> SUFFICES ASSUME IInvGoogle, IInvGoogle', AcertoOK, [NextAgenda]_varsAgenda,
                    direcao' = "bidirecional", juntas' = "nao", duvidosos' = {}
             PROVE  Acertos'
  BY DEF AcertoOK
<1>5. duvidosos = {}  BY DuvidaCresce
<1> DEFINE DePessoas ==
       \/ \E g \in Remotos : GoogleCria(g) \/ \E st \in {"vivo", "cancelado"} : GoogleAltera(g, st)
       \/ \E e \in Eventos : CriarEvento(e)
       \/ \E r \in Edicoes : \/ GravarEvento(r)
                             \/ \E e \in Eventos, tipo \in {"vivo", "cancelado", "excluido"} :
                                   LerEvento(r, e, tipo)
<1>1. CASE DePessoas
  <2>1. direcao' = direcao /\ juntas' = juntas
    BY Zenon, <1>1 DEF GoogleCria, GoogleAltera, CriarEvento, GravarEvento, LerEvento
  <2> QED  BY <1>1, <1>5, <2>1, PessoasAcertam DEF AcertoOK
<1>2. ASSUME NEW s \in Syncs, Sincronizar(s) PROVE Acertos'
  <2>1. direcao' = direcao /\ juntas = "nao"  BY <1>2 DEF Sincronizar
  <2> QED  BY <1>2, <1>5, <2>1, SincronizarAcerta DEF AcertoOK
<1>3. ASSUME NEW s \in Syncs,
             \/ Buscar(s) \/ Aplicar(s) \/ Ignorar(s) \/ FimDaBusca(s)
             \/ \E g \in Remotos : Pular(s, g) \/ Escolher(s, g)
             \/ LerEventos(s) \/ Enviar(s) \/ Anotar(s)
             \/ Concluir(s) \/ Falhar(s) \/ Cair(s) \/ Violar(s)
      PROVE  Acertos'
  <2>1. direcao' = direcao /\ juntas' = juntas
    BY Zenon, <1>3 DEF Buscar, Aplicar, Ignorar, FimDaBusca, Pular, Escolher, LerEventos, Enviar, Anotar,
       Concluir, Falhar, Cair, Violar, Desfazer, fixoAgenda, historiaAgenda
  <2>2. Acertos /\ direcao = "bidirecional" /\ duvidosos' = {}  BY <1>5, <2>1 DEF AcertoOK
  <2> QED
    BY ONLY IInvGoogle, IInvGoogle', <1>3, <2>2, BuscarAcerta, AplicarAcerta, IgnorarAcerta,
       FimDaBuscaAcerta, PularAcerta, EscolherAcerta, LerEventosAcerta, EnviarAcerta, AnotarAcerta, ConcluirAcerta,
       FalharAcerta, QuedaAcerta
<1>4. CASE UNCHANGED varsAgenda
  <2>1. /\ direcao' = direcao /\ token' = token /\ evento' = evento /\ elo' = elo /\ google' = google
        /\ sync' = sync /\ rasc' = rasc /\ edicao' = edicao /\ acertado' = acertado
        /\ tardias' = tardias /\ duvidosos' = duvidosos /\ juntas' = juntas
        /\ puladas' = puladas
    BY <1>4 DEF varsAgenda
  <2>2. Acertos /\ Passadas' = Passadas  BY <2>1, PassadasFicam DEF AcertoOK
  <2>3. \A s \in Syncs, e \in Eventos : Elo(s, e)' = Elo(s, e) /\ Ev(s, e)' = Ev(s, e)
    BY <2>1 DEF Elo, Ev
  <2>4. TabelasOK' /\ AcertadasOK'  BY <2>1, <2>2, TabelasFicam DEF Acertos
  <2>5. ASSUME NEW s \in Syncs, sync[s].passo # "livre" PROVE AtivaOK(s)'
    <3>1. AtivaOK(s)  BY <2>2, <2>5 DEF Acertos
    <3>2. TokenOK(s)' /\ LidoOK(s)' /\ EnviadoOK(s)'
      BY ONLY <2>1, <3>1 DEF AtivaOK, TokenOK, LidoOK, EnviadoOK
    <3>3. DecididoOK(s)' /\ VistaOK(s)'
      BY ONLY <2>1, <2>2, <2>3, <2>5, <3>1 DEF AtivaOK, DecididoOK, VistaOK, SabidoPor
    <3>4. CalmaOK(s)' /\ MantidoOK(s)'
      BY ONLY <2>1, <2>2, <2>3, <2>5, <3>1 DEF AtivaOK, CalmaOK, MantidoOK, SabidoPor
    <3> QED  BY <3>2, <3>3, <3>4 DEF AtivaOK
  <2> QED  BY <2>1, <2>2, <2>4, <2>5 DEF Acertos
<1> QED  BY <1>1, <1>2, <1>3, <1>4 DEF NextAgenda

\* After a synchronization in both directions that nobody disturbed, an event
\* that lives here is at Google with the same contents and whatever lives at
\* Google has an event here, for any number of events, synchronizations,
\* handlers and people, whatever crashed or failed before, but for the copies
\* that a pull passed over as they are (docs/integracao-google-agenda.md:13-15,
\* 80-82), as long as no two synchronizations overlapped and no pull passed over
\* a copy to be adopted (synchronize_google_calendar, _pull, _push).
THEOREM CalmaSempreConverge == SpecAgenda => []Convergem
<1>1. InitAgenda => IInvGoogle /\ AcertoOK  BY InicioGoogle, InicioAcerto
<1>2. /\ IInvGoogle /\ [NextAgenda]_varsAgenda => IInvGoogle'
      /\ IInvGoogle /\ IInvGoogle' /\ AcertoOK /\ [NextAgenda]_varsAgenda => AcertoOK'
  BY PassoGoogle, PassoAcerto
<1>3. AcertoOK => Convergem
  BY Zenon DEF AcertoOK, Acertos, AcertadasOK, IgualOK, Sabido, Passadas, Convergem, Acertado
<1> QED  BY <1>1, <1>2, <1>3, PTL DEF SpecAgenda
=============================================================================
